------------------------ MODULE SessionManagerProofs ------------------------
(***************************************************************************)
(* The session manager's bookkeeping is right for all numbers of sessions, *)
(* requests, operators, workstations and browsers, in every mode: the      *)
(* count of active sessions is exact, no browser and no VNC pipeline runs  *)
(* without an owner, a session that is gone has nothing, and stop() leaves *)
(* nothing behind - each but for what the code is known to lose (lost,     *)
(* botched and cut say what that is).                                      *)
(*                                                                         *)
(* The inductive invariant SInv adds to these properties and to the pool's *)
(* own invariant (Sound of WarmPoolInv, whose theorems are used through    *)
(* the instance P) what a task at each place under the lock has in its     *)
(* hands, and what each phase of the application allows.                   *)
(*                                                                         *)
(* A step of a task inside the manager is a step of the manager's own      *)
(* fields and one of the pool's (Moves, KnownKept): the lemmas about the   *)
(* pool's half come first, then one for each step of the manager.          *)
(*                                                                         *)
(* The second part, from Taken on, is about whose the workstations are:    *)
(* what a session, a create under way or an operator has reserved nobody   *)
(* else gets, marks or releases, and nothing stays reserved without an     *)
(* owner.                                                                  *)
(***************************************************************************)
EXTENDS SessionManager, FiniteSetTheorems, TLAPS

P == INSTANCE WarmPoolProofs WITH Starter <- Main

-----------------------------------------------------------------------------
\* The places of create_session at which the session is not stored yet.
Creating == {"cold", "reserve", "reserving", "build", "marking", "cancel",
             "cancelling"}

\* The lock's holder is the one task inside a create or an update, and it works
\* on a session; the reaper, while it lives, sweeps and updates, it never creates.
Tasks ==
    \A t \in Managers :
        /\ mpc[t] \notin {"idle", "sweep"} <=> mlock = t
        /\ cur[t] \in Sessions <=> mlock = t
        /\ mpc[t] = "sweep" => t = Reaper
        /\ t = Reaper => /\ mpc[t] \notin Creating \cup {"created", "undoing"}
                         /\ mpc[t] # "idle" => reaping = "on"

\* A task has a browser or a slot in its hands only while it creates.
Hands ==
    \A t \in Managers :
        /\ inHand[t] # NoBrowser =>
               mpc[t] \in {"build", "marking", "cancel", "cancelling"}
        /\ hold[t] # NoSlot => mpc[t] \in Creating \ {"reserve"}
        /\ mpc[t] \in {"reserving", "marking", "cancel", "cancelling"} => hold[t] # NoSlot

\* The pool's method a task of the manager is in.
MethodAt(place) ==
    CASE place = "reserving" -> "reserve"
      [] place = "marking" -> "busy"
      [] place = "cancelling" -> "cancel"
      [] place \in {"undoing", "releasing"} -> "release"
      [] OTHER -> "none"

Calls == \A t \in Managers : op[t] = MethodAt(mpc[t])

\* What the hooks' task does in each phase; outside "serving" nobody else does
\* anything, but for a reaper that stop() has not cancelled yet.
App ==
    /\ op[Main] = CASE phase = "starting" -> "start"
                    [] phase = "stopping" -> "drain"
                    [] OTHER -> "none"
    /\ phase # "serving" =>
           /\ \A t \in Managers : mpc[t] = "idle" \/ (phase = "cancelling" /\ mpc[t] = "sweep")
           /\ \A t \in Operators : op[t] = "none"

Works(s, places) == \E t \in Managers : cur[t] = s /\ mpc[t] \in places

\* What a session may have: a dead one still has its slot while its end is about
\* to release it or lost its way, and everything while its creation can still be
\* taken back.
Stored ==
    \A s \in Sessions :
        /\ ~endpoint[s] => browserOf[s] = NoBrowser
        /\ status[s] = "none" => ~endpoint[s] /\ warmOf[s] = NoSlot /\ ~vncOf[s]
        /\ status[s] = "DEAD" =>
               \/ Works(s, {"created"})
               \/ /\ browserOf[s] = NoBrowser
                  /\ vncOf[s] => s \in cut
                  /\ warmOf[s] # NoSlot => s \in botched \cup cut \/ Works(s, {"release"})

\* The session a task works on is stored or not, as its place says.
Doing ==
    \A t \in Managers :
        /\ mpc[t] \in Creating \cup {"undoing"} => status[cur[t]] = "none"
        /\ mpc[t] = "created" => status[cur[t]] # "none"
        /\ mpc[t] = "release" => status[cur[t]] = "DEAD" /\ warmOf[cur[t]] # NoSlot

\* VNC helpers run for a session that tracks them, is being created, or whose end was
\* cut off.
Pipelines ==
    \A s \in Sessions :
        /\ vncOf[s] => s \in vncLive
        /\ s \in vncLive => vncOf[s] \/ s \in cut \/ Works(s, Creating)

Counted == IsFiniteSet(LiveSessions) /\ active = Cardinality(LiveSessions)

\* Whose a browser is that the pool does not know: it was launched for a session
\* without a workstation.
Cold(b) ==
    \/ \E s \in Sessions : browserOf[s] = b /\ warmOf[s] = NoSlot
    \/ \E t \in Managers : inHand[t] = b /\ hold[t] = NoSlot

Owned == \A b \in live \ lost : P!Known(b) \/ Cold(b)

\* stop() has forgotten the browsers; its drain leaves empty slots behind it.
Ending ==
    /\ phase \in {"stopping", "stopped"} => \A s \in Sessions : browserOf[s] = NoBrowser
    /\ phase = "stopping" =>
           \A w \in Slots \ todo[Main] :
               target[Main] = w \/ (state[w] = "DRAINING" /\ handle[w] = NoBrowser)
    /\ phase = "stopped" => live \subseteq lost /\ vncLive \subseteq cut

SInv ==
    /\ P!Sound
    /\ TypeOK
    /\ Tasks
    /\ Hands
    /\ Calls
    /\ App
    /\ Stored
    /\ Doing
    /\ Pipelines
    /\ Counted
    /\ Owned
    /\ Ending

\* What the rollback of a creation does to its session.
Forgotten(t) ==
    LET s == cur[t] IN
    /\ status' = [status EXCEPT ![s] = "none"]
    /\ endpoint' = [endpoint EXCEPT ![s] = FALSE]
    /\ browserOf' = [browserOf EXCEPT ![s] = NoBrowser]
    /\ warmOf' = [warmOf EXCEPT ![s] = NoSlot]
    /\ vncOf' = [vncOf EXCEPT ![s] = FALSE]
    /\ vncLive' = vncLive \ {s}
    /\ active' = IF status[s] = "LIVE" /\ active > 0 THEN active - 1 ELSE active

\* The assumption of the pool follows from the manager's.
LEMMA PoolAssumed == P!WarmPoolAssumption
<1>. QED
    BY SessionManagerAssumption DEF P!WarmPoolAssumption, Clients

\* The manager's pool is the pool the theorems of WarmPoolProofs are about.
LEMMA SamePool ==
    ASSUME NEW c \in Clients
    PROVE  /\ Pool!Init => P!Init
           /\ \A o \in Pool!SlotOps, w \in Slots :
                  o # "reserve" /\ Pool!Call(c, o, w) => o \in P!SlotOps /\ P!Call(c, o, w)
           /\ \A w \in Slots : Pool!CallReserve(c, w) => P!CallReserve(c, w)
           /\ Pool!CallStart(c) => P!CallStart(c)
           /\ Pool!LoopDone(c) => P!LoopDone(c)
           /\ Pool!Switch(c) => P!Switch(c)
           /\ Pool!Refuse(c) => P!Refuse(c)
           /\ Pool!Prewarm(c) => P!Prewarm(c)
           /\ Pool!DirectoryFails(c) => P!DirectoryFails(c)
           /\ Pool!SpawnFails(c) => P!SpawnFails(c)
           /\ \A b \in Browsers : Pool!SpawnLoses(c, b) => P!SpawnLoses(c, b)
           /\ Pool!PrewarmFails(c) => P!PrewarmFails(c)
           /\ Pool!Step(c) => P!Step(c)
           /\ Pool!Fresh = P!Fresh
<1>1. Pool!Init => P!Init
    BY DEF Pool!Init, P!Init
<1>2. \A o \in Pool!SlotOps, w \in Slots :
                  o # "reserve" /\ Pool!Call(c, o, w) => o \in P!SlotOps /\ P!Call(c, o, w)
    BY DEF Pool!Call, P!Call, Pool!SlotOps, P!SlotOps, Pool!Switches, P!Switches,
        Pool!Recycles, P!Recycles, Pool!slotVars, P!slotVars, Pool!historyVars,
        P!historyVars
<1>3. \A w \in Slots : Pool!CallReserve(c, w) => P!CallReserve(c, w)
    BY DEF Pool!CallReserve, P!CallReserve, Pool!slotVars, P!slotVars, Pool!historyVars,
        P!historyVars
<1>4. Pool!CallStart(c) => P!CallStart(c)
    BY DEF Pool!CallStart, P!CallStart
<1>5. \A w \in Slots : Pool!NextSlot(c, w) => P!NextSlot(c, w)
    BY DEF Pool!NextSlot, P!NextSlot, Pool!slotVars, P!slotVars, Pool!historyVars,
        P!historyVars
<1>6. Pool!LoopDone(c) => P!LoopDone(c)
    BY DEF Pool!LoopDone, P!LoopDone, Pool!Return, P!Return, Pool!slotVars, P!slotVars
<1>7. Pool!Refuse(c) => P!Refuse(c)
    BY DEF Pool!Refuse, P!Refuse, Pool!Accepted, P!Accepted, Pool!Accepts, P!Accepts,
        Pool!Return, P!Return, Pool!slotVars, P!slotVars, Pool!historyVars,
        P!historyVars
<1>8. Pool!Switch(c) => P!Switch(c)
    BY DEF Pool!Switch, P!Switch, Pool!Accepted, P!Accepted, Pool!Accepts, P!Accepts,
        Pool!Switches, P!Switches, Pool!SetsState, P!SetsState, Pool!Return, P!Return,
        Pool!Recycles, P!Recycles
<1>9. Pool!Enter(c) => P!Enter(c)
    BY DEF Pool!Enter, P!Enter, Pool!Accepted, P!Accepted, Pool!Accepts, P!Accepts,
        Pool!Switches, P!Switches, Pool!SetsState, P!SetsState, Pool!Recycles,
        P!Recycles
<1>10. Pool!Teardown(c) => P!Teardown(c)
    BY DEF Pool!Teardown, P!Teardown, Pool!Recycles, P!Recycles, Pool!Return, P!Return
<1>11. Pool!MakeDirectory(c) => P!MakeDirectory(c)
    BY DEF Pool!MakeDirectory, P!MakeDirectory, Pool!slotVars, P!slotVars,
        Pool!historyVars, P!historyVars
<1>12. Pool!DirectoryFails(c) => P!DirectoryFails(c)
    BY DEF Pool!DirectoryFails, P!DirectoryFails, Pool!Return, P!Return
<1>13. \A b \in Browsers : Pool!Spawn(c, b) => P!Spawn(c, b)
    BY DEF Pool!Spawn, P!Spawn, Pool!Fresh, P!Fresh
<1>14. Pool!SpawnFails(c) => P!SpawnFails(c)
    BY DEF Pool!SpawnFails, P!SpawnFails, Pool!AttemptFailed, P!AttemptFailed,
        Pool!Provisioned, P!Provisioned, Pool!Return, P!Return, Pool!historyVars,
        P!historyVars
<1>15. Pool!Prewarm(c) => P!Prewarm(c)
    BY DEF Pool!Prewarm, P!Prewarm, Pool!Provisioned, P!Provisioned, Pool!Return,
        P!Return, Pool!historyVars, P!historyVars
<1>16. Pool!PrewarmFails(c) => P!PrewarmFails(c)
    BY DEF Pool!PrewarmFails, P!PrewarmFails, Pool!AttemptFailed, P!AttemptFailed,
        Pool!Provisioned, P!Provisioned, Pool!Return, P!Return, Pool!historyVars,
        P!historyVars
<1>17. Pool!Fresh = P!Fresh
    BY DEF Pool!Fresh, P!Fresh
<1>19. \A b \in Browsers : Pool!SpawnLoses(c, b) => P!SpawnLoses(c, b)
    BY <1>17 DEF Pool!SpawnLoses, P!SpawnLoses, Pool!AttemptFailed, P!AttemptFailed,
        Pool!Provisioned, P!Provisioned, Pool!Return, P!Return
<1>20. Pool!StartFails(c) => P!StartFails(c)
    BY DEF Pool!StartFails, P!StartFails, Pool!slotVars, P!slotVars
<1>18. Pool!Step(c) => P!Step(c)
    BY <1>5, <1>6, <1>7, <1>8, <1>9, <1>10, <1>11, <1>12, <1>13, <1>14, <1>15, <1>16, <1>19,
        <1>20 DEF Pool!Step, P!Step
<1>. QED
    BY <1>1, <1>2, <1>3, <1>4, <1>5, <1>6, <1>7, <1>8, <1>9, <1>10, <1>11, <1>12, <1>13,
        <1>14, <1>15, <1>16, <1>17, <1>18, <1>19

-----------------------------------------------------------------------------
(* The tasks, the pool and the count. *)

\* The tasks of the manager, the operators and the hooks are different tasks.
LEMMA WhoIsWho ==
    /\ Managers \subseteq Clients /\ Operators \subseteq Clients /\ Main \in Clients
    /\ Main \notin Managers /\ Main \notin Operators
    /\ Reaper \in Managers /\ Requests \subseteq Managers
    /\ Managers \cap Operators = {} /\ Reaper \notin Requests
    /\ NoClient \notin Managers
<1>. QED
    BY SessionManagerAssumption DEF Clients, Managers

\* A step is a step of t's call alone, which is of method o after it.
Moves(t, o) ==
    /\ P!Sound'
    /\ \A d \in Clients \ {t} : op'[d] = op[d]
    /\ op'[t] = o

\* No browser becomes unknown to the pool without being killed or lost.
KnownKept ==
    \A b \in live' \ lost' : P!Known(b)' \/ (b \in live \ lost /\ ~P!Known(b))

\* The pool stands still, but for processes it does not know of.
LEMMA PoolStill ==
    ASSUME P!Sound, NEW t \in Clients, live' \subseteq live,
           UNCHANGED <<state, handle, lock, draining, op, pc, target, launched, attempt, todo,
                       used, stranded, drained, reenabled, lost>>
    PROVE  Moves(t, op[t]) /\ KnownKept
<1>1. P!Sound'
    BY PoolAssumed, P!OutsideSound DEF P!Sound, P!TypeOK, P!callVars
<1>. QED
    BY <1>1 DEF Moves, KnownKept, P!Known

\* The same when a launch of the manager's own loses its browser.
LEMMA PoolStillLoses ==
    ASSUME P!Sound, NEW t \in Clients, NEW b \in Browsers,
           live' = live \cup {b}, lost' = lost \cup {b},
           UNCHANGED <<state, handle, lock, draining, op, pc, target, launched, attempt, todo,
                       used, stranded, drained, reenabled>>
    PROVE  Moves(t, op[t]) /\ KnownKept
<1>1. P!Sound'
    BY PoolAssumed, P!OutsideSound DEF P!Sound, P!TypeOK, P!callVars
<1>. QED
    BY <1>1 DEF Moves, KnownKept, P!Known

\* A task calls a method of the pool.
LEMMA PoolCalled ==
    ASSUME P!Sound, NEW t \in Clients, NEW o \in Pool!SlotOps, NEW w \in Slots,
           op[Main] = "none",
           IF o = "reserve" THEN Pool!CallReserve(t, w) ELSE Pool!Call(t, o, w)
    PROVE  Moves(t, o) /\ KnownKept /\ target' = [target EXCEPT ![t] = w]
<1>1. P!Serving
    BY DEF P!Serving
<1>2. P!Sound'
  <2>1. CASE o = "reserve"
      BY <1>1, <2>1, PoolAssumed, SamePool, P!CallReservePreserves
  <2>2. CASE o # "reserve"
    <3>1. o \in P!SlotOps /\ P!Call(t, o, w)
        BY <2>2, SamePool
    <3>. QED
        BY <1>1, <3>1, PoolAssumed, P!CallPreserves
  <2>. QED
      BY <2>1, <2>2
<1>3. /\ op' = [op EXCEPT ![t] = o] /\ target' = [target EXCEPT ![t] = w]
      /\ UNCHANGED <<live, handle, launched, lost>>
    BY DEF Pool!CallReserve, Pool!Call, Pool!slotVars, Pool!historyVars
<1>. QED
    BY <1>2, <1>3 DEF Moves, KnownKept, P!Known, P!Sound, P!TypeOK

\* A task's call goes on or returns.
LEMMA PoolStepped ==
    ASSUME P!Sound, NEW t \in Clients, Pool!Step(t)
    PROVE  Moves(t, op'[t]) /\ KnownKept /\ op[t] # "none" /\ op'[t] \in {op[t], "none"}
<1>1. P!Step(t)
    BY SamePool
<1>2. P!Sound'
    BY <1>1, PoolAssumed, P!StepSound
<1>3. KnownKept
  <2>1. CASE \E b \in P!Fresh : /\ live' = live \cup {b} /\ lost' = lost \cup {b}
                                /\ handle' = handle /\ launched' = launched
      BY <2>1 DEF KnownKept, P!Known
  <2>2. CASE lost' = lost /\ \A b \in live' : P!Known(b)' \/ (b \in live /\ ~P!Known(b))
      BY <2>2 DEF KnownKept
  <2>. QED
      BY <1>1, <2>1, <2>2, PoolAssumed, P!StepProcesses
<1>4. /\ op[t] # "none" /\ op'[t] \in {op[t], "none"}
      /\ \A d \in Clients \ {t} : op'[d] = op[d]
    BY <1>1, PoolAssumed, P!StepFrame
<1>. QED
    BY <1>2, <1>3, <1>4 DEF Moves

\* A call of a manager's task returns.
LEMMA PoolReturned ==
    ASSUME P!Sound, NEW t \in Clients, op[t] # "start",
           \/ Pool!Switch(t)
           \/ Pool!Refuse(t)
           \/ Pool!Prewarm(t)
           \/ Pool!DirectoryFails(t)
           \/ /\ Pool!SpawnFails(t) \/ Pool!PrewarmFails(t)
                 \/ \E b \in Browsers : Pool!SpawnLoses(t, b)
              /\ op'[t] = "none"
    PROVE  Moves(t, "none") /\ KnownKept
<1>1. op'[t] = "none"
    BY DEF Pool!Switch, Pool!Refuse, Pool!Prewarm, Pool!DirectoryFails, Pool!Provisioned,
        Pool!Return, P!Sound, P!TypeOK
<1>. QED
    BY <1>1, PoolStepped DEF Pool!Step

\* What every step of a manager's task does to the conjuncts about the pool.
LEMMA ManagerStep ==
    ASSUME SInv, NEW t \in Managers, phase = "serving", phase' = "serving",
           Moves(t, MethodAt(mpc'[t])),
           \A u \in Managers \ {t} : mpc'[u] = mpc[u]
    PROVE  P!Sound' /\ Calls' /\ App' /\ Ending'
<1>1. P!Sound' /\ Calls'
    BY WhoIsWho DEF SInv, Moves, Calls
<1>2. App'
    BY WhoIsWho DEF SInv, Moves, App
<1>3. Ending'
    BY DEF Ending
<1>. QED
    BY <1>1, <1>2, <1>3

\* Tasks are inside the manager only while the application serves.
LEMMA Busy ==
    ASSUME SInv, NEW t \in Managers, mpc[t] \notin {"idle", "sweep"}
    PROVE  phase = "serving"
<1>. QED
    BY DEF SInv, App

\* Browsers stay owned if those of sessions stay with their sessions.
LEMMA OwnedStep ==
    ASSUME SInv, KnownKept, \A b \in live' \ lost' : Cold(b) => Cold(b)'
    PROVE  Owned'
<1>. QED
    BY DEF SInv, Owned, KnownKept

\* The count after one session's status has changed.
LEMMA Recounted ==
    ASSUME Counted, status \in [Sessions -> {"none", "LIVE", "DEAD"}],
           NEW s \in Sessions, NEW st \in {"none", "LIVE", "DEAD"},
           status' = [status EXCEPT ![s] = st]
    PROVE  /\ IsFiniteSet(LiveSessions')
           /\ status[s] = "LIVE" => active > 0
           /\ Cardinality(LiveSessions') =
                 IF status[s] = "LIVE" /\ st # "LIVE" THEN active - 1
                 ELSE IF status[s] # "LIVE" /\ st = "LIVE" THEN active + 1 ELSE active
<1>1. CASE status[s] = "LIVE" /\ st # "LIVE"
  <2>1. LiveSessions' = LiveSessions \ {s} /\ s \in LiveSessions
      BY <1>1 DEF LiveSessions
  <2>. QED
      BY <1>1, <2>1, FS_RemoveElement, FS_CardinalityType, FS_EmptySet DEF Counted
<1>2. CASE status[s] # "LIVE" /\ st = "LIVE"
  <2>1. LiveSessions' = LiveSessions \cup {s} /\ s \notin LiveSessions
      BY <1>2 DEF LiveSessions
  <2>. QED
      BY <1>2, <2>1, FS_AddElement DEF Counted
<1>3. CASE (status[s] = "LIVE") <=> (st = "LIVE")
  <2>1. LiveSessions' = LiveSessions
      BY <1>3 DEF LiveSessions
  <2>2. status[s] = "LIVE" => s \in LiveSessions
      BY DEF LiveSessions
  <2>. QED
      BY <1>3, <2>1, <2>2, FS_CardinalityType, FS_EmptySet DEF Counted
<1>. QED
    BY <1>1, <1>2, <1>3

-----------------------------------------------------------------------------
(* create_session *)

\* The lock is taken for a session that is not stored.
LEMMA CreateBeginPreserves ==
    ASSUME SInv, NEW t \in Requests, NEW s \in Sessions, NEW v \in BOOLEAN, NEW f \in BOOLEAN,
           CreateBegin(t, s, v, f)
    PROVE  SInv'
<1> USE DEF SInv
<1>1. t \in Managers /\ t \in Clients /\ phase = "serving" /\ phase' = "serving"
    BY WhoIsWho, Busy DEF CreateBegin, Goto, appVars
<1>2. Moves(t, MethodAt(mpc'[t])) /\ KnownKept
    BY <1>1, PoolStill DEF Calls, MethodAt, TypeOK, poolVars, CreateBegin, Goto
<1>3. P!Sound' /\ Calls' /\ App' /\ Ending'
    BY <1>1, <1>2, ManagerStep DEF TypeOK, Goto, CreateBegin, appVars
<1>4. Counted'
    BY DEF Counted, LiveSessions, CreateBegin, Goto, appVars
<1>5. TypeOK'
    BY <1>1, WhoIsWho DEF TypeOK, Tasks, Hands, CreateBegin, Goto, appVars
<1>6. Tasks'
    BY <1>1, WhoIsWho, SessionManagerAssumption DEF TypeOK, Tasks, Creating, Doing,
        CreateBegin, Goto, appVars
<1>7. Hands'
    BY <1>1, WhoIsWho, SessionManagerAssumption DEF TypeOK, Hands, Creating, Tasks,
        CreateBegin, Goto, appVars
<1>8. Stored'
    BY <1>1, WhoIsWho DEF TypeOK, Stored, Works, Tasks, Doing, CreateBegin, Goto,
        appVars
<1>9. Doing'
    BY <1>1, WhoIsWho DEF TypeOK, Doing, Creating, Tasks, CreateBegin, Goto, appVars
<1>10. Pipelines'
    BY <1>1, WhoIsWho DEF TypeOK, Pipelines, Works, Creating, Tasks, Doing, CreateBegin,
        Goto, appVars
<1>11. \A b \in live' \ lost' : Cold(b) => Cold(b)'
    BY <1>1 DEF Cold, CreateBegin, Goto, appVars
<1>12. Owned'
    BY <1>2, <1>11, OwnedStep
<1>. QED
    BY <1>3, <1>4, <1>5, <1>6, <1>7, <1>8, <1>9, <1>10, <1>12

\* A creation is given up: what the task had in its hands is killed or given back.
LEMMA AbandonPreserves ==
    ASSUME SInv, NEW t \in Requests, mpc[t] \in Creating, Abandon(t), UNCHANGED appVars,
           Moves(t, "none"), KnownKept,
           \A b \in live' \ lost' : inHand[t] = b => hold[t] # NoSlot
    PROVE  SInv'
<1> USE DEF SInv
<1>1. t \in Managers /\ t \in Clients /\ phase = "serving" /\ phase' = "serving"
    BY WhoIsWho, Busy DEF Abandon, Leave, appVars, Creating
<1>2. Moves(t, MethodAt(mpc'[t])) /\ KnownKept
    BY <1>1 DEF MethodAt, TypeOK, Abandon, Leave
<1>3. P!Sound' /\ Calls' /\ App' /\ Ending'
    BY <1>1, <1>2, ManagerStep DEF TypeOK, Goto, Abandon, Leave, appVars
<1>4. Counted'
    BY DEF Counted, LiveSessions, Abandon, Leave, appVars
<1>5. TypeOK'
    BY <1>1, WhoIsWho DEF TypeOK, Tasks, Hands, Creating, Abandon, Leave, appVars, Goto
<1>6. Tasks'
    BY <1>1, WhoIsWho, SessionManagerAssumption DEF TypeOK, Tasks, Creating, Doing,
        Abandon, Leave, appVars, Goto
<1>7. Hands'
    BY <1>1, WhoIsWho, SessionManagerAssumption DEF TypeOK, Hands, Creating, Tasks,
        Abandon, Leave, appVars, Goto
<1>8. Stored'
    BY <1>1, WhoIsWho DEF TypeOK, Stored, Works, Tasks, Doing, Creating, Abandon, Leave,
        appVars, Goto
<1>9. Doing'
    BY <1>1, WhoIsWho DEF TypeOK, Doing, Creating, Tasks, Abandon, Leave, appVars, Goto
<1>10. Pipelines'
    BY <1>1, WhoIsWho DEF TypeOK, Pipelines, Works, Creating, Tasks, Doing, Stored,
        Abandon, Leave, appVars, Goto
<1>11. \A b \in live' \ lost' : Cold(b) => Cold(b)'
    BY <1>1 DEF Cold, TypeOK, Abandon, Leave
<1>12. Owned'
    BY <1>2, <1>11, OwnedStep
<1>. QED
    BY <1>3, <1>4, <1>5, <1>6, <1>7, <1>8, <1>9, <1>10, <1>12

\* A hybrid runner that gets no slot goes on to launch a browser.
LEMMA FallBackPreserves ==
    ASSUME SInv, NEW t \in Requests, mpc[t] \in {"reserve", "reserving"}, Goto(t, "cold"),
           UNCHANGED <<sessionVars, mlock, cur, hold, inHand, expired, appVars>>,
           Moves(t, "none"), KnownKept
    PROVE  SInv'
<1> USE DEF SInv
<1>1. t \in Managers /\ t \in Clients /\ phase = "serving" /\ phase' = "serving"
    BY WhoIsWho, Busy DEF Goto, sessionVars, appVars
<1>2. Moves(t, MethodAt(mpc'[t])) /\ KnownKept
    BY <1>1 DEF MethodAt, TypeOK, Goto
<1>3. P!Sound' /\ Calls' /\ App' /\ Ending'
    BY <1>1, <1>2, ManagerStep DEF TypeOK, Goto, sessionVars, appVars
<1>4. Counted'
    BY DEF Counted, LiveSessions, Goto, sessionVars, appVars
<1>5. TypeOK'
    BY <1>1, WhoIsWho DEF TypeOK, Tasks, Hands, Goto, sessionVars, appVars
<1>6. Tasks'
    BY <1>1, WhoIsWho, SessionManagerAssumption DEF TypeOK, Tasks, Creating, Doing,
        Goto, sessionVars, appVars
<1>7. Hands'
    BY <1>1, WhoIsWho, SessionManagerAssumption DEF TypeOK, Hands, Creating, Tasks,
        Goto, sessionVars, appVars
<1>8. Stored'
    BY <1>1, WhoIsWho DEF TypeOK, Stored, Works, Tasks, Doing, Goto, sessionVars,
        appVars
<1>9. Doing'
    BY <1>1, WhoIsWho DEF TypeOK, Doing, Creating, Tasks, Goto, sessionVars, appVars
<1>10. Pipelines'
    BY <1>1, WhoIsWho DEF TypeOK, Pipelines, Works, Creating, Tasks, Doing, Goto,
        sessionVars, appVars
<1>11. \A b \in live' \ lost' : Cold(b) => Cold(b)'
    BY <1>1 DEF Cold, Goto, sessionVars, appVars
<1>12. Owned'
    BY <1>2, <1>11, OwnedStep
<1>. QED
    BY <1>3, <1>4, <1>5, <1>6, <1>7, <1>8, <1>9, <1>10, <1>12

\* No slot could be had: the one or the other.
LEMMA NoWarmSlotPreserves ==
    ASSUME SInv, NEW t \in Requests, mpc[t] \in {"reserve", "reserving"}, NoWarmSlot(t),
           UNCHANGED appVars, Moves(t, "none"), KnownKept
    PROVE  SInv'
<1>1. \A b \in live' \ lost' : inHand[t] = b => hold[t] # NoSlot
    BY SessionManagerAssumption, WhoIsWho DEF SInv, Hands, Moves, P!Sound, P!TypeOK
<1>2. CASE Abandon(t)
    BY <1>1, <1>2, AbandonPreserves DEF Creating
<1>3. CASE ~Abandon(t)
    BY <1>3, FallBackPreserves DEF NoWarmSlot
<1>. QED
    BY <1>2, <1>3

\* An idle slot is asked for.
LEMMA ReservesPreserves ==
    ASSUME SInv, NEW t \in Requests, NEW w \in Slots, mpc[t] = "reserve",
           Pool!CallReserve(t, w), Goto(t, "reserving"), hold' = [hold EXCEPT ![t] = w],
           UNCHANGED <<sessionVars, mlock, cur, inHand, expired, appVars>>
    PROVE  SInv'
<1> USE DEF SInv
<1>1. t \in Managers /\ t \in Clients /\ phase = "serving" /\ phase' = "serving"
    BY WhoIsWho, Busy DEF Goto, sessionVars, appVars
<1>2. Moves(t, MethodAt(mpc'[t])) /\ KnownKept
    BY <1>1, PoolCalled, WhoIsWho DEF App, MethodAt, TypeOK, Goto, Pool!SlotOps, Pool!Switches
<1>3. P!Sound' /\ Calls' /\ App' /\ Ending'
    BY <1>1, <1>2, ManagerStep DEF TypeOK, Goto, sessionVars, appVars
<1>4. Counted'
    BY DEF Counted, LiveSessions, Goto, sessionVars, appVars
<1>5. TypeOK'
    BY <1>1, WhoIsWho DEF TypeOK, Tasks, Hands, Goto, sessionVars, appVars
<1>6. Tasks'
    BY <1>1, WhoIsWho, SessionManagerAssumption DEF TypeOK, Tasks, Creating, Doing,
        Goto, sessionVars, appVars
<1>7. Hands'
    BY <1>1, WhoIsWho, SessionManagerAssumption DEF TypeOK, Hands, Creating, Tasks,
        Goto, sessionVars, appVars
<1>8. Stored'
    BY <1>1, WhoIsWho DEF TypeOK, Stored, Works, Tasks, Doing, Goto, sessionVars,
        appVars
<1>9. Doing'
    BY <1>1, WhoIsWho DEF TypeOK, Doing, Creating, Tasks, Goto, sessionVars, appVars
<1>10. Pipelines'
    BY <1>1, WhoIsWho DEF TypeOK, Pipelines, Works, Creating, Tasks, Doing, Goto,
        sessionVars, appVars
<1>11. NoBrowser \notin live'
    BY <1>2, SessionManagerAssumption DEF Moves, P!Sound, P!TypeOK
<1>12. \A b \in live' \ lost' : Cold(b) => Cold(b)'
    BY <1>1, <1>11 DEF Cold, Hands, TypeOK, Goto, sessionVars
<1>13. Owned'
    BY <1>2, <1>12, OwnedStep
<1>. QED
    BY <1>3, <1>4, <1>5, <1>6, <1>7, <1>8, <1>9, <1>10, <1>13

\* Asking for a slot, or being refused before the slot's lock.
LEMMA CreateReservePreserves ==
    ASSUME SInv, NEW t \in Requests, CreateReserve(t)
    PROVE  SInv'
<1>1. op[t] = "none" /\ t \in Clients
    BY WhoIsWho DEF SInv, Calls, MethodAt, CreateReserve
<1>2. ASSUME UNCHANGED poolVars PROVE Moves(t, "none") /\ KnownKept
    BY <1>1, <1>2, PoolStill DEF SInv, poolVars
<1>. QED
    BY <1>2, ReservesPreserves, NoWarmSlotPreserves DEF CreateReserve

\* The reservation is given with the slot's browser.
LEMMA ReservedPreserves ==
    ASSUME SInv, NEW t \in Requests, mpc[t] = "reserving", Moves(t, "none"), KnownKept,
           inHand' = [inHand EXCEPT ![t] = handle[hold[t]]], Goto(t, "build"),
           UNCHANGED <<sessionVars, mlock, cur, hold, expired, appVars>>
    PROVE  SInv'
<1> USE DEF SInv
<1>1. t \in Managers /\ t \in Clients /\ phase = "serving" /\ phase' = "serving"
    BY WhoIsWho, Busy DEF Goto, sessionVars, appVars
<1>2. Moves(t, MethodAt(mpc'[t])) /\ KnownKept
    BY <1>1 DEF MethodAt, TypeOK, Goto
<1>3. P!Sound' /\ Calls' /\ App' /\ Ending'
    BY <1>1, <1>2, ManagerStep DEF TypeOK, Goto, sessionVars, appVars
<1>4. Counted'
    BY DEF Counted, LiveSessions, Goto, sessionVars, appVars
<1>5. TypeOK'
    BY <1>1, WhoIsWho DEF TypeOK, Tasks, Hands, P!Sound, P!TypeOK, Goto, sessionVars,
        appVars
<1>6. Tasks'
    BY <1>1, WhoIsWho, SessionManagerAssumption DEF TypeOK, Tasks, Creating, Doing,
        Goto, sessionVars, appVars
<1>7. Hands'
    BY <1>1, WhoIsWho, SessionManagerAssumption DEF TypeOK, Hands, Creating, Tasks,
        Goto, sessionVars, appVars
<1>8. Stored'
    BY <1>1, WhoIsWho DEF TypeOK, Stored, Works, Tasks, Doing, Goto, sessionVars,
        appVars
<1>9. Doing'
    BY <1>1, WhoIsWho DEF TypeOK, Doing, Creating, Tasks, Goto, sessionVars, appVars
<1>10. Pipelines'
    BY <1>1, WhoIsWho DEF TypeOK, Pipelines, Works, Creating, Tasks, Doing, Goto,
        sessionVars, appVars
<1>11. NoBrowser \notin live'
    BY <1>2, SessionManagerAssumption DEF Moves, P!Sound, P!TypeOK
<1>12. \A b \in live' \ lost' : Cold(b) => Cold(b)'
    BY <1>1, <1>11 DEF Cold, Hands, TypeOK, sessionVars
<1>13. Owned'
    BY <1>2, <1>12, OwnedStep
<1>. QED
    BY <1>3, <1>4, <1>5, <1>6, <1>7, <1>8, <1>9, <1>10, <1>13

\* The answer to the reservation.
LEMMA CreateReservedPreserves ==
    ASSUME SInv, NEW t \in Requests, CreateReserved(t)
    PROVE  SInv'
<1>1. op[t] # "start" /\ t \in Clients
    BY WhoIsWho DEF SInv, Calls, MethodAt, CreateReserved
<1>2. Moves(t, "none") /\ KnownKept
    BY <1>1, PoolReturned DEF SInv, CreateReserved
<1>. QED
    BY <1>2, ReservedPreserves, NoWarmSlotPreserves DEF CreateReserved

\* A browser is launched for the session alone.
LEMMA LaunchPreserves ==
    ASSUME SInv, NEW t \in Requests, NEW n \in Pool!Fresh, mpc[t] = "cold",
           live' = live \cup {n}, inHand' = [inHand EXCEPT ![t] = n],
           hold' = [hold EXCEPT ![t] = NoSlot], Goto(t, "build"),
           UNCHANGED <<sessionVars, mlock, cur, expired, appVars>>,
           UNCHANGED <<state, handle, lock, draining, op, pc, target, launched, attempt,
                       todo, used, stranded, drained, reenabled, lost>>
    PROVE  SInv'
<1> USE DEF SInv
<1>1. t \in Managers /\ t \in Clients /\ phase = "serving" /\ phase' = "serving"
    BY WhoIsWho, Busy DEF Goto, sessionVars, appVars
<1>2. Moves(t, MethodAt(mpc'[t]))
  <2>1. P!Sound'
      BY PoolAssumed, P!OutsideSound DEF P!Sound, P!TypeOK, P!callVars, P!historyVars, Pool!Fresh
  <2>. QED
      BY <1>1, <2>1 DEF Moves, Calls, MethodAt, TypeOK, Goto
<1>3. P!Sound' /\ Calls' /\ App' /\ Ending'
    BY <1>1, <1>2, ManagerStep DEF TypeOK, Goto, sessionVars, appVars
<1>4. Counted'
    BY DEF Counted, LiveSessions, Goto, sessionVars, appVars
<1>5. TypeOK'
    BY <1>1, WhoIsWho DEF TypeOK, Tasks, Hands, Pool!Fresh, Goto, sessionVars, appVars
<1>6. Tasks'
    BY <1>1, WhoIsWho, SessionManagerAssumption DEF TypeOK, Tasks, Creating, Doing,
        Goto, sessionVars, appVars
<1>7. Hands'
    BY <1>1, WhoIsWho, SessionManagerAssumption DEF TypeOK, Hands, Creating, Tasks,
        Goto, sessionVars, appVars
<1>8. Stored'
    BY <1>1, WhoIsWho DEF TypeOK, Stored, Works, Tasks, Doing, Goto, sessionVars,
        appVars
<1>9. Doing'
    BY <1>1, WhoIsWho DEF TypeOK, Doing, Creating, Tasks, Goto, sessionVars, appVars
<1>10. Pipelines'
    BY <1>1, WhoIsWho DEF TypeOK, Pipelines, Works, Creating, Tasks, Doing, Goto,
        sessionVars, appVars
<1>11. Owned'
  <2>1. inHand[t] = NoBrowser /\ n \in Browsers /\ NoBrowser \notin live
      BY <1>1, SessionManagerAssumption DEF Hands, P!Sound, P!TypeOK, Pool!Fresh
  <2>2. \A b \in live : Cold(b) => Cold(b)'
      BY <1>1, <2>1 DEF Cold, TypeOK, sessionVars
  <2>3. \A b \in live : P!Known(b) => P!Known(b)'
      BY DEF P!Known
  <2>4. Cold(n)'
      BY <1>1 DEF Cold, TypeOK
  <2>. QED
      BY <1>1, <2>2, <2>3, <2>4 DEF Owned
<1>. QED
    BY <1>3, <1>4, <1>5, <1>6, <1>7, <1>8, <1>9, <1>10, <1>11

\* A cold launch, or its failure.
LEMMA CreateColdPreserves ==
    ASSUME SInv, NEW t \in Requests, CreateCold(t)
    PROVE  SInv'
<1>1. CASE /\ Abandon(t)
           /\ \/ UNCHANGED <<live, lost>>
              \/ \E b \in Pool!Fresh : live' = live \cup {b} /\ lost' = lost \cup {b}
  <2>1. op[t] = "none" /\ t \in Clients
      BY WhoIsWho DEF SInv, Calls, MethodAt, CreateCold
  <2>2. Moves(t, "none") /\ KnownKept
    <3>1. CASE UNCHANGED <<live, lost>>
        BY <2>1, <3>1, PoolStill DEF SInv, CreateCold
    <3>2. ASSUME NEW b \in Pool!Fresh, live' = live \cup {b}, lost' = lost \cup {b}
          PROVE  Moves(t, "none") /\ KnownKept
        BY <2>1, <3>2, PoolStillLoses DEF SInv, CreateCold, Pool!Fresh
    <3>. QED
        BY <1>1, <3>1, <3>2
  <2>3. \A b \in live' \ lost' : inHand[t] = b => hold[t] # NoSlot
      BY <2>2, SessionManagerAssumption, WhoIsWho
      DEF CreateCold, SInv, Hands, Moves, P!Sound, P!TypeOK
  <2>. QED
      BY <1>1, <2>2, <2>3, AbandonPreserves DEF CreateCold, Creating
<1>. QED
    BY <1>1, LaunchPreserves DEF CreateCold

\* The reserved slot is to be marked busy, or its reservation to be cancelled.
LEMMA MarksPreserves ==
    ASSUME SInv, NEW t \in Requests, mpc[t] \in {"build", "cancel"}, hold[t] # NoSlot,
           NEW o \in {"busy", "cancel"}, Pool!Call(t, o, hold[t]),
           Goto(t, IF o = "busy" THEN "marking" ELSE "cancelling"),
           UNCHANGED <<sessionVars, mlock, cur, hold, inHand, expired, appVars>>
    PROVE  SInv'
<1> USE DEF SInv
<1>1. t \in Managers /\ t \in Clients /\ phase = "serving" /\ phase' = "serving"
    BY WhoIsWho, Busy DEF Goto, sessionVars, appVars
<1>2. Moves(t, MethodAt(mpc'[t])) /\ KnownKept
  <2>1. hold[t] \in Slots /\ o \in Pool!SlotOps
      BY <1>1 DEF TypeOK, Pool!SlotOps, Pool!Switches
  <2>. QED
      BY <1>1, <2>1, PoolCalled DEF App, MethodAt, TypeOK, Goto
<1>3. P!Sound' /\ Calls' /\ App' /\ Ending'
    BY <1>1, <1>2, ManagerStep DEF TypeOK, Goto, sessionVars, appVars
<1>4. Counted'
    BY DEF Counted, LiveSessions, Goto, sessionVars, appVars
<1>5. TypeOK'
    BY <1>1, WhoIsWho DEF TypeOK, Tasks, Hands, Goto, sessionVars, appVars
<1>6. Tasks'
    BY <1>1, WhoIsWho, SessionManagerAssumption DEF TypeOK, Tasks, Creating, Doing,
        Goto, sessionVars, appVars
<1>7. Hands'
    BY <1>1, WhoIsWho, SessionManagerAssumption DEF TypeOK, Hands, Creating, Tasks,
        Goto, sessionVars, appVars
<1>8. Stored'
    BY <1>1, WhoIsWho DEF TypeOK, Stored, Works, Tasks, Doing, Goto, sessionVars,
        appVars
<1>9. Doing'
    BY <1>1, WhoIsWho DEF TypeOK, Doing, Creating, Tasks, Goto, sessionVars, appVars
<1>10. Pipelines'
    BY <1>1, WhoIsWho DEF TypeOK, Pipelines, Works, Creating, Tasks, Doing, Goto,
        sessionVars, appVars
<1>11. \A b \in live' \ lost' : Cold(b) => Cold(b)'
    BY <1>1 DEF Cold, sessionVars
<1>12. Owned'
    BY <1>2, <1>11, OwnedStep
<1>. QED
    BY <1>3, <1>4, <1>5, <1>6, <1>7, <1>8, <1>9, <1>10, <1>12

\* The Session object is built, or it cannot be.
LEMMA CreateBuildPreserves ==
    ASSUME SInv, NEW t \in Requests, CreateBuild(t)
    PROVE  SInv'
<1>1. CASE hold[t] # NoSlot
    BY <1>1, MarksPreserves DEF CreateBuild
<1>3. ASSUME hold[t] = NoSlot, live' = live \ {inHand[t]}, Abandon(t),
             UNCHANGED <<state, handle, lock, draining, op, pc, target, launched, attempt,
                         todo, used, stranded, drained, reenabled, lost>>
      PROVE  SInv'
  <2>1. op[t] = "none" /\ t \in Clients
      BY WhoIsWho DEF SInv, Calls, MethodAt, CreateBuild
  <2>2. Moves(t, "none") /\ KnownKept
      BY <1>3, <2>1, PoolStill DEF SInv
  <2>. QED
      BY <1>3, <2>2, AbandonPreserves DEF CreateBuild, Creating
<1>. QED
    BY <1>1, <1>3 DEF CreateBuild

\* The slot cannot be marked busy: it was no longer reserved.
LEMMA CreateNotMarkedPreserves ==
    ASSUME SInv, NEW t \in Requests, CreateNotMarked(t)
    PROVE  SInv'
<1> USE DEF SInv, CreateNotMarked
<1>1. t \in Managers /\ t \in Clients /\ phase = "serving" /\ phase' = "serving"
    BY WhoIsWho, Busy DEF Goto, sessionVars, appVars
<1>2. Moves(t, MethodAt(mpc'[t])) /\ KnownKept
  <2>1. op[t] # "start"
      BY <1>1 DEF Calls, MethodAt
  <2>. QED
      BY <1>1, <2>1, PoolReturned DEF MethodAt, TypeOK, Goto
<1>3. P!Sound' /\ Calls' /\ App' /\ Ending'
    BY <1>1, <1>2, ManagerStep DEF TypeOK, Goto, sessionVars, appVars
<1>4. Counted'
    BY DEF Counted, LiveSessions, Goto, sessionVars, appVars
<1>5. TypeOK'
    BY <1>1, WhoIsWho DEF TypeOK, Tasks, Hands, Goto, sessionVars, appVars
<1>6. Tasks'
    BY <1>1, WhoIsWho, SessionManagerAssumption DEF TypeOK, Tasks, Creating, Doing,
        Goto, sessionVars, appVars
<1>7. Hands'
    BY <1>1, WhoIsWho, SessionManagerAssumption DEF TypeOK, Hands, Creating, Tasks,
        Goto, sessionVars, appVars
<1>8. Stored'
    BY <1>1, WhoIsWho DEF TypeOK, Stored, Works, Tasks, Doing, Goto, sessionVars,
        appVars
<1>9. Doing'
    BY <1>1, WhoIsWho DEF TypeOK, Doing, Creating, Tasks, Goto, sessionVars, appVars
<1>10. Pipelines'
    BY <1>1, WhoIsWho DEF TypeOK, Pipelines, Works, Creating, Tasks, Doing, Goto,
        sessionVars, appVars
<1>11. \A b \in live' \ lost' : Cold(b) => Cold(b)'
    BY <1>1 DEF Cold, sessionVars
<1>12. Owned'
    BY <1>2, <1>11, OwnedStep
<1>. QED
    BY <1>3, <1>4, <1>5, <1>6, <1>7, <1>8, <1>9, <1>10, <1>12

\* A reservation is to be cancelled after the slot could not be marked.
LEMMA CreateCancelPreserves ==
    ASSUME SInv, NEW t \in Requests, CreateCancel(t)
    PROVE  SInv'
<1>1. hold[t] # NoSlot
    BY WhoIsWho DEF SInv, Hands, CreateCancel
<1>. QED
    BY <1>1, MarksPreserves DEF CreateCancel

\* The creation is given up with its reservation.
LEMMA CreateCancelledPreserves ==
    ASSUME SInv, NEW t \in Requests, CreateCancelled(t)
    PROVE  SInv'
<1>1. op[t] # "start" /\ t \in Clients /\ hold[t] # NoSlot
    BY WhoIsWho DEF SInv, Calls, Hands, MethodAt, CreateCancelled
<1>2. Moves(t, "none") /\ KnownKept
    BY <1>1, PoolReturned DEF SInv, CreateCancelled
<1>. QED
    BY <1>1, <1>2, AbandonPreserves DEF CreateCancelled, Creating

\* The session is stored with what its task had in its hands.
LEMMA CreateStorePreserves ==
    ASSUME SInv, NEW t \in Requests, NEW st \in {"LIVE", "DEAD"}, CreateStore(t, st)
    PROVE  SInv'
<1> USE DEF SInv
<1>1. t \in Managers /\ t \in Clients /\ phase = "serving" /\ phase' = "serving"
    BY WhoIsWho, Busy DEF CreateStore, Goto, appVars
<1>2. Moves(t, MethodAt(mpc'[t])) /\ KnownKept
  <2>1. op[t] # "start" /\ (mpc[t] = "build" => op[t] = "none")
      BY <1>1 DEF Calls, MethodAt, CreateStore
  <2>2. Moves(t, "none") /\ KnownKept
      BY <1>1, <2>1, PoolStill, PoolReturned DEF poolVars, CreateStore
  <2>. QED
      BY <1>1, <2>2 DEF MethodAt, TypeOK, CreateStore, Goto
<1>3. P!Sound' /\ Calls' /\ App' /\ Ending'
    BY <1>1, <1>2, ManagerStep DEF TypeOK, Goto, CreateStore, appVars
<1>4. TypeOK'
    BY <1>1, WhoIsWho DEF TypeOK, Tasks, Hands, CreateStore, Goto, appVars
<1>5. Tasks'
    BY <1>1, WhoIsWho, SessionManagerAssumption DEF TypeOK, Tasks, Creating, Doing,
        CreateStore, Goto, appVars
<1>6. Hands'
    BY <1>1, WhoIsWho, SessionManagerAssumption DEF TypeOK, Hands, Creating, Tasks,
        CreateStore, Goto, appVars
<1>7. Stored'
    BY <1>1, WhoIsWho DEF TypeOK, Stored, Works, Tasks, Doing, CreateStore, Goto,
        appVars
<1>8. Doing'
    BY <1>1, WhoIsWho DEF TypeOK, Doing, Creating, Tasks, CreateStore, Goto, appVars
<1>9. Pipelines'
  <2>1. cur[t] \in Sessions /\ \A u \in Managers \ {t} : mpc[u] \notin Creating
      BY <1>1, WhoIsWho DEF Tasks, CreateStore, Creating
  <2>2. \A s \in Sessions : s # cur[t] => ~Works(s, Creating)
      BY <2>1 DEF Works
  <2>. QED
      BY <1>1, <2>1, <2>2 DEF TypeOK, Pipelines, CreateStore, appVars
<1>10. Counted'
  <2>1. cur[t] \in Sessions /\ status[cur[t]] = "none"
      BY <1>1 DEF Tasks, Doing, CreateStore, Creating
  <2>. QED
      BY <2>1, Recounted DEF TypeOK, CreateStore, Counted
<1>11. NoBrowser \notin live'
    BY <1>2, SessionManagerAssumption DEF Moves, P!Sound, P!TypeOK
<1>12. \A b \in live' \ lost' : Cold(b) => Cold(b)'
  <2>1. cur[t] \in Sessions /\ status[cur[t]] = "none"
      BY <1>1 DEF Tasks, Doing, CreateStore, Creating
  <2>. QED
      BY <1>1, <1>11, <2>1 DEF Cold, TypeOK, CreateStore, Stored
<1>13. Owned'
    BY <1>2, <1>12, OwnedStep
<1>. QED
    BY <1>3, <1>4, <1>5, <1>6, <1>7, <1>8, <1>9, <1>10, <1>13

\* The creation is complete.
LEMMA PublishCreatedPreserves ==
    ASSUME SInv, NEW t \in Requests, PublishCreated(t)
    PROVE  SInv'
<1> USE DEF SInv
<1>1. t \in Managers /\ t \in Clients /\ phase = "serving" /\ phase' = "serving"
    BY WhoIsWho, Busy DEF PublishCreated, Leave, appVars
<1>2. Moves(t, MethodAt(mpc'[t])) /\ KnownKept
    BY <1>1, PoolStill DEF Calls, MethodAt, TypeOK, poolVars, PublishCreated, Leave
<1>3. P!Sound' /\ Calls' /\ App' /\ Ending'
    BY <1>1, <1>2, ManagerStep DEF TypeOK, Goto, PublishCreated, Leave, appVars
<1>4. Counted'
    BY DEF Counted, LiveSessions, PublishCreated, Leave, appVars
<1>5. TypeOK'
    BY <1>1, WhoIsWho DEF TypeOK, Tasks, Hands, PublishCreated, Leave, appVars, Goto
<1>6. Tasks'
    BY <1>1, WhoIsWho, SessionManagerAssumption DEF TypeOK, Tasks, Creating, Doing,
        PublishCreated, Leave, appVars, Goto
<1>7. Hands'
    BY <1>1, WhoIsWho, SessionManagerAssumption DEF TypeOK, Hands, Creating, Tasks,
        PublishCreated, Leave, appVars, Goto
<1>8. Stored'
    BY <1>1, WhoIsWho DEF TypeOK, Stored, Works, Tasks, Doing, PublishCreated, Leave,
        appVars, Goto
<1>9. Doing'
    BY <1>1, WhoIsWho DEF TypeOK, Doing, Creating, Tasks, PublishCreated, Leave,
        appVars, Goto
<1>10. Pipelines'
    BY <1>1, WhoIsWho DEF TypeOK, Pipelines, Works, Creating, Tasks, Doing,
        PublishCreated, Leave, appVars, Goto
<1>11. NoBrowser \notin live'
    BY <1>2, SessionManagerAssumption DEF Moves, P!Sound, P!TypeOK
<1>12. \A b \in live' \ lost' : Cold(b) => Cold(b)'
    BY <1>1, <1>11 DEF Cold, TypeOK, Hands, PublishCreated, Leave
<1>13. Owned'
    BY <1>2, <1>12, OwnedStep
<1>. QED
    BY <1>3, <1>4, <1>5, <1>6, <1>7, <1>8, <1>9, <1>10, <1>13

\* The session is taken back, its slot is to be released.
LEMMA UndoingPreserves ==
    ASSUME SInv, NEW t \in Requests, mpc[t] = "created", Forgotten(t), warmOf[cur[t]] # NoSlot,
           Pool!Call(t, "release", warmOf[cur[t]]), Goto(t, "undoing"),
           UNCHANGED <<mlock, cur, hold, inHand, idle, expired, appVars>>
    PROVE  SInv'
<1> USE DEF SInv
<1>1. t \in Managers /\ t \in Clients /\ phase = "serving" /\ phase' = "serving"
    BY WhoIsWho, Busy DEF Forgotten, Goto, appVars
<1>2. Moves(t, MethodAt(mpc'[t])) /\ KnownKept
  <2>1. cur[t] \in Sessions
      BY <1>1 DEF Tasks
  <2>2. warmOf[cur[t]] \in Slots /\ "release" \in Pool!SlotOps
      BY <2>1 DEF TypeOK, Pool!SlotOps, Pool!Recycles
  <2>. QED
      BY <1>1, <2>2, PoolCalled DEF App, MethodAt, TypeOK, Goto
<1>3. P!Sound' /\ Calls' /\ App' /\ Ending'
    BY <1>1, <1>2, ManagerStep DEF TypeOK, Goto, Forgotten, appVars
<1>4. TypeOK'
    BY <1>1, WhoIsWho DEF TypeOK, Tasks, Hands, Forgotten, Goto, appVars
<1>5. Tasks'
    BY <1>1, WhoIsWho, SessionManagerAssumption DEF TypeOK, Tasks, Creating, Doing,
        Forgotten, Goto, appVars
<1>6. Hands'
    BY <1>1, WhoIsWho, SessionManagerAssumption DEF TypeOK, Hands, Creating, Tasks,
        Forgotten, Goto, appVars
<1>7. Stored'
    BY <1>1, WhoIsWho DEF TypeOK, Stored, Works, Tasks, Doing, Forgotten, Goto, appVars
<1>8. Doing'
    BY <1>1, WhoIsWho DEF TypeOK, Doing, Creating, Tasks, Forgotten, Goto, appVars
<1>9. Pipelines'
    BY <1>1, WhoIsWho DEF TypeOK, Pipelines, Works, Creating, Tasks, Doing, Forgotten,
        Goto, appVars
<1>10. Counted'
  <2>1. cur[t] \in Sessions
      BY <1>1 DEF Tasks
  <2>2. status' = [status EXCEPT ![cur[t]] = "none"]
      BY DEF Forgotten
  <2>3. /\ IsFiniteSet(LiveSessions')
        /\ status[cur[t]] = "LIVE" => active > 0
        /\ Cardinality(LiveSessions') =
              IF status[cur[t]] = "LIVE" THEN active - 1 ELSE active
      BY <2>1, <2>2, Recounted DEF TypeOK
  <2>. QED
      BY <2>3 DEF Counted, Forgotten
<1>11. NoBrowser \notin live'
    BY <1>2, SessionManagerAssumption DEF Moves, P!Sound, P!TypeOK
<1>12. \A b \in live' \ lost' : Cold(b) => Cold(b)'
  <2>1. cur[t] \in Sessions
      BY <1>1 DEF Tasks
  <2>. QED
      BY <1>1, <1>11, <2>1 DEF Cold, TypeOK, Forgotten
<1>13. Owned'
    BY <1>2, <1>12, OwnedStep
<1>. QED
    BY <1>3, <1>4, <1>5, <1>6, <1>7, <1>8, <1>9, <1>10, <1>13

\* The session is taken back and its browser killed.
LEMMA UndonePreserves ==
    ASSUME SInv, NEW t \in Requests, mpc[t] = "created", Forgotten(t), warmOf[cur[t]] = NoSlot,
           live' = live \ {browserOf[cur[t]]}, Leave(t),
           UNCHANGED <<idle, expired, appVars>>,
           UNCHANGED <<state, handle, lock, draining, op, pc, target, launched, attempt,
                       todo, used, stranded, drained, reenabled, lost>>
    PROVE  SInv'
<1> USE DEF SInv
<1>1. t \in Managers /\ t \in Clients /\ phase = "serving" /\ phase' = "serving"
    BY WhoIsWho, Busy DEF Forgotten, Leave, appVars
<1>2. Moves(t, MethodAt(mpc'[t])) /\ KnownKept
    BY <1>1, PoolStill DEF Calls, MethodAt, TypeOK, poolVars, Leave
<1>3. P!Sound' /\ Calls' /\ App' /\ Ending'
    BY <1>1, <1>2, ManagerStep DEF TypeOK, Goto, Forgotten, Leave, appVars
<1>4. TypeOK'
    BY <1>1, WhoIsWho DEF TypeOK, Tasks, Hands, Forgotten, Leave, appVars, Goto
<1>5. Tasks'
    BY <1>1, WhoIsWho, SessionManagerAssumption DEF TypeOK, Tasks, Creating, Doing,
        Forgotten, Leave, appVars, Goto
<1>6. Hands'
    BY <1>1, WhoIsWho, SessionManagerAssumption DEF TypeOK, Hands, Creating, Tasks,
        Forgotten, Leave, appVars, Goto
<1>7. Stored'
    BY <1>1, WhoIsWho DEF TypeOK, Stored, Works, Tasks, Doing, Forgotten, Leave,
        appVars, Goto
<1>8. Doing'
    BY <1>1, WhoIsWho DEF TypeOK, Doing, Creating, Tasks, Forgotten, Leave, appVars,
        Goto
<1>9. Pipelines'
    BY <1>1, WhoIsWho DEF TypeOK, Pipelines, Works, Creating, Tasks, Doing, Forgotten,
        Leave, appVars, Goto
<1>10. Counted'
  <2>1. cur[t] \in Sessions
      BY <1>1 DEF Tasks
  <2>2. status' = [status EXCEPT ![cur[t]] = "none"]
      BY DEF Forgotten
  <2>3. /\ IsFiniteSet(LiveSessions')
        /\ status[cur[t]] = "LIVE" => active > 0
        /\ Cardinality(LiveSessions') =
              IF status[cur[t]] = "LIVE" THEN active - 1 ELSE active
      BY <2>1, <2>2, Recounted DEF TypeOK
  <2>. QED
      BY <2>3 DEF Counted, Forgotten
<1>11. NoBrowser \notin live'
    BY <1>2, SessionManagerAssumption DEF Moves, P!Sound, P!TypeOK
<1>12. \A b \in live' \ lost' : Cold(b) => Cold(b)'
  <2>1. cur[t] \in Sessions /\ inHand[t] = NoBrowser
      BY <1>1 DEF Tasks, Hands
  <2>. QED
      BY <1>1, <1>11, <2>1 DEF Cold, TypeOK, Forgotten, Leave
<1>13. Owned'
    BY <1>2, <1>12, OwnedStep
<1>. QED
    BY <1>3, <1>4, <1>5, <1>6, <1>7, <1>8, <1>9, <1>10, <1>13

\* The publication failed: the session is taken back.
LEMMA PublishCreatedFailsPreserves ==
    ASSUME SInv, NEW t \in Requests, PublishCreatedFails(t)
    PROVE  SInv'
<1>1. Forgotten(t)
    BY DEF PublishCreatedFails, Forgotten
<1>. QED
    BY <1>1, UndoingPreserves, UndonePreserves DEF PublishCreatedFails

\* A task leaves when all is done.
LEMMA LeavesPreserves ==
    ASSUME SInv, NEW t \in Managers, mpc[t] \in {"undoing", "publish", "releasing"}, Leave(t),
           UNCHANGED <<sessionVars, expired, appVars>>, Moves(t, "none"), KnownKept
    PROVE  SInv'
<1> USE DEF SInv
<1>1. t \in Managers /\ t \in Clients /\ phase = "serving" /\ phase' = "serving"
    BY WhoIsWho, Busy DEF Leave, sessionVars, appVars
<1>2. Moves(t, MethodAt(mpc'[t])) /\ KnownKept
    BY <1>1 DEF MethodAt, TypeOK, Leave
<1>3. P!Sound' /\ Calls' /\ App' /\ Ending'
    BY <1>1, <1>2, ManagerStep DEF TypeOK, Goto, Leave, sessionVars, appVars
<1>4. Counted'
    BY DEF Counted, LiveSessions, Leave, sessionVars, appVars
<1>5. TypeOK'
    BY <1>1, WhoIsWho DEF TypeOK, Tasks, Hands, Leave, sessionVars, appVars, Goto
<1>6. Tasks'
    BY <1>1, WhoIsWho, SessionManagerAssumption DEF TypeOK, Tasks, Creating, Doing,
        Leave, sessionVars, appVars, Goto
<1>7. Hands'
    BY <1>1, WhoIsWho, SessionManagerAssumption DEF TypeOK, Hands, Creating, Tasks,
        Leave, sessionVars, appVars, Goto
<1>8. Stored'
    BY <1>1, WhoIsWho DEF TypeOK, Stored, Works, Tasks, Doing, Leave, sessionVars,
        appVars, Goto
<1>9. Doing'
    BY <1>1, WhoIsWho DEF TypeOK, Doing, Creating, Tasks, Leave, sessionVars, appVars,
        Goto
<1>10. Pipelines'
    BY <1>1, WhoIsWho DEF TypeOK, Pipelines, Works, Creating, Tasks, Doing, Leave,
        sessionVars, appVars, Goto
<1>11. NoBrowser \notin live'
    BY <1>2, SessionManagerAssumption DEF Moves, P!Sound, P!TypeOK
<1>12. \A b \in live' \ lost' : Cold(b) => Cold(b)'
    BY <1>1, <1>11 DEF Cold, TypeOK, Hands, Leave, sessionVars
<1>13. Owned'
    BY <1>2, <1>12, OwnedStep
<1>. QED
    BY <1>3, <1>4, <1>5, <1>6, <1>7, <1>8, <1>9, <1>10, <1>13

\* The release of a session that was taken back is over.
LEMMA CreateUndonePreserves ==
    ASSUME SInv, NEW t \in Requests, CreateUndone(t)
    PROVE  SInv'
<1>1. Moves(t, "none") /\ KnownKept /\ t \in Managers
    BY PoolStepped, WhoIsWho DEF SInv, CreateUndone
<1>. QED
    BY <1>1, LeavesPreserves DEF CreateUndone

-----------------------------------------------------------------------------
(* update_session *)

\* A task leaves with an exception.
LEMMA RaisesPreserves ==
    ASSUME SInv, NEW t \in Managers, mpc[t] \in {"publish", "releasing"}, Raise(t),
           UNCHANGED <<sessionVars, mode, phase, opHeld, intruded, botched, cut>>,
           Moves(t, "none"), KnownKept
    PROVE  SInv'
<1> USE DEF SInv
<1>1. t \in Managers /\ t \in Clients /\ phase = "serving" /\ phase' = "serving"
    BY WhoIsWho, Busy DEF Raise, Leave, sessionVars
<1>2. Moves(t, MethodAt(mpc'[t])) /\ KnownKept
    BY <1>1, WhoIsWho DEF MethodAt, TypeOK, Raise, Leave
<1>3. P!Sound' /\ Calls' /\ App' /\ Ending'
    BY <1>1, <1>2, ManagerStep DEF TypeOK, Goto, Raise, Leave, sessionVars
<1>4. Counted'
    BY DEF Counted, LiveSessions, Raise, Leave, sessionVars
<1>5. TypeOK'
    BY <1>1, WhoIsWho DEF TypeOK, Tasks, Hands, Raise, Leave, sessionVars, Goto
<1>6. Tasks'
    BY <1>1, WhoIsWho, SessionManagerAssumption DEF TypeOK, Tasks, Creating, Doing,
        Raise, Leave, sessionVars, Goto
<1>7. Hands'
    BY <1>1, WhoIsWho, SessionManagerAssumption DEF TypeOK, Hands, Creating, Tasks,
        Raise, Leave, sessionVars, Goto
<1>8. Stored'
    BY <1>1, WhoIsWho DEF TypeOK, Stored, Works, Tasks, Doing, Raise, Leave,
        sessionVars, Goto
<1>9. Doing'
    BY <1>1, WhoIsWho DEF TypeOK, Doing, Creating, Tasks, Raise, Leave, sessionVars,
        Goto
<1>10. Pipelines'
    BY <1>1, WhoIsWho DEF TypeOK, Pipelines, Works, Creating, Tasks, Doing, Raise,
        Leave, sessionVars, Goto
<1>11. NoBrowser \notin live'
    BY <1>2, SessionManagerAssumption DEF Moves, P!Sound, P!TypeOK
<1>12. \A b \in live' \ lost' : Cold(b) => Cold(b)'
    BY <1>1, <1>11 DEF Cold, TypeOK, Hands, Raise, Leave, sessionVars
<1>13. Owned'
    BY <1>2, <1>12, OwnedStep
<1>. QED
    BY <1>3, <1>4, <1>5, <1>6, <1>7, <1>8, <1>9, <1>10, <1>13

\* The slot is forgotten and its release called for.
LEMMA UpdateReleasePreserves ==
    ASSUME SInv, NEW t \in Managers, UpdateRelease(t)
    PROVE  SInv'
<1> USE DEF SInv
<1>1. t \in Managers /\ t \in Clients /\ phase = "serving" /\ phase' = "serving"
    BY WhoIsWho, Busy DEF UpdateRelease, Goto, appVars
<1>2. Moves(t, MethodAt(mpc'[t])) /\ KnownKept
  <2>1. cur[t] \in Sessions
      BY <1>1 DEF Tasks, UpdateRelease
  <2>2. warmOf[cur[t]] \in Slots /\ "release" \in Pool!SlotOps
      BY <1>1, <2>1 DEF TypeOK, Pool!SlotOps, Pool!Recycles, Doing, UpdateRelease
  <2>. QED
      BY <1>1, <2>2, PoolCalled DEF App, MethodAt, TypeOK, Goto, UpdateRelease
<1>3. P!Sound' /\ Calls' /\ App' /\ Ending'
    BY <1>1, <1>2, ManagerStep DEF TypeOK, Goto, UpdateRelease, appVars
<1>4. Counted'
    BY DEF Counted, LiveSessions, UpdateRelease, Goto, appVars
<1>5. TypeOK'
    BY <1>1, WhoIsWho DEF TypeOK, Tasks, Hands, UpdateRelease, Goto, appVars
<1>6. Tasks'
    BY <1>1, WhoIsWho, SessionManagerAssumption DEF TypeOK, Tasks, Creating, Doing,
        UpdateRelease, Goto, appVars
<1>7. Hands'
    BY <1>1, WhoIsWho, SessionManagerAssumption DEF TypeOK, Hands, Creating, Tasks,
        UpdateRelease, Goto, appVars
<1>8. Stored'
    BY <1>1, WhoIsWho DEF TypeOK, Stored, Works, Tasks, Doing, UpdateRelease, Goto,
        appVars
<1>9. Doing'
    BY <1>1, WhoIsWho DEF TypeOK, Doing, Creating, Tasks, UpdateRelease, Goto, appVars
<1>10. Pipelines'
    BY <1>1, WhoIsWho DEF TypeOK, Pipelines, Works, Creating, Tasks, Doing,
        UpdateRelease, Goto, appVars
<1>11. \A b \in live' \ lost' : Cold(b) => Cold(b)'
    BY <1>1 DEF Cold, TypeOK, Tasks, UpdateRelease
<1>12. Owned'
    BY <1>2, <1>11, OwnedStep
<1>. QED
    BY <1>3, <1>4, <1>5, <1>6, <1>7, <1>8, <1>9, <1>10, <1>12

\* The slot is recycled.
LEMMA ReleasedPreserves ==
    ASSUME SInv, NEW t \in Managers, mpc[t] = "releasing", Goto(t, "publish"),
           UNCHANGED <<mlock, cur, hold, inHand, expired, sessionVars, appVars>>,
           Moves(t, "none"), KnownKept
    PROVE  SInv'
<1> USE DEF SInv
<1>1. t \in Managers /\ t \in Clients /\ phase = "serving" /\ phase' = "serving"
    BY WhoIsWho, Busy DEF Goto, sessionVars, appVars
<1>2. Moves(t, MethodAt(mpc'[t])) /\ KnownKept
    BY <1>1 DEF MethodAt, TypeOK, Goto
<1>3. P!Sound' /\ Calls' /\ App' /\ Ending'
    BY <1>1, <1>2, ManagerStep DEF TypeOK, Goto, sessionVars, appVars
<1>4. Counted'
    BY DEF Counted, LiveSessions, Goto, sessionVars, appVars
<1>5. TypeOK'
    BY <1>1, WhoIsWho DEF TypeOK, Tasks, Hands, Goto, sessionVars, appVars
<1>6. Tasks'
    BY <1>1, WhoIsWho, SessionManagerAssumption DEF TypeOK, Tasks, Creating, Doing,
        Goto, sessionVars, appVars
<1>7. Hands'
    BY <1>1, WhoIsWho, SessionManagerAssumption DEF TypeOK, Hands, Creating, Tasks,
        Goto, sessionVars, appVars
<1>8. Stored'
    BY <1>1, WhoIsWho DEF TypeOK, Stored, Works, Tasks, Doing, Goto, sessionVars,
        appVars
<1>9. Doing'
    BY <1>1, WhoIsWho DEF TypeOK, Doing, Creating, Tasks, Goto, sessionVars, appVars
<1>10. Pipelines'
    BY <1>1, WhoIsWho DEF TypeOK, Pipelines, Works, Creating, Tasks, Doing, Goto,
        sessionVars, appVars
<1>11. \A b \in live' \ lost' : Cold(b) => Cold(b)'
    BY <1>1 DEF Cold, sessionVars
<1>12. Owned'
    BY <1>2, <1>11, OwnedStep
<1>. QED
    BY <1>3, <1>4, <1>5, <1>6, <1>7, <1>8, <1>9, <1>10, <1>12

\* What follows a stored change: the release of the slot and the publication.
LEMMA FinishUpdatePreserves ==
    ASSUME SInv, NEW t \in Managers, FinishUpdate(t)
    PROVE  SInv'
<1>1. CASE UpdateRelease(t)
    BY <1>1, UpdateReleasePreserves
<1>2. CASE UpdateReleased(t)
  <2>1. op[t] # "start" /\ t \in Clients
      BY <1>2, WhoIsWho DEF SInv, Calls, MethodAt, UpdateReleased
  <2>2. Moves(t, "none") /\ KnownKept
      BY <1>2, <2>1, PoolReturned DEF SInv, UpdateReleased
  <2>. QED
      BY <1>2, <2>2, ReleasedPreserves, RaisesPreserves DEF UpdateReleased, appVars
<1>3. CASE PublishUpdate(t) \/ PublishUpdateFails(t)
  <2>1. op[t] = "none" /\ t \in Clients
      BY <1>3, WhoIsWho DEF SInv, Calls, MethodAt, PublishUpdate, PublishUpdateFails
  <2>2. Moves(t, "none") /\ KnownKept
      BY <1>3, <2>1, PoolStill DEF SInv, PublishUpdate, PublishUpdateFails, poolVars
  <2>. QED
      BY <1>3, <2>2, LeavesPreserves, RaisesPreserves
      DEF PublishUpdate, PublishUpdateFails, sessionVars
<1>. QED
    BY <1>1, <1>2, <1>3 DEF FinishUpdate

\* What a change of a session's snapshot does to the fields it sets and to the count.
LEMMA StoresCounted ==
    ASSUME SInv, NEW s \in Sessions, NEW p \in Payloads, Stores(s, p)
    PROVE  /\ NextStatus(s, p) \in {"LIVE", "DEAD"}
           /\ p.status = "DEAD" => NextStatus(s, p) = "DEAD"
           /\ status' \in [Sessions -> {"none", "LIVE", "DEAD"}]
           /\ endpoint' \in [Sessions -> BOOLEAN]
           /\ browserOf' \in [Sessions -> Browsers \cup {NoBrowser}]
           /\ active' \in Nat
           /\ idle' \in [Sessions -> BOOLEAN]
           /\ Counted'
<1> USE DEF SInv
<1>1. /\ NextStatus(s, p) \in {"LIVE", "DEAD"}
      /\ p.status = "DEAD" => NextStatus(s, p) = "DEAD"
      /\ p.endpoint \in {"keep", "clear", "replace"}
    BY DEF NextStatus, Payloads, Stores, TypeOK
<1>2. /\ status' \in [Sessions -> {"none", "LIVE", "DEAD"}]
      /\ browserOf' \in [Sessions -> Browsers \cup {NoBrowser}]
      /\ idle' \in [Sessions -> BOOLEAN]
    BY <1>1 DEF TypeOK, Stores
<1>3. endpoint' \in [Sessions -> BOOLEAN]
    BY <1>1 DEF TypeOK, Stores
<1>4. active' \in Nat
    BY DEF TypeOK, Stores, Recount
<1>5. Counted'
  <2>1. status' = [status EXCEPT ![s] = NextStatus(s, p)]
      BY DEF Stores
  <2>2. /\ IsFiniteSet(LiveSessions')
        /\ status[s] = "LIVE" => active > 0
        /\ Cardinality(LiveSessions') =
              IF status[s] = "LIVE" /\ NextStatus(s, p) # "LIVE" THEN active - 1
              ELSE IF status[s] # "LIVE" /\ NextStatus(s, p) = "LIVE" THEN active + 1
              ELSE active
      BY <1>1, <2>1, Recounted DEF TypeOK
  <2>3. active' = Recount(status[s], NextStatus(s, p)) /\ status[s] \in {"LIVE", "DEAD"}
      BY DEF Stores, TypeOK
  <2>. QED
      BY <1>1, <2>2, <2>3 DEF Counted, Recount
<1>. QED
    BY <1>1, <1>2, <1>3, <1>4, <1>5

\* A change is stored and cleaned up after: its task goes on at the next place, or an
\* exception has thrown it out.
LEMMA CleansUpPreserves ==
    ASSUME SInv, NEW t \in Managers, NEW s \in Sessions, NEW p \in Payloads,
           mpc[t] \in {"idle", "sweep"}, CleansUp(s, p),
           NEW place \in {"release", "publish", "idle"},
           mpc' = [mpc EXCEPT ![t] = place],
           IF place = "idle" THEN mlock' = NoClient /\ UNCHANGED cur
                             ELSE mlock' = t /\ cur' = [cur EXCEPT ![t] = s],
           place = "release" => ReleasesWarm(s, p),
           ReleasesWarm(s, p) => place = "release" \/ s \in botched',
           botched \subseteq botched', botched' \subseteq Sessions,
           expired' \subseteq Sessions, reaping' \in {"off", "on", "dead"},
           t = Reaper => place = "idle" \/ reaping' = "on",
           t # Reaper => UNCHANGED reaping,
           UNCHANGED <<hold, inHand, mode, phase, opHeld, intruded, cut>>
    PROVE  SInv'
<1> USE DEF SInv
<1>0. Stores(s, p) /\ mlock = NoClient /\ phase = "serving" /\ phase' = "serving"
    BY DEF CleansUp
<1>1. t \in Managers /\ t \in Clients
    BY WhoIsWho
<1>2. /\ NextStatus(s, p) \in {"LIVE", "DEAD"}
      /\ p.status = "DEAD" => NextStatus(s, p) = "DEAD"
      /\ status' \in [Sessions -> {"none", "LIVE", "DEAD"}]
      /\ endpoint' \in [Sessions -> BOOLEAN]
      /\ browserOf' \in [Sessions -> Browsers \cup {NoBrowser}]
      /\ active' \in Nat
      /\ idle' \in [Sessions -> BOOLEAN]
      /\ Counted'
    BY <1>0, StoresCounted
<1>3. Moves(t, MethodAt(mpc'[t])) /\ KnownKept
  <2>1. live' \subseteq live
      BY DEF CleansUp
  <2>. QED
      BY <1>1, <2>1, PoolStill DEF Calls, MethodAt, TypeOK, CleansUp
<1>4. P!Sound' /\ Calls' /\ App' /\ Ending'
    BY <1>0, <1>1, <1>3, ManagerStep DEF TypeOK
<1>5. TypeOK'
  <2>1. vncOf' \in [Sessions -> BOOLEAN] /\ vncLive' \subseteq Sessions
      BY DEF TypeOK, CleansUp
  <2>2. warmOf' = warmOf
      BY DEF CleansUp
  <2>. QED
      BY <1>1, <1>2, <2>1, <2>2 DEF TypeOK
<1>6. (Tasks /\ Hands)'
    BY <1>0, <1>1, WhoIsWho, SessionManagerAssumption DEF TypeOK, Tasks, Hands, Creating
<1>7. \A x \in Sessions, places \in {{"created"}, {"release"}, Creating} : ~Works(x, places)
    BY <1>0, WhoIsWho DEF Works, Tasks, Creating
<1>8. /\ status[s] # "none"
      /\ \A x \in Sessions \ {s} :
            /\ status'[x] = status[x] /\ endpoint'[x] = endpoint[x]
            /\ browserOf'[x] = browserOf[x] /\ vncOf'[x] = vncOf[x]
      /\ warmOf' = warmOf /\ botched \subseteq botched' /\ cut' = cut
      /\ status'[s] = NextStatus(s, p)
      /\ browserOf'[s] = IF DropsBrowser(s, p) THEN NoBrowser ELSE browserOf[s]
      /\ vncOf'[s] = (vncOf[s] /\ ~DropsVnc(s, p))
      /\ \A x \in Sessions : x \in vncLive' <=> x \in vncLive /\ (DropsVnc(s, p) => x # s)
    BY <1>0 DEF TypeOK, Stores, CleansUp
<1>9. Stored'
  <2>1. ASSUME NEW x \in Sessions, x # s
        PROVE  /\ ~endpoint'[x] => browserOf'[x] = NoBrowser
               /\ status'[x] = "none" => ~endpoint'[x] /\ warmOf'[x] = NoSlot /\ ~vncOf'[x]
               /\ status'[x] = "DEAD" =>
                     /\ browserOf'[x] = NoBrowser
                     /\ vncOf'[x] => x \in cut'
                     /\ warmOf'[x] # NoSlot => x \in botched' \cup cut'
      BY <1>7, <1>8, <2>1 DEF Stored
  <2>2. ~endpoint'[s] => browserOf'[s] = NoBrowser
      BY <1>0, <1>8 DEF Stored, Stores, CleansUp, DropsBrowser, NextStatus, TypeOK
  <2>3. status'[s] = "DEAD" =>
           /\ browserOf'[s] = NoBrowser
           /\ vncOf'[s] => s \in cut'
           /\ warmOf'[s] # NoSlot => place = "release" \/ s \in botched' \cup cut'
      BY <1>2, <1>7, <1>8 DEF Stored, DropsBrowser, DropsVnc, ReleasesWarm, TypeOK
  <2>4. place = "release" => Works(s, {"release"})'
      BY <1>1 DEF Works, TypeOK
  <2>. QED
      BY <1>2, <1>8, <2>1, <2>2, <2>3, <2>4 DEF Stored
<1>10. Doing'
  <2>1. \A u \in Managers \ {t} : mpc'[u] \in {"idle", "sweep"}
      BY <1>0, WhoIsWho DEF Tasks, TypeOK
  <2>2. mpc'[t] = place /\ (place = "release" => cur'[t] = s)
      BY DEF TypeOK
  <2>3. place = "release" => status'[s] = "DEAD" /\ warmOf'[s] # NoSlot
      BY <1>8 DEF ReleasesWarm
  <2>. QED
      BY <2>1, <2>2, <2>3 DEF Doing, Creating
<1>11. Pipelines'
    BY <1>7, <1>8 DEF Pipelines
<1>12. \A b \in live' \ lost' : Cold(b) => Cold(b)'
  <2>1. DropsBrowser(s, p) => live' = live \ Killed(s)
      BY DEF CleansUp
  <2>. QED
      BY <1>8, <2>1 DEF Cold, Killed
<1>13. Owned'
    BY <1>3, <1>12, OwnedStep
<1>. QED
    BY <1>2, <1>4, <1>5, <1>6, <1>9, <1>10, <1>11, <1>13

\* A change is stored, and its task goes on.
LEMMA UpdatePreserves ==
    ASSUME SInv, NEW t \in Managers, NEW s \in Sessions, NEW p \in Payloads,
           mpc[t] \in {"idle", "sweep"}, t = Reaper => mpc[t] = "sweep",
           Update(t, s, p), expired' \subseteq Sessions
    PROVE  SInv'
<1>1. CleansUp(s, p) /\ UNCHANGED <<hold, inHand, mode, phase, reaping, opHeld, intruded,
                                    botched, cut>>
    BY DEF Update, appVars
<1>2. t = Reaper => reaping = "on"
    BY DEF SInv, Tasks
<1>3. CASE ReleasesWarm(s, p)
    BY <1>1, <1>2, <1>3, CleansUpPreserves DEF Update, Goto, SInv, TypeOK
<1>4. CASE ~ReleasesWarm(s, p)
    BY <1>1, <1>2, <1>4, CleansUpPreserves DEF Update, Goto, SInv, TypeOK
<1>. QED
    BY <1>3, <1>4

\* A change is stored, and the release of the pipeline raises.
LEMMA UpdateRaisesPreserves ==
    ASSUME SInv, NEW t \in Managers, NEW s \in Sessions, NEW p \in Payloads,
           mpc[t] \in {"idle", "sweep"}, UpdateRaises(t, s, p)
    PROVE  SInv'
<1>1. /\ CleansUp(s, p) /\ Raise(t)
      /\ UNCHANGED <<mode, phase, opHeld, intruded, cut>>
      /\ botched' = IF ReleasesWarm(s, p) THEN botched \cup {s} ELSE botched
    BY DEF UpdateRaises
<1>2. hold[t] = NoSlot /\ inHand[t] = NoBrowser /\ cur[t] = NoSession
  <2>1. mlock # t
      BY WhoIsWho, <1>1 DEF CleansUp
  <2>. QED
      BY <2>1 DEF SInv, Hands, Tasks, Creating, TypeOK
<1>3. /\ mlock' = NoClient /\ mpc' = [mpc EXCEPT ![t] = "idle"]
      /\ UNCHANGED <<cur, hold, inHand>>
    BY <1>1, <1>2 DEF Raise, Leave, SInv, TypeOK
<1>4. /\ expired' \subseteq Sessions /\ reaping' \in {"off", "on", "dead"}
      /\ t # Reaper => UNCHANGED reaping
    BY <1>1 DEF Raise, SInv, TypeOK
<1>5. botched \subseteq botched' /\ botched' \subseteq Sessions
    BY <1>1 DEF SInv, TypeOK
<1>. QED
    BY <1>1, <1>3, <1>4, <1>5, CleansUpPreserves

\* A sweep collects the expired sessions and ends them one by one.
LEMMA ReapPreserves ==
    ASSUME SInv, Reap
    PROVE  SInv'
<1>1. ASSUME NEW s \in Sessions, ReapOne(s) PROVE SInv'
  <2>1. EndPayload \in Payloads
      BY DEF EndPayload, Payloads
  <2>. QED
      BY <1>1, <2>1, WhoIsWho, UpdatePreserves, UpdateRaisesPreserves DEF ReapOne, SInv, TypeOK
<1>2. ASSUME ReapCollect PROVE SInv'
  <2> USE DEF SInv
  <2>1. /\ \A u \in Managers \ {Reaper} : mpc'[u] = mpc[u]
        /\ mpc[Reaper] = "idle" /\ mpc'[Reaper] = "sweep" /\ reaping = "on"
        /\ phase = "serving" /\ phase' = "serving" /\ expired' \subseteq Sessions
        /\ UNCHANGED <<poolVars, sessionVars, mlock, cur, hold, inHand, appVars>>
      BY <1>2, WhoIsWho DEF ReapCollect, Goto, Expired, LiveSessions, TypeOK, appVars
  <2>2. Moves(Reaper, MethodAt(mpc'[Reaper])) /\ KnownKept
      BY <2>1, WhoIsWho, PoolStill DEF Calls, MethodAt, poolVars
  <2>3. P!Sound' /\ Calls' /\ App' /\ Ending'
      BY <2>1, <2>2, WhoIsWho, ManagerStep
  <2>4. TypeOK'
      BY <1>2, <2>1 DEF TypeOK, Goto, sessionVars, appVars, ReapCollect
  <2>5. (Tasks /\ Hands)'
      BY <2>1, WhoIsWho DEF Tasks, Hands, Creating, appVars
  <2>6. \A s \in Sessions, places \in {{"created"}, {"release"}, Creating} :
            Works(s, places)' <=> Works(s, places)
      BY <2>1, WhoIsWho DEF Works, Creating
  <2>7. (Stored /\ Doing /\ Pipelines)'
      BY <2>1, <2>6 DEF Stored, Doing, Pipelines, Creating, sessionVars, appVars
  <2>8. (Counted /\ Owned)'
      BY <2>1, <2>2 DEF Counted, LiveSessions, Owned, Cold, KnownKept, sessionVars
  <2>. QED
      BY <2>3, <2>4, <2>5, <2>7, <2>8
<1>. QED
    BY <1>1, <1>2 DEF Reap

\* Every step of a task inside the manager.
LEMMA ManagerPreserves ==
    ASSUME SInv,
           \/ \E t \in Requests : Create(t)
           \/ \E t \in Requests, s \in Sessions, p \in Payloads : UpdateRequest(t, s, p)
           \/ \E t \in Managers : FinishUpdate(t)
           \/ Reap
    PROVE  SInv'
<1>1. ASSUME NEW t \in Requests, NEW s \in Sessions, NEW p \in Payloads,
             UpdateRequest(t, s, p)
      PROVE  SInv'
    BY <1>1, WhoIsWho, UpdatePreserves, UpdateRaisesPreserves DEF UpdateRequest, SInv, TypeOK
<1>2. ASSUME NEW t \in Requests, Create(t) PROVE SInv'
    BY <1>2, CreateBeginPreserves, CreateReservePreserves, CreateReservedPreserves,
        CreateColdPreserves, CreateBuildPreserves, CreateNotMarkedPreserves,
        CreateCancelPreserves, CreateCancelledPreserves, CreateStorePreserves,
        PublishCreatedPreserves, PublishCreatedFailsPreserves, CreateUndonePreserves
    DEF Create
<1>. QED
    BY <1>1, <1>2, FinishUpdatePreserves, ReapPreserves

-----------------------------------------------------------------------------
(* Time, operators, the pool's own work. *)

\* Time passes, or nothing happens.
LEMMA IdlePreserves ==
    ASSUME SInv, idle' \in [Sessions -> BOOLEAN],
           UNCHANGED <<poolVars, status, endpoint, browserOf, warmOf, vncOf, vncLive, active,
                       taskVars, appVars>>
    PROVE  SInv'
<1> USE DEF SInv
<1>1. P!Sound'
    BY WhoIsWho, PoolStill DEF Moves, poolVars
<1>2. (TypeOK /\ Tasks /\ Hands /\ Calls /\ App)'
    BY DEF TypeOK, Tasks, Hands, Calls, App, Creating, MethodAt, poolVars, taskVars, appVars
<1>3. (Stored /\ Doing /\ Pipelines)'
    BY DEF Stored, Doing, Pipelines, Creating, Works, taskVars, appVars
<1>4. (Counted /\ Owned /\ Ending)'
    BY DEF Counted, LiveSessions, Owned, P!Known, Cold, Ending, poolVars, taskVars, appVars
<1>. QED
    BY <1>1, <1>2, <1>3, <1>4

\* The manager and the hooks see nothing of it.
LEMMA ElsewherePreserves ==
    ASSUME SInv, NEW c \in Clients, Moves(c, op'[c]), KnownKept,
           UNCHANGED <<sessionVars, taskVars, mode, phase, reaping, botched, cut>>,
           opHeld' \in [Operators -> SUBSET Slots], intruded' \subseteq Slots,
           c \notin Operators => op'[c] = op[c],
           c \in Operators => phase = "serving",
           Ending'
    PROVE  SInv'
<1> USE DEF SInv
<1>1. TypeOK'
    BY DEF TypeOK, sessionVars, taskVars
<1>2. (Tasks /\ Hands /\ Stored /\ Doing /\ Pipelines /\ Counted)'
    BY DEF Tasks, Hands, Stored, Doing, Pipelines, Counted, LiveSessions, Creating, Works,
        sessionVars, taskVars
<1>3. P!Sound' /\ \A d \in Clients \ Operators : op'[d] = op[d]
    BY DEF Moves
<1>4. \A d \in Operators : phase # "serving" => op'[d] = op[d]
    BY WhoIsWho DEF Moves
<1>5. (Calls /\ App)'
    BY <1>3, <1>4, WhoIsWho DEF Calls, App, MethodAt, taskVars
<1>6. Owned'
    BY DEF Owned, KnownKept, Cold, sessionVars, taskVars
<1>. QED
    BY <1>1, <1>2, <1>3, <1>5, <1>6

\* Slots that are intruded upon are slots.
LEMMA Records ==
    ASSUME SInv, NEW c \in Clients, RecordsIntrusion(c)
    PROVE  intruded' \subseteq Slots
<1>1. pc[c] = "wait" => target[c] \in Slots
    BY DEF SInv, P!Sound, P!Places
<1>. QED
    BY <1>1 DEF RecordsIntrusion, Intrudes, SInv, TypeOK

\* An operator calls a method of the pool.
LEMMA OperatorBeginsPreserves ==
    ASSUME SInv, NEW t \in Operators, OperatorBegins(t)
    PROVE  SInv'
<1>1. t \in Clients /\ op[Main] = "none"
    BY WhoIsWho DEF SInv, App, OperatorBegins
<1>2. Moves(t, op'[t]) /\ KnownKept
  <2>1. PICK o \in Pool!SlotOps, w \in Slots :
            IF o = "reserve" THEN Pool!CallReserve(t, w) ELSE Pool!Call(t, o, w)
    <3>1. OperatorCalls \subseteq Pool!SlotOps
        BY SessionManagerAssumption DEF Pool!SlotOps, Pool!Switches, Pool!Recycles
    <3>2. \A o \in Pool!SlotOps, w \in Slots : Pool!Call(t, o, w) => o # "reserve"
        BY DEF Pool!Call
    <3>. QED
        BY <3>1, <3>2 DEF OperatorBegins
  <2>2. Moves(t, o) /\ KnownKept
      BY <1>1, <2>1, PoolCalled DEF SInv
  <2>. QED
      BY <2>2 DEF Moves
<1>3. Ending'
    BY DEF OperatorBegins, managerVars, appVars, Ending
<1>. QED
    BY <1>1, <1>2, <1>3, ElsewherePreserves
    DEF OperatorBegins, managerVars, appVars, SInv, TypeOK

\* The call of an operator returns.
LEMMA OperatorReturnsPreserves ==
    ASSUME SInv, NEW t \in Operators, OperatorReturns(t)
    PROVE  SInv'
<1>1. t \in Clients /\ Moves(t, op'[t]) /\ KnownKept /\ op[t] # "none"
    BY WhoIsWho, PoolStepped DEF SInv, OperatorReturns
<1>2. phase = "serving"
    BY <1>1 DEF SInv, App
<1>3. opHeld' \in [Operators -> SUBSET Slots]
  <2>1. op[t] \in {"reserve", "cancel", "release"} => target[t] \in Slots
      BY <1>1, WhoIsWho DEF SInv, P!Sound, P!Places, P!Loops
  <2>. QED
      BY <2>1 DEF SInv, TypeOK, OperatorReturns
<1>4. Ending'
    BY <1>2 DEF OperatorReturns, Ending
<1>. QED
    BY <1>1, <1>2, <1>3, <1>4, Records, ElsewherePreserves DEF OperatorReturns

\* The pool works on a call, the drain of stop() among them.
LEMMA PoolWorksPreserves ==
    ASSUME SInv, NEW c \in Clients, PoolWorks(c)
    PROVE  SInv'
<1>1. /\ Moves(c, op'[c]) /\ KnownKept
      /\ op[c] # "none" /\ op'[c] = op[c]
    BY PoolStepped DEF SInv, PoolWorks
<1>2. phase # "serving" => c = Main /\ phase \in {"starting", "stopping"}
    BY <1>1 DEF SInv, App, TypeOK, Calls, MethodAt, Clients, Managers
<1>3. Ending'
  <2>1. CASE phase = "stopping"
    <3>1. c = Main /\ op[Main] = "drain" /\ P!Step(Main)
        BY <1>2, <2>1, SamePool DEF SInv, App, PoolWorks
    <3>2. \A w \in Slots \ todo'[Main] :
              target'[Main] = w \/ (state'[w] = "DRAINING" /\ handle'[w] = NoBrowser)
        BY <1>1, <2>1, <3>1, PoolAssumed, P!DrainPasses DEF SInv, Ending
    <3>. QED
        BY <2>1, <3>2 DEF SInv, Ending, PoolWorks, sessionVars
  <2>2. CASE phase # "stopping"
      BY <1>2, <2>2 DEF SInv, Ending, PoolWorks, sessionVars
  <2>. QED
      BY <2>1, <2>2
<1>. QED
    BY <1>1, <1>2, <1>3, WhoIsWho, Records, ElsewherePreserves
    DEF PoolWorks, sessionVars, taskVars, SInv, TypeOK

-----------------------------------------------------------------------------
(* start() and stop() *)

\* Nothing is stored and the pool is being built.
LEMMA InitInv == Init => SInv
<1> SUFFICES ASSUME Init PROVE SInv
    OBVIOUS
<1>1. P!Sound
    BY WhoIsWho, PoolAssumed, SamePool, P!InitSound DEF Init
<1>2. TypeOK
    BY DEF Init, TypeOK
<1>3. Tasks /\ Hands
    BY WhoIsWho, SessionManagerAssumption DEF Init, Tasks, Hands, Creating
<1>4. Calls /\ App
    BY WhoIsWho DEF Init, Pool!Init, Calls, App, MethodAt
<1>5. Stored /\ Doing /\ Pipelines
    BY DEF Init, Stored, Doing, Pipelines, Creating
<1>6. Counted
  <2>1. LiveSessions = {}
      BY DEF Init, LiveSessions
  <2>. QED
      BY <2>1, FS_EmptySet DEF Init, Counted
<1>7. Owned /\ Ending
    BY DEF Init, Pool!Init, Owned, Ending
<1>. QED
    BY <1>1, <1>2, <1>3, <1>4, <1>5, <1>6, <1>7 DEF SInv

\* The pool has started.
LEMMA StartedPreserves ==
    ASSUME SInv, Started
    PROVE  SInv'
<1> USE DEF SInv
<1>1. Moves(Main, op'[Main]) /\ KnownKept
    BY WhoIsWho, PoolStepped DEF Started, Pool!Step
<1>2. op'[Main] = "none"
    BY WhoIsWho DEF Started, Pool!LoopDone, Pool!Return, P!Sound, P!TypeOK
<1>3. P!Sound' /\ Calls' /\ App'
    BY <1>1, <1>2, WhoIsWho DEF Moves, Calls, App, Started, taskVars
<1>4. TypeOK'
    BY DEF TypeOK, Started, sessionVars, taskVars
<1>5. (Tasks /\ Hands /\ Stored /\ Doing /\ Pipelines /\ Counted)'
    BY DEF Tasks, Hands, Stored, Doing, Pipelines, Counted, LiveSessions, Creating, Works,
        Started, sessionVars, taskVars
<1>6. Owned' /\ Ending'
    BY <1>1 DEF Owned, KnownKept, Cold, Ending, Started, sessionVars, taskVars
<1>. QED
    BY <1>3, <1>4, <1>5, <1>6

\* Only the phase changes, and it is one without work of the hooks' task.
LEMMA PhaseChanges ==
    ASSUME SInv, op[Main] = "none", phase' \in {"cancelling", "aborted"},
           \A t \in Managers :
               mpc[t] = "idle" \/ (phase' = "cancelling" /\ mpc[t] = "sweep"),
           \A t \in Operators : op[t] = "none",
           UNCHANGED <<poolVars, sessionVars, taskVars, mode, reaping, opHeld, intruded,
                       botched, cut>>
    PROVE  SInv'
<1> USE DEF SInv
<1>1. P!Sound'
    BY WhoIsWho, PoolStill DEF Moves, poolVars
<1>2. (TypeOK /\ Tasks /\ Hands /\ Calls /\ App)'
    BY DEF TypeOK, Tasks, Hands, Calls, App, Creating, MethodAt, poolVars, sessionVars, taskVars
<1>3. (Stored /\ Doing /\ Pipelines)'
    BY DEF Stored, Doing, Pipelines, Creating, Works, sessionVars, taskVars
<1>4. (Counted /\ Owned /\ Ending)'
    BY DEF Counted, LiveSessions, Owned, P!Known, Cold, Ending, poolVars, sessionVars, taskVars
<1>. QED
    BY <1>1, <1>2, <1>3, <1>4

\* stop() has had the lock, or gives up because the reaper died.
LEMMA StopBeginPreserves ==
    ASSUME SInv, StopBegin \/ StopRaises
    PROVE  SInv'
<1>1. CASE StopBegin
  <2>1. op[Main] = "none" /\ \A t \in Operators : op[t] = "none"
      BY <1>1, WhoIsWho DEF StopBegin, SInv, P!Sound, P!Places
  <2>2. \A t \in Managers : mpc[t] \in {"idle", "sweep"}
      BY <1>1, WhoIsWho DEF StopBegin, SInv, Tasks
  <2>. QED
      BY <1>1, <2>1, <2>2, PhaseChanges DEF StopBegin
<1>2. CASE StopRaises
  <2>1. op[Main] = "none" /\ \A t \in Operators : op[t] = "none"
      BY <1>2 DEF StopRaises, SInv, App
  <2>2. \A t \in Managers : mpc[t] = "idle"
      BY <1>2 DEF StopRaises, SInv, App, Tasks
  <2>. QED
      BY <1>2, <2>1, <2>2, PhaseChanges DEF StopRaises
<1>. QED
    BY <1>1, <1>2

\* The reaper ends: what it was at is as it left it.
LEMMA ReaperStopsPreserves ==
    ASSUME SInv, ReaperStops
    PROVE  SInv'
<1> USE DEF SInv
<1>1. PICK how \in {"off", "dead"} : ReaperEnds(how)
    BY DEF ReaperStops, ReaperCancelled, ReaperCut
<1>2. /\ phase = "cancelling" /\ phase' = "cancelling"
      /\ \A t \in Managers : mpc[t] \in {"idle", "sweep"} /\ mpc'[t] = IF t = Reaper THEN "idle"
                                                                       ELSE mpc[t]
      /\ \A t \in Operators : op[t] = "none"
    BY <1>1, WhoIsWho DEF ReaperEnds, App, TypeOK
<1>3. \A s \in Sessions, places \in {{"created"}, {"release"}, Creating} :
          ~Works(s, places) /\ ~Works(s, places)'
    BY <1>2 DEF Works, Creating
<1>4. (Tasks /\ Hands /\ Calls /\ App)'
    BY <1>1, <1>2, WhoIsWho DEF ReaperEnds, Tasks, Hands, Calls, App, Creating, MethodAt
<1>5. CASE ReaperCancelled
  <2>1. P!Sound'
      BY <1>1, <1>5, PoolAssumed, P!OutsideSound
      DEF ReaperCancelled, ReaperEnds, P!Sound, P!TypeOK, P!callVars
  <2>2. TypeOK'
      BY <1>1, <1>2, <1>5 DEF ReaperCancelled, ReaperEnds, TypeOK, sessionVars
  <2>3. (Stored /\ Doing /\ Pipelines)'
      BY <1>2, <1>3, <1>5, <1>1 DEF Stored, Doing, Pipelines, Creating, ReaperCancelled, ReaperEnds,
          sessionVars
  <2>4. (Counted /\ Owned /\ Ending)'
      BY <1>2, <1>1, <1>5 DEF Counted, LiveSessions, Owned, P!Known, Cold, Ending, ReaperCancelled,
          ReaperEnds, sessionVars
  <2>. QED
      BY <1>4, <2>1, <2>2, <2>3, <2>4
<1>6. ASSUME NEW s \in Sessions, ReaperCut(s) PROVE SInv'
  <2> DEFINE p == EndPayload
             atBrowser == endpoint[s] /\ Killed(s) \ {NoBrowser} # {}
             atVnc == ~atBrowser /\ vncOf[s]
             atRelease == ~atBrowser /\ ~atVnc /\ ReleasesWarm(s, p)
  <2>1. /\ Stores(s, p) /\ p \in Payloads /\ p.status = "DEAD" /\ p.endpoint = "clear"
        /\ NextStatus(s, p) = "DEAD"
      BY <1>6 DEF ReaperCut, EndPayload, Payloads, NextStatus
  <2>2. /\ status' \in [Sessions -> {"none", "LIVE", "DEAD"}]
        /\ endpoint' \in [Sessions -> BOOLEAN]
        /\ browserOf' \in [Sessions -> Browsers \cup {NoBrowser}]
        /\ active' \in Nat
        /\ idle' \in [Sessions -> BOOLEAN]
        /\ Counted'
      BY <2>1, StoresCounted
  <2>3. /\ status[s] # "none"
        /\ \A x \in Sessions \ {s} :
              /\ status'[x] = status[x] /\ endpoint'[x] = endpoint[x]
              /\ browserOf'[x] = browserOf[x]
        /\ status'[s] = "DEAD" /\ endpoint'[s] = FALSE /\ browserOf'[s] = NoBrowser
    <3>1. DropsBrowser(s, p) <=> endpoint[s]
        BY <2>1 DEF DropsBrowser, EndPayload
    <3>2. ~endpoint[s] => browserOf[s] = NoBrowser
        BY DEF Stored
    <3>. QED
        BY <2>1, <3>1, <3>2 DEF Stores, EndPayload, TypeOK
  <2>4. \/ /\ atBrowser /\ live' = live \ Killed(s) /\ cut' = cut \cup {s}
           /\ UNCHANGED <<state, stranded, warmOf, vncOf, vncLive>>
        \/ /\ atVnc /\ vncOf' = [vncOf EXCEPT ![s] = FALSE]
           /\ vncLive' \in {vncLive, vncLive \ {s}} /\ cut' = cut \cup {s}
           /\ UNCHANGED <<state, live, stranded, warmOf>>
        \/ /\ atRelease /\ state[warmOf[s]] \in {"RESERVED", "BUSY"}
           /\ warmOf' = [warmOf EXCEPT ![s] = NoSlot]
           /\ state' = [state EXCEPT ![warmOf[s]] = "RECYCLING"]
           /\ live' = live \ {handle[warmOf[s]]}
           /\ stranded' = stranded \cup {warmOf[s]}
           /\ UNCHANGED <<vncOf, vncLive, cut>>
        \/ /\ atRelease /\ warmOf' = [warmOf EXCEPT ![s] = NoSlot]
           /\ UNCHANGED <<state, live, stranded, vncOf, vncLive, cut>>
        \/ /\ ~atBrowser /\ ~atVnc /\ ~atRelease
           /\ UNCHANGED <<state, live, stranded, warmOf, vncOf, vncLive, cut>>
      BY <1>6 DEF ReaperCut
  <2>5. live' \subseteq live /\ UNCHANGED lost
      BY <1>1, <2>4 DEF ReaperEnds
  <2>6. P!Sound'
    <3>1. CASE UNCHANGED <<state, stranded>>
        BY <1>1, <2>5, <3>1, PoolAssumed, P!OutsideSound
        DEF ReaperEnds, P!Sound, P!TypeOK, P!callVars
    <3>2. CASE /\ atRelease /\ state[warmOf[s]] \in {"RESERVED", "BUSY"}
               /\ state' = [state EXCEPT ![warmOf[s]] = "RECYCLING"]
               /\ stranded' = stranded \cup {warmOf[s]}
      <4>1. warmOf[s] \in Slots
          BY <3>2 DEF ReleasesWarm, TypeOK
      <4>2. P!Serving
          BY <1>2 DEF App, P!Serving
      <4>. QED
          BY <1>1, <2>5, <3>2, <4>1, <4>2, PoolAssumed, P!GivenUp DEF ReaperEnds, P!callVars
    <3>. QED
        BY <2>4, <3>1, <3>2
  <2>7. TypeOK'
    <3>1. /\ warmOf' \in [Sessions -> Slots \cup {NoSlot}] /\ vncOf' \in [Sessions -> BOOLEAN]
          /\ vncLive' \subseteq Sessions /\ cut' \subseteq Sessions
        BY <2>4 DEF TypeOK
    <3>2. /\ mpc' = [mpc EXCEPT ![Reaper] = "idle"] /\ expired' = {} /\ reaping' = how
          /\ UNCHANGED <<mlock, cur, hold, inHand, mode, phase, opHeld, intruded, botched>>
        BY <1>1 DEF ReaperEnds
    <3>. QED
        BY <2>2, <3>1, <3>2 DEF TypeOK
  <2>8. Stored'
    <3>1. ASSUME NEW x \in Sessions, x # s
          PROVE  /\ ~endpoint'[x] => browserOf'[x] = NoBrowser
                 /\ status'[x] = "none" => ~endpoint'[x] /\ warmOf'[x] = NoSlot /\ ~vncOf'[x]
                 /\ status'[x] = "DEAD" =>
                       /\ browserOf'[x] = NoBrowser
                       /\ vncOf'[x] => x \in cut'
                       /\ warmOf'[x] # NoSlot => x \in botched' \cup cut'
      <4>1. warmOf'[x] = warmOf[x] /\ vncOf'[x] = vncOf[x] /\ (x \in cut => x \in cut')
          BY <2>4, <3>1 DEF TypeOK
      <4>2. botched' = botched
          BY <1>1 DEF ReaperEnds
      <4>. QED
          BY <1>3, <2>3, <3>1, <4>1, <4>2 DEF Stored
    <3>2. /\ vncOf'[s] => s \in cut'
          /\ warmOf'[s] # NoSlot => s \in botched' \cup cut'
      <4>1. botched' = botched
          BY <1>1 DEF ReaperEnds
      <4>2. status[s] = "DEAD" /\ warmOf[s] # NoSlot => s \in botched \cup cut
          BY <1>3 DEF Stored
      <4>3. status[s] \in {"LIVE", "DEAD"}
          BY <2>3 DEF TypeOK
      <4>. QED
          BY <2>1, <2>4, <4>1, <4>2, <4>3 DEF ReleasesWarm, TypeOK
    <3>. QED
        BY <2>3, <3>1, <3>2 DEF Stored
  <2>9. Pipelines'
      BY <1>3, <2>4 DEF Pipelines, TypeOK
  <2>10. Doing'
      BY <1>2 DEF Doing, Creating
  <2>11. Owned'
    <3>1. handle' = handle /\ launched' = launched /\ inHand' = inHand /\ hold' = hold
        BY <1>1 DEF ReaperEnds
    <3>2. ASSUME NEW b \in live', Cold(b), b \notin lost' PROVE Cold(b)'
      <4>1. b # NoBrowser
          BY <2>5, SessionManagerAssumption DEF P!Sound, P!TypeOK
      <4>2. CASE \E t \in Managers : inHand[t] = b /\ hold[t] = NoSlot
          BY <3>1, <4>2 DEF Cold
      <4>3. ASSUME NEW x \in Sessions, browserOf[x] = b, warmOf[x] = NoSlot PROVE Cold(b)'
        <5>1. x # s
          <6>1. ASSUME x = s PROVE FALSE
            <7>1. endpoint[s] /\ Killed(s) = {b}
                BY <4>1, <4>3, <6>1 DEF Stored, Killed
            <7>. QED
                BY <2>4, <4>1, <7>1
          <6>. QED
              BY <6>1
        <5>2. browserOf'[x] = b /\ warmOf'[x] = NoSlot
            BY <2>3, <2>4, <4>3, <5>1 DEF TypeOK
        <5>. QED
            BY <5>2 DEF Cold
      <4>. QED
          BY <3>2, <4>2, <4>3 DEF Cold
    <3>. QED
        BY <2>5, <3>1, <3>2 DEF Owned, P!Known
  <2>12. Ending'
      BY <1>2 DEF Ending
  <2>. QED
      BY <1>4, <2>2, <2>6, <2>7, <2>8, <2>9, <2>10, <2>11, <2>12
<1>. QED
    BY <1>5, <1>6 DEF ReaperStops

\* stop() kills what sessions without workstations have and begins the drain.
LEMMA StopCleansUpPreserves ==
    ASSUME SInv, StopCleansUp
    PROVE  SInv'
<1> USE DEF SInv
<1>1. \A t \in Managers : mpc[t] = "idle" /\ mpc'[t] = "idle" /\ inHand[t] = NoBrowser
    BY WhoIsWho DEF StopCleansUp, App, Tasks, Hands, taskVars
<1>2. P!Sound'
  <2>1. live' \subseteq live /\ P!Serving /\ pc[Main] = "idle"
      BY WhoIsWho DEF StopCleansUp, App, P!Serving, P!Sound, P!Places
  <2>. QED
      BY <2>1, WhoIsWho, PoolAssumed, P!DrainBegins DEF StopCleansUp, P!historyVars
<1>3. TypeOK'
    BY DEF TypeOK, StopCleansUp, taskVars
<1>4. (Tasks /\ Hands)'
    BY <1>1, WhoIsWho DEF Tasks, Hands, StopCleansUp, Creating, taskVars
<1>5. (Calls /\ App)'
  <2>1. \A t \in Operators : op[t] = "none"
      BY WhoIsWho DEF StopCleansUp, App
  <2>2. \A d \in Clients \ {Main} : op'[d] = op[d]
      BY DEF StopCleansUp
  <2>3. op'[Main] = "drain"
      BY WhoIsWho DEF StopCleansUp, P!Sound, P!TypeOK
  <2>. QED
      BY <1>1, <2>1, <2>2, <2>3, WhoIsWho DEF Calls, App, MethodAt, StopCleansUp
<1>6. \A s \in Sessions, places \in {{"created"}, {"release"}, Creating} :
          ~Works(s, places) /\ ~Works(s, places)'
    BY <1>1 DEF Works, Creating
<1>7. (Stored /\ Doing /\ Pipelines)'
    BY <1>1, <1>6 DEF Stored, Doing, Pipelines, Creating, StopCleansUp
<1>8. Counted'
    BY DEF Counted, LiveSessions, StopCleansUp
<1>9. Owned'
  <2>1. \A b \in live' : b \in live /\ b # NoBrowser /\ b \notin ColdBrowsers
      BY SessionManagerAssumption DEF StopCleansUp, P!Sound, P!TypeOK
  <2>2. \A b \in live' : ~Cold(b)
      BY <1>1, <2>1 DEF Cold, ColdBrowsers
  <2>. QED
      BY <2>1, <2>2 DEF Owned, P!Known, StopCleansUp
<1>10. Ending'
    BY WhoIsWho DEF Ending, StopCleansUp, P!Sound, P!TypeOK
<1>. QED
    BY <1>2, <1>3, <1>4, <1>5, <1>7, <1>8, <1>9, <1>10

\* The drain returns: no slot has a browser, so none is left.
LEMMA StoppedPreserves ==
    ASSUME SInv, Stopped
    PROVE  SInv'
<1> USE DEF SInv
<1>1. Moves(Main, op'[Main]) /\ KnownKept
    BY WhoIsWho, PoolStepped DEF Stopped, Pool!Step
<1>2. op'[Main] = "none" /\ op[Main] = "drain" /\ UNCHANGED <<live, lost>>
    BY WhoIsWho DEF Stopped, Pool!LoopDone, Pool!Return, Pool!slotVars, Pool!historyVars,
        P!Sound, P!TypeOK, App
<1>3. live \subseteq lost
  <2>1. P!Step(Main)
      BY WhoIsWho, SamePool DEF Stopped, Pool!Step
  <2>2. \A w \in Slots : handle[w] = NoBrowser
      BY <1>2, <2>1, WhoIsWho, PoolAssumed, P!DrainPasses DEF Stopped, Ending
  <2>3. \A c \in Clients : launched[c] = NoBrowser
    <3>1. \A c \in Clients : op[c] \in {"none", "drain"}
        BY <1>2 DEF App, Stopped, Calls, MethodAt, Clients, Managers
    <3>2. \A c \in Clients : pc[c] # "prewarm"
        BY <3>1 DEF P!Sound, P!Places, P!Recycles
    <3>. QED
        BY <3>2 DEF P!Sound, P!Handles
  <2>4. /\ \A s \in Sessions : browserOf[s] = NoBrowser
        /\ \A t \in Managers : inHand[t] = NoBrowser
      BY DEF Stopped, Ending, App, Hands
  <2>5. NoBrowser \notin live
      BY SessionManagerAssumption DEF P!Sound, P!TypeOK
  <2>. QED
      BY <2>2, <2>3, <2>4, <2>5 DEF Owned, P!Known, Cold
<1>4. P!Sound' /\ Calls' /\ App'
    BY <1>1, <1>2, WhoIsWho DEF Moves, Calls, App, Stopped, taskVars
<1>5. TypeOK'
    BY DEF TypeOK, Stopped, taskVars
<1>6. (Tasks /\ Hands /\ Counted)'
    BY DEF Tasks, Hands, Counted, LiveSessions, Creating, Stopped, taskVars
<1>7. \A t \in Managers : mpc[t] = "idle"
    BY DEF App, Stopped
<1>8. (Stored /\ Doing /\ Pipelines)'
    BY <1>7 DEF Stored, Doing, Pipelines, Creating, Works, Stopped, taskVars, Ending
<1>9. (Owned /\ Ending)'
  <2>1. vncLive' \subseteq cut'
      BY <1>7 DEF Stopped, Pipelines, Works, Creating, TypeOK
  <2>. QED
      BY <1>2, <1>3, <2>1 DEF Owned, Ending, Stopped
<1>. QED
    BY <1>4, <1>5, <1>6, <1>8, <1>9

\* start() after stop().
LEMMA StartAgainPreserves ==
    ASSUME SInv, StartAgain
    PROVE  SInv'
<1> USE DEF SInv
<1>1. \A c \in Clients : op[c] = "none"
    BY DEF App, StartAgain, Calls, MethodAt, Clients, Managers
<1>2. P!Sound'
    BY <1>1, WhoIsWho, SamePool, PoolAssumed, P!Rebuilt DEF StartAgain
<1>3. (Calls /\ App)'
    BY <1>1, WhoIsWho DEF StartAgain, Pool!CallStart, P!Sound, P!TypeOK, Calls, App, MethodAt,
        taskVars
<1>4. TypeOK'
    BY DEF TypeOK, StartAgain, sessionVars, taskVars
<1>5. (Tasks /\ Hands /\ Stored /\ Doing /\ Pipelines /\ Counted)'
    BY DEF Tasks, Hands, Stored, Doing, Pipelines, Counted, LiveSessions, Creating, Works,
        StartAgain, sessionVars, taskVars
<1>6. (Owned /\ Ending)'
    BY DEF Owned, Ending, StartAgain, Pool!CallStart, sessionVars
<1>. QED
    BY <1>2, <1>3, <1>4, <1>5, <1>6

-----------------------------------------------------------------------------
\* Every step preserves the invariant.
LEMMA NextInv == SInv /\ [Next]_vars => SInv'
<1> SUFFICES ASSUME SInv, [Next]_vars PROVE SInv'
    OBVIOUS
<1>1. CASE UNCHANGED vars
    BY <1>1, IdlePreserves DEF vars, managerVars, sessionVars, SInv, TypeOK
<1>2. ASSUME NEW s \in Sessions, TTLPasses(s) PROVE SInv'
    BY <1>2, IdlePreserves DEF TTLPasses, SInv, TypeOK
<1>3. ASSUME \E t \in Operators : OperatorBegins(t) \/ OperatorReturns(t) PROVE SInv'
    BY <1>3, OperatorBeginsPreserves, OperatorReturnsPreserves
<1>4. ASSUME \E c \in Clients : PoolWorks(c) PROVE SInv'
    BY <1>4, PoolWorksPreserves
<1>. QED
    BY <1>1, <1>2, <1>3, <1>4, ManagerPreserves, StartedPreserves, StopBeginPreserves,
        ReaperStopsPreserves, StopCleansUpPreserves, StoppedPreserves, StartAgainPreserves
    DEF Next

\* The invariant holds in every reachable state.
THEOREM Invariance == Spec => []SInv
<1>. QED
    BY InitInv, NextInv, PTL DEF Spec

\* The fields of SessionManager and its tasks' places keep their types.
THEOREM TypeCorrect == Spec => []TypeOK
<1>1. SInv => TypeOK
    BY DEF SInv
<1>. QED
    BY <1>1, Invariance, PTL

\* slots.active counts the sessions that are not DEAD, through failed
\* publications, rollbacks, repeated ends and revivals.
THEOREM ActiveIsExact == Spec => []ActiveCountExact
<1>1. SInv => ActiveCountExact
    BY DEF SInv, Counted, ActiveCountExact
<1>. QED
    BY <1>1, Invariance, PTL

\* Whichever step of a create, an update or a stop() fails, no browser runs unowned
\* but those that launch_browser itself lost.
THEOREM BrowsersHaveOwners == Spec => []NoLeakedBrowser
<1>1. SInv => NoLeakedBrowser
    BY DEF SInv, Owned, P!Known, Cold, NoLeakedBrowser
<1>. QED
    BY <1>1, Invariance, PTL

\* Nor does a VNC pipeline, but for a session whose end stop() cut off.
THEOREM PipelinesHaveSessions == Spec => []NoLeakedVnc
<1>1. SInv => NoLeakedVnc
    BY DEF SInv, Pipelines, Works, Creating, Tasks, NoLeakedVnc
<1>. QED
    BY <1>1, Invariance, PTL

\* When the lock is free, sessions that are dead or were rolled back have nothing, but
\* for the workstation of one whose VNC release raised and what an end that stop() cut
\* off had not come to.
THEOREM GoneSessionsHoldNothing == Spec => []GoneHoldsNothing
<1>1. SInv => GoneHoldsNothing
  <2> SUFFICES ASSUME SInv, mlock = NoClient, NEW s \in Sessions \ LiveSessions
               PROVE  /\ browserOf[s] = NoBrowser
                      /\ warmOf[s] # NoSlot => s \in botched \cup cut
                      /\ s \in vncLive => s \in cut
      BY DEF GoneHoldsNothing
  <2>1. \A t \in Managers : mpc[t] \in {"idle", "sweep"}
      BY WhoIsWho DEF SInv, Tasks
  <2>2. ~Works(s, {"created"}) /\ ~Works(s, {"release"}) /\ ~Works(s, Creating)
      BY <2>1 DEF Works, Creating
  <2>3. status[s] \in {"none", "DEAD"}
      BY DEF SInv, TypeOK, LiveSessions
  <2>. QED
      BY <2>2, <2>3 DEF SInv, Stored, Pipelines
<1>. QED
    BY <1>1, Invariance, PTL

\* After stop() nothing is left running but the browsers that launch_browser lost and
\* the helpers of a session whose end it cut off.
THEOREM StopIsComplete == Spec => []StopLeavesNothing
<1>1. SInv => StopLeavesNothing
    BY DEF SInv, Ending, StopLeavesNothing
<1>. QED
    BY <1>1, Invariance, PTL

-----------------------------------------------------------------------------
(* Whose the workstations are. *)

Taken == {"RESERVED", "BUSY"}

\* The slots that no operator has taken on but the one that reserved them.
Sole == Slots \ intruded

\* The places of create_session at which the task owns the slot it has reserved.
Holding == {"build", "marking", "cancel", "cancelling"}

\* A task of the manager owns a slot: it has reserved it for the session it
\* creates, or it is giving it back.
Claims(t, w) ==
    \/ mpc[t] \in Holding /\ hold[t] = w
    \/ op[t] = "release" /\ target[t] = w

\* Which slot a call is about.
Targets ==
    /\ \A t \in Managers :
          mpc[t] \in {"reserving", "marking", "cancelling"} => target[t] = hold[t]
    /\ \A o \in Operators : op[o] \in Pool!SlotOps \cup {"none"}

\* A slot has one owner: a session, a task of the manager, or an operator.
Apart ==
    /\ \A s, x \in Sessions : warmOf[s] \in Sole /\ warmOf[s] = warmOf[x] => s = x
    /\ \A s \in Sessions, t \in Managers : warmOf[s] \in Sole => ~Claims(t, warmOf[s])
    /\ \A s \in Sessions, o \in Operators : warmOf[s] \in Sole => warmOf[s] \notin opHeld[o]
    /\ \A t \in Managers, o \in Operators : \A w \in opHeld[o] : w \in Sole => ~Claims(t, w)
    /\ \A o, p \in Operators : o # p => opHeld[o] \cap opHeld[p] \cap Sole = {}

\* What an owner relies on: only it takes the slot out of the state it left it in.
SessionSlots ==
    \A s \in Sessions :
        warmOf[s] \in Sole =>
            state[warmOf[s]] = "BUSY" /\ browserOf[s] \in {NoBrowser, handle[warmOf[s]]}

TaskSlots ==
    \A t \in Managers :
        /\ mpc[t] = "cancel" => hold[t] \notin Sole
        /\ mpc[t] \in Holding /\ hold[t] \in Sole =>
              inHand[t] = handle[hold[t]] /\ state[hold[t]] = "RESERVED"
        /\ op[t] = "release" /\ pc[t] = "wait" /\ target[t] \in Sole => state[target[t]] \in Taken

OperatorSlots ==
    \A o \in Operators : \A w \in opHeld[o] :
        \/ w \notin Sole
        \/ state[w] \in Taken
        \/ op[o] = "release" /\ target[o] = w /\ pc[o] # "wait"

InUse == phase = "serving" => SessionSlots /\ TaskSlots /\ OperatorSlots

\* A pool that is being built, or is drained, has no owners.
Unowned ==
    phase \in {"starting", "stopped"} =>
        /\ \A s \in Sessions : warmOf[s] = NoSlot
        /\ \A o \in Operators : opHeld[o] = {}
        /\ intruded = {}

\* A slot that is not free has an owner.
HasOwner ==
    \A w \in Sole :
        state[w] \in Taken =>
            \/ \E s \in Sessions : warmOf[s] = w
            \/ \E t \in Managers : Claims(t, w)
            \/ \E o \in Operators : w \in opHeld[o]

Owners == Targets /\ Apart /\ InUse /\ Unowned /\ HasOwner

-----------------------------------------------------------------------------
(* The slots under a step of one call. *)

Kept(w) == state'[w] = state[w] /\ handle'[w] = handle[w]

\* What the others than c own is as it was.
OwnedKept(c) ==
    /\ \A s \in Sessions : warmOf[s] \in Sole' => Kept(warmOf[s])
    /\ \A u \in Managers \ {c} :
          /\ mpc[u] \in Holding /\ hold[u] \in Sole' => Kept(hold[u])
          /\ op[u] = "release" /\ pc[u] = "wait" /\ target[u] \in Sole' => Kept(target[u])
    /\ \A o \in Operators \ {c} :
          \A w \in opHeld[o] : w \in Sole' /\ state[w] \in Taken => Kept(w)

\* A reserved slot is changed only by a call about it that returns, or releases it.
LEMMA SlotKept ==
    ASSUME P!Sound, NEW c \in Clients, Pool!Step(c), op[c] # "drain", NEW w \in Slots,
           state[w] \in Taken, op[c] = "release" => target[c] # w,
           op[c] \in {"busy", "cancel"} /\ op'[c] = "none" => target[c] # w
    PROVE  Kept(w)
<1>1. P!Step(c)
    BY SamePool
<1>. QED
    BY <1>1, PoolAssumed, P!StepSlots DEF Taken, Kept

\* Slots become reserved by reservations.
LEMMA NewlyTaken ==
    ASSUME P!Sound, NEW c \in Clients, Pool!Step(c), NEW w \in Slots, state'[w] \in Taken
    PROVE  \/ state[w] \in Taken
           \/ /\ op[c] = "reserve" /\ target[c] = w /\ op'[c] = "none"
              /\ state[w] = "IDLE" /\ state'[w] = "RESERVED"
<1>1. P!Step(c)
    BY SamePool
<1>. QED
    BY <1>1, PoolAssumed, P!StepSlots DEF Taken

\* A release that does not wait for the lock is recycling its slot.
LEMMA Recycles ==
    ASSUME P!Sound, NEW c \in Clients, op[c] = "release", pc[c] # "wait"
    PROVE  target[c] \in Slots /\ state[target[c]] = "RECYCLING"
<1>. QED
    BY PoolAssumed, P!ReleaseRecycles

\* How the calls about owned slots return.
LEMMA Returns ==
    ASSUME P!Sound, NEW c \in Clients, Pool!Step(c), op'[c] = "none",
           op[c] \in {"reserve", "busy", "cancel", "release"}
    PROVE  /\ target[c] \in Slots
           /\ \/ pc[c] = "wait" /\ ~Pool!Accepted(c) /\ state' = state /\ handle' = handle
              \/ /\ pc[c] = "wait" /\ Pool!Accepted(c) /\ op[c] # "release" /\ handle' = handle
                 /\ state' = [state EXCEPT ![target[c]] = Pool!SetsState(op[c])]
              \/ /\ pc[c] # "wait" /\ op[c] = "release"
                 /\ state'[target[c]] \notin Taken
<1>1. P!Step(c)
    BY SamePool
<1>2. /\ P!Accepted(c) <=> Pool!Accepted(c)
      /\ P!SetsState(op[c]) = Pool!SetsState(op[c])
    BY DEF P!Accepted, Pool!Accepted, P!Accepts, Pool!Accepts, P!SetsState, Pool!SetsState,
        P!Recycles, Pool!Recycles
<1>. QED
    BY <1>1, <1>2, PoolAssumed, P!StepReturns DEF Taken

\* An idle slot is nobody's.
LEMMA IdleIsFree ==
    ASSUME SInv, Owners, phase = "serving", NEW w \in Sole, state[w] = "IDLE"
    PROVE  /\ \A s \in Sessions : warmOf[s] # w
           /\ \A t \in Managers : ~Claims(t, w)
           /\ \A o \in Operators : w \notin opHeld[o]
<1>1. w # NoSlot /\ w \in Slots /\ P!Sound
    BY SessionManagerAssumption DEF SInv, Sole
<1>2. \A s \in Sessions : warmOf[s] # w
    BY <1>1 DEF Owners, InUse, SessionSlots
<1>3. \A t \in Managers : ~Claims(t, w)
    BY <1>1, WhoIsWho, Recycles DEF Owners, InUse, TaskSlots, Claims, Taken
<1>4. \A o \in Operators : w \notin opHeld[o]
    BY <1>1, WhoIsWho, Recycles DEF Owners, InUse, OperatorSlots, Taken
<1>. QED
    BY <1>2, <1>3, <1>4

\* What a task has to leave alone: an operator that takes on another's slot says so.
Honest(c) ==
    /\ intruded \subseteq intruded'
    /\ c \in Operators => RecordsIntrusion(c)

\* A step of a call leaves all slots alone that belong to others.
LEMMA OthersKept ==
    ASSUME SInv, Owners, phase = "serving", NEW c \in Managers \cup Operators, Pool!Step(c),
           Honest(c)
    PROVE  OwnedKept(c)
<1>1. c \in Clients /\ P!Sound /\ op[c] # "drain" /\ P!Step(c)
    BY WhoIsWho, SamePool DEF SInv, Calls, MethodAt, Owners, Targets, Pool!SlotOps,
        Pool!Switches, Pool!Recycles
<1>2. ASSUME NEW w \in Sole', state[w] \in Taken,
             c \in Managers => ~Claims(c, w), c \in Operators => w \notin opHeld[c]
      PROVE  Kept(w)
  <2>1. w \in Slots /\ w \in Sole /\ w \notin intruded'
      BY DEF Sole, Honest
  <2>2. CASE op[c] \in {"busy", "cancel", "release"} /\ target[c] = w
    <3>1. c \in Operators
        BY <1>2, <2>2 DEF SInv, Calls, MethodAt, Owners, Targets, Claims, Holding
    <3>2. pc[c] = "wait"
      <4>1. CASE op[c] = "release"
          BY <1>1, <1>2, <2>2, <4>1, Recycles DEF Taken
      <4>2. CASE op[c] # "release"
          BY <1>1, <2>1, <2>2, <4>2, SessionManagerAssumption
          DEF P!Sound, P!TypeOK, P!Places, P!Recycles, P!Loops
      <4>. QED
          BY <4>1, <4>2
    <3>3. ~Pool!Accepted(c)
        BY <1>2, <2>1, <2>2, <3>1, <3>2 DEF Honest, RecordsIntrusion, Intrudes
    <3>4. ~P!Accepted(c)
        BY <3>3 DEF P!Accepted, Pool!Accepted, P!Accepts, Pool!Accepts
    <3>. QED
        BY <1>1, <3>2, <3>4, PoolAssumed, P!StepRefuses DEF Kept
  <2>3. CASE ~(op[c] \in {"busy", "cancel", "release"} /\ target[c] = w)
      BY <1>1, <1>2, <2>1, <2>3, SlotKept
  <2>. QED
      BY <2>2, <2>3
<1>3. ASSUME NEW s \in Sessions, warmOf[s] \in Sole' PROVE Kept(warmOf[s])
  <2>1. warmOf[s] \in Sole /\ state[warmOf[s]] \in Taken
      BY <1>3 DEF Honest, Sole, Owners, InUse, SessionSlots, Taken
  <2>. QED
      BY <1>2, <1>3, <2>1 DEF Owners, Apart
<1>4. ASSUME NEW u \in Managers \ {c}, NEW w \in Sole', Claims(u, w), state[w] \in Taken
      PROVE  Kept(w)
  <2>1. c \in Managers => ~Claims(c, w)
    <3>1. mlock = u
        BY <1>4 DEF SInv, Calls, MethodAt, Tasks, Claims, Holding
    <3>2. c \in Managers => mpc[c] \in {"idle", "sweep"}
        BY <1>4, <3>1 DEF SInv, Tasks
    <3>. QED
        BY <3>2 DEF SInv, Calls, MethodAt, Claims, Holding
  <2>2. c \in Operators => w \notin opHeld[c]
      BY <1>4 DEF Owners, Apart, Sole, Honest
  <2>. QED
      BY <1>2, <1>4, <2>1, <2>2
<1>5. ASSUME NEW u \in Managers \ {c}
      PROVE  /\ mpc[u] \in Holding /\ hold[u] \in Sole' => Kept(hold[u])
             /\ op[u] = "release" /\ pc[u] = "wait" /\ target[u] \in Sole' => Kept(target[u])
  <2>1. Sole' \subseteq Sole
      BY DEF Sole, Honest
  <2>2. ASSUME mpc[u] \in Holding, hold[u] \in Sole' PROVE Kept(hold[u])
    <3>1. Claims(u, hold[u]) /\ state[hold[u]] \in Taken
        BY <2>1, <2>2 DEF Claims, Owners, InUse, TaskSlots, Taken
    <3>. QED
        BY <1>4, <2>2, <3>1
  <2>3. ASSUME op[u] = "release", pc[u] = "wait", target[u] \in Sole' PROVE Kept(target[u])
    <3>1. Claims(u, target[u]) /\ state[target[u]] \in Taken
        BY <2>1, <2>3 DEF Claims, Owners, InUse, TaskSlots
    <3>. QED
        BY <1>4, <2>3, <3>1
  <2>. QED
      BY <2>2, <2>3
<1>6. ASSUME NEW o \in Operators \ {c}, NEW w \in opHeld[o], w \in Sole', state[w] \in Taken
      PROVE  Kept(w)
    BY <1>2, <1>6 DEF Owners, Apart, Sole, Honest
<1>. QED
    BY <1>3, <1>5, <1>6 DEF OwnedKept

-----------------------------------------------------------------------------
(* What a step has to show about the one task that takes it. *)

\* The others are where they were.
OthersStill(c) ==
    /\ \A d \in Clients \ {c} : op'[d] = op[d] /\ pc'[d] = pc[d] /\ target'[d] = target[d]
    /\ \A u \in Managers \ {c} : mpc'[u] = mpc[u] /\ hold'[u] = hold[u] /\ inHand'[u] = inHand[u]
    /\ \A o \in Operators \ {c} : opHeld'[o] = opHeld[o]
    /\ intruded \subseteq intruded'

\* Sessions keep their workstations.
SessionsKept ==
    \A s \in Sessions :
        /\ warmOf'[s] = warmOf[s]
        /\ warmOf[s] # NoSlot => browserOf'[s] \in {browserOf[s], NoBrowser}

\* What a task of the manager has to show about itself.
TaskFine(t) ==
    /\ mpc'[t] \in {"reserving", "marking", "cancelling"} => target'[t] = hold'[t]
    /\ mpc'[t] = "cancel" => hold'[t] \notin Sole'
    /\ mpc'[t] \in Holding /\ hold'[t] \in Sole' =>
          inHand'[t] = handle'[hold'[t]] /\ state'[hold'[t]] = "RESERVED"
    /\ op'[t] = "release" /\ pc'[t] = "wait" /\ target'[t] \in Sole' => state'[target'[t]] \in Taken

\* It claims what was free or its own, and drops what is no longer reserved.
ClaimsFine(t) ==
    \A w \in Sole' :
        /\ Claims(t, w)' => Claims(t, w) \/ state[w] = "IDLE"
        /\ Claims(t, w) /\ state'[w] \in Taken => Claims(t, w)'
        /\ state'[w] \in Taken => state[w] \in Taken \/ Claims(t, w)'

\* A step of a task of the manager that is right about itself is right.
LEMMA TaskStep ==
    ASSUME SInv, Owners, SInv', phase = "serving", phase' = "serving", NEW t \in Managers,
           OthersStill(t), OwnedKept(t), SessionsKept, TaskFine(t), ClaimsFine(t)
    PROVE  Owners'
<1>1. \A o \in Operators : opHeld'[o] = opHeld[o] /\ op'[o] = op[o] /\ pc'[o] = pc[o]
                           /\ target'[o] = target[o]
    BY WhoIsWho DEF OthersStill
<1>2. \A u \in Managers \ {t} :
          /\ op'[u] = op[u] /\ pc'[u] = pc[u] /\ target'[u] = target[u]
          /\ mpc'[u] = mpc[u] /\ hold'[u] = hold[u] /\ inHand'[u] = inHand[u]
    BY WhoIsWho DEF OthersStill
<1>3. \A u \in Managers \ {t}, w \in Slots : Claims(u, w)' <=> Claims(u, w)
    BY <1>2 DEF Claims
<1>0. Sole' \subseteq Sole /\ Sole \subseteq Slots
    BY DEF Sole, OthersStill
<1>4. Targets'
  <2>1. \A u \in Managers :
          mpc'[u] \in {"reserving", "marking", "cancelling"} => target'[u] = hold'[u]
      BY <1>2 DEF Owners, Targets, TaskFine
  <2>. QED
      BY <1>1, <2>1 DEF Owners, Targets
<1>5. Apart'
  <2>1. ASSUME NEW s \in Sessions, NEW u \in Managers, warmOf'[s] \in Sole'
        PROVE  ~Claims(u, warmOf[s])'
    <3>1. warmOf'[s] = warmOf[s] /\ warmOf[s] \in Sole /\ ~Claims(u, warmOf[s])
          /\ state[warmOf[s]] # "IDLE"
        BY <1>0, <2>1, IdleIsFree DEF SessionsKept, Owners, Apart
    <3>2. PICK w \in Sole' : w = warmOf[s]
        BY <2>1, <3>1
    <3>3. ~Claims(u, w)'
        BY <1>0, <1>3, <3>1, <3>2 DEF ClaimsFine
    <3>. QED
        BY <3>1, <3>2, <3>3 DEF Claims
  <2>2. ASSUME NEW u \in Managers, NEW o \in Operators, NEW w \in opHeld'[o], w \in Sole'
        PROVE  ~Claims(u, w)'
    <3>1. w \in Sole /\ w \in opHeld[o] /\ ~Claims(u, w) /\ state[w] # "IDLE"
        BY <1>0, <1>1, <2>2, IdleIsFree DEF Owners, Apart
    <3>. QED
        BY <1>0, <1>3, <2>2, <3>1 DEF ClaimsFine
  <2>. QED
      BY <1>0, <1>1, <2>1, <2>2 DEF SessionsKept, Owners, Apart
<1>6. InUse'
  <2>1. SessionSlots'
      BY <1>0, SessionManagerAssumption
      DEF SessionSlots, SessionsKept, OwnedKept, Kept, Owners, InUse
  <2>2. TaskSlots'
      BY <1>0, <1>2 DEF TaskSlots, TaskFine, OwnedKept, Kept, Owners, InUse
  <2>3. OperatorSlots'
    <3> SUFFICES ASSUME NEW o \in Operators, NEW w \in opHeld[o], w \in Sole'
                 PROVE  \/ state'[w] \in Taken
                        \/ op[o] = "release" /\ target[o] = w /\ pc[o] # "wait"
        BY <1>1 DEF OperatorSlots
    <3>1. o # t
        BY WhoIsWho
    <3>. QED
        BY <1>0, <3>1 DEF OwnedKept, Kept, Owners, InUse, OperatorSlots
  <2>. QED
      BY <2>1, <2>2, <2>3 DEF InUse
<1>7. Unowned'
    BY DEF Unowned
<1>8. HasOwner'
  <2> SUFFICES ASSUME NEW w \in Sole', state'[w] \in Taken
               PROVE  \/ \E s \in Sessions : warmOf'[s] = w
                      \/ \E u \in Managers : Claims(u, w)'
                      \/ \E o \in Operators : w \in opHeld'[o]
      BY DEF HasOwner
  <2>1. CASE Claims(t, w)'
      BY <2>1
  <2>2. CASE ~Claims(t, w)'
    <3>1. state[w] \in Taken /\ ~Claims(t, w)
        BY <2>2 DEF ClaimsFine
    <3>. QED
        BY <1>0, <1>1, <1>3, <3>1 DEF Owners, HasOwner, SessionsKept
  <2>. QED
      BY <2>1, <2>2
<1>. QED
    BY <1>4, <1>5, <1>6, <1>7, <1>8 DEF Owners

\* What an operator has to show about itself.
OperatorFine(o) ==
    /\ op'[o] \in Pool!SlotOps \cup {"none"}
    /\ \A w \in opHeld'[o] : w \in Sole' =>
          /\ w \in opHeld[o] \/ state[w] = "IDLE"
          /\ state'[w] \in Taken \/ (op'[o] = "release" /\ target'[o] = w /\ pc'[o] # "wait")
    /\ \A w \in Sole' :
          state'[w] \in Taken =>
              /\ w \in opHeld[o] => w \in opHeld'[o]
              /\ state[w] \in Taken \/ w \in opHeld'[o]

\* So is one of an operator.
LEMMA OperatorStep ==
    ASSUME SInv, Owners, SInv', phase = "serving", phase' = "serving", NEW o \in Operators,
           UNCHANGED <<sessionVars, taskVars>>, OthersStill(o), OwnedKept(o), OperatorFine(o)
    PROVE  Owners'
<1>0. Sole' \subseteq Sole /\ Sole \subseteq Slots
    BY DEF Sole, OthersStill
<1>1. \A u \in Managers : u # o /\ op'[u] = op[u] /\ pc'[u] = pc[u] /\ target'[u] = target[u]
    BY WhoIsWho DEF OthersStill
<1>2. \A p \in Operators \ {o} :
          opHeld'[p] = opHeld[p] /\ op'[p] = op[p] /\ pc'[p] = pc[p] /\ target'[p] = target[p]
    BY WhoIsWho DEF OthersStill
<1>3. UNCHANGED <<warmOf, browserOf, mpc, hold, inHand>>
    BY DEF sessionVars, taskVars
<1>4. ASSUME NEW u \in Managers, NEW w PROVE Claims(u, w)' <=> Claims(u, w)
    BY <1>1, <1>3 DEF Claims
<1>6. Targets'
    BY <1>1, <1>2, <1>3 DEF Targets, Owners, OperatorFine
<1>5. \A w \in opHeld'[o] : w \in Sole' => w \in Sole /\ (w \in opHeld[o] \/ state[w] = "IDLE")
    BY <1>0 DEF OperatorFine
<1>7. Apart'
  <2>1. ASSUME NEW s \in Sessions, NEW p \in Operators, warmOf[s] \in Sole'
        PROVE  warmOf[s] \notin opHeld'[p]
    <3>1. CASE p # o
        BY <1>0, <1>2, <2>1, <3>1 DEF Owners, Apart
    <3>2. CASE p = o
        BY <1>0, <1>5, <2>1, <3>2, IdleIsFree DEF Owners, Apart
    <3>. QED
        BY <3>1, <3>2
  <2>2. ASSUME NEW u \in Managers, NEW p \in Operators, NEW w \in opHeld'[p], w \in Sole'
        PROVE  ~Claims(u, w)
    <3>1. CASE p # o
        BY <1>0, <1>2, <2>2, <3>1 DEF Owners, Apart
    <3>2. CASE p = o
        BY <1>0, <1>5, <2>2, <3>2, IdleIsFree DEF Owners, Apart
    <3>. QED
        BY <3>1, <3>2
  <2>3. ASSUME NEW p \in Operators \ {o}, NEW w \in opHeld'[o], w \in Sole'
        PROVE  w \notin opHeld'[p]
    <3>1. w \in Sole /\ (w \in opHeld[o] \/ state[w] = "IDLE")
        BY <1>5, <2>3
    <3>2. w \notin opHeld[p]
        BY <3>1, IdleIsFree DEF Owners, Apart
    <3>. QED
        BY <1>2, <3>2
  <2>4. \A p, q \in Operators : p # q => opHeld'[p] \cap opHeld'[q] \cap Sole' = {}
    <3> SUFFICES ASSUME NEW p \in Operators, NEW q \in Operators, p # q, NEW w \in Sole',
                        w \in opHeld'[p], w \in opHeld'[q]
                 PROVE  FALSE
        OBVIOUS
    <3>1. p # o /\ q # o
        BY <2>3
    <3>. QED
        BY <1>0, <1>2, <3>1 DEF Owners, Apart
  <2>. QED
      BY <1>0, <1>3, <1>4, <2>1, <2>2, <2>4 DEF Owners, Apart
<1>8. InUse'
  <2>1. SessionSlots' /\ TaskSlots'
      BY <1>0, <1>1, <1>3 DEF SessionSlots, TaskSlots, OwnedKept, Kept, Owners, InUse
  <2>2. OperatorSlots'
      BY <1>0, <1>2 DEF OperatorSlots, OperatorFine, OwnedKept, Kept, Owners, InUse
  <2>. QED
      BY <2>1, <2>2 DEF InUse
<1>9. Unowned'
    BY DEF Unowned
<1>10. HasOwner'
  <2> SUFFICES ASSUME NEW w \in Sole', state'[w] \in Taken, w \notin opHeld'[o]
               PROVE  \/ \E s \in Sessions : warmOf[s] = w
                      \/ \E u \in Managers : Claims(u, w)
                      \/ \E p \in Operators : w \in opHeld'[p]
      BY <1>3, <1>4 DEF HasOwner
  <2>1. state[w] \in Taken /\ w \notin opHeld[o]
      BY DEF OperatorFine
  <2>. QED
      BY <1>0, <1>2, <2>1 DEF Owners, HasOwner
<1>. QED
    BY <1>6, <1>7, <1>8, <1>9, <1>10 DEF Owners

\* A step with which a task gets no slot and gives none up.
LEMMA Quiet ==
    ASSUME SInv, Owners, SInv', phase = "serving", phase' = "serving", NEW t \in Managers,
           OthersStill(t), SessionsKept, UNCHANGED <<state, handle>>,
           op[t] # "release", op'[t] = "none",
           mpc'[t] \notin {"reserving", "marking", "cancelling", "cancel"},
           mpc[t] \in Holding => hold[t] = NoSlot,
           mpc'[t] \in Holding => hold'[t] = NoSlot
    PROVE  Owners'
<1>1. OwnedKept(t)
    BY DEF OwnedKept, Kept
<1>2. TaskFine(t)
    BY SessionManagerAssumption DEF TaskFine, Sole
<1>3. ClaimsFine(t)
    BY SessionManagerAssumption DEF ClaimsFine, Claims, Sole
<1>. QED
    BY <1>1, <1>2, <1>3, TaskStep

\* The frame of a step of the manager that leaves the pool's calls alone.
LEMMA Alone ==
    ASSUME SInv, NEW t \in Managers, UNCHANGED <<op, pc, target, opHeld, intruded>>,
           \A u \in Managers \ {t} :
               mpc'[u] = mpc[u] /\ hold'[u] = hold[u] /\ inHand'[u] = inHand[u]
    PROVE  OthersStill(t) /\ op'[t] = MethodAt(mpc[t])
<1>. QED
    BY DEF OthersStill, SInv, Calls

\* ... of one that calls the pool ...
LEMMA Calling ==
    ASSUME SInv, NEW t \in Managers, UNCHANGED <<opHeld, intruded>>, NEW o \in Pool!SlotOps, NEW w \in Slots,
           (Pool!CallReserve(t, w) /\ o = "reserve") \/ Pool!Call(t, o, w),
           \A u \in Managers \ {t} :
               mpc'[u] = mpc[u] /\ hold'[u] = hold[u] /\ inHand'[u] = inHand[u]
    PROVE  /\ OthersStill(t)
           /\ op'[t] = o /\ pc'[t] = "wait" /\ target'[t] = w
           /\ UNCHANGED <<state, handle>>
<1>1. t \in Clients
    BY WhoIsWho
<1>. QED
    BY <1>1 DEF OthersStill, Pool!CallReserve, Pool!Call, Pool!slotVars, SInv, P!Sound, P!TypeOK

\* ... and of one in which its call goes on or returns.
LEMMA Stepping ==
    ASSUME SInv, Owners, phase = "serving", NEW t \in Managers, UNCHANGED <<opHeld, intruded>>, Pool!Step(t),
           \A u \in Managers \ {t} :
               mpc'[u] = mpc[u] /\ hold'[u] = hold[u] /\ inHand'[u] = inHand[u]
    PROVE  OthersStill(t) /\ OwnedKept(t)
<1>1. t \in Clients /\ P!Step(t)
    BY WhoIsWho, SamePool
<1>2. OthersStill(t)
    BY <1>1, PoolAssumed, P!StepFrame DEF OthersStill, SInv
<1>3. OwnedKept(t)
    BY WhoIsWho, OthersKept DEF Honest
<1>. QED
    BY <1>2, <1>3

-----------------------------------------------------------------------------
(* create_session *)

\* A create begins without a slot.
LEMMA OwnersCreateBegin ==
    ASSUME SInv, Owners, SInv', NEW t \in Requests, NEW s \in Sessions,
           NEW v \in BOOLEAN, NEW f \in BOOLEAN, CreateBegin(t, s, v, f)
    PROVE  Owners'
<1> USE DEF CreateBegin
<1>1. t \in Managers /\ phase' = phase
    BY WhoIsWho DEF appVars
<1>2. OthersStill(t) /\ op'[t] = "none"
    BY <1>1, Alone DEF MethodAt, Goto, SInv, TypeOK, appVars, poolVars
<1>3. mpc'[t] \in {"cold", "reserve"}
    BY <1>1 DEF Goto, SInv, TypeOK
<1>. QED
    BY <1>1, <1>2, <1>3, Quiet DEF Holding, SessionsKept, poolVars, SInv, Calls, MethodAt

\* Nobody loses a slot when a create gives up before it has one.
LEMMA OwnersAbandon ==
    ASSUME SInv, Owners, SInv', NEW t \in Requests, Abandon(t), UNCHANGED <<state, handle, appVars>>,
           mpc[t] \in Creating, mpc[t] \in Holding => hold[t] = NoSlot,
           op'[t] = "none",
           \A d \in Clients \ {t} : op'[d] = op[d] /\ pc'[d] = pc[d] /\ target'[d] = target[d]
    PROVE  Owners'
<1>1. t \in Managers /\ phase = "serving" /\ phase' = "serving"
    BY WhoIsWho, Busy DEF Creating, appVars
<1>2. OthersStill(t) /\ mpc'[t] = "idle"
    BY <1>1, WhoIsWho DEF OthersStill, Abandon, Leave, SInv, TypeOK, appVars
<1>. QED
    BY <1>1, <1>2, Quiet
    DEF Abandon, SessionsKept, Holding, SInv, Calls, MethodAt, Creating

\* Without a warm slot a hybrid runner launches a browser, a warm-only one gives up.
LEMMA OwnersFallBack ==
    ASSUME SInv, Owners, SInv', NEW t \in Requests, NoWarmSlot(t),
           UNCHANGED <<state, handle, appVars>>,
           mpc[t] \in {"reserve", "reserving"}, op'[t] = "none",
           \A d \in Clients \ {t} : op'[d] = op[d] /\ pc'[d] = pc[d] /\ target'[d] = target[d]
    PROVE  Owners'
<1>1. CASE Abandon(t)
    BY <1>1, OwnersAbandon DEF Creating, Holding
<1>2. CASE Goto(t, "cold") /\ UNCHANGED <<sessionVars, mlock, cur, hold, inHand, expired>>
  <2>1. t \in Managers /\ phase = "serving" /\ phase' = "serving"
      BY WhoIsWho, Busy DEF appVars
  <2>2. OthersStill(t) /\ mpc'[t] = "cold"
      BY <1>2, <2>1 DEF OthersStill, Goto, SInv, TypeOK, appVars
  <2>. QED
      BY <1>2, <2>1, <2>2, Quiet DEF SessionsKept, Holding, SInv, Calls, MethodAt, sessionVars
<1>. QED
    BY <1>1, <1>2 DEF NoWarmSlot

\* A create asks for a slot that was idle a moment ago, or is refused.
LEMMA OwnersCreateReserve ==
    ASSUME SInv, Owners, SInv', NEW t \in Requests, CreateReserve(t)
    PROVE  Owners'
<1>1. /\ t \in Managers /\ mpc[t] = "reserve" /\ phase = "serving" /\ phase' = "serving"
      /\ op[t] = "none"
    BY WhoIsWho, Busy DEF CreateReserve, appVars, SInv, Calls, MethodAt
<1>2. ASSUME NEW w \in Slots, Pool!CallReserve(t, w), Goto(t, "reserving"),
             hold' = [hold EXCEPT ![t] = w],
             UNCHANGED <<sessionVars, mlock, cur, inHand, expired, appVars>>
      PROVE  Owners'
  <2>1. mpc'[t] = "reserving" /\ hold'[t] = w
      BY <1>1, <1>2 DEF Goto, SInv, TypeOK
  <2>2. /\ OthersStill(t) /\ op'[t] = "reserve" /\ pc'[t] = "wait" /\ target'[t] = w
        /\ UNCHANGED <<state, handle>>
    <3>1. "reserve" \in Pool!SlotOps
        BY DEF Pool!SlotOps, Pool!Switches
    <3>. QED
        BY <1>1, <1>2, <3>1, Calling DEF Goto, appVars, SInv, TypeOK
  <2>3. OwnedKept(t) /\ SessionsKept
      BY <1>2, <2>2 DEF OwnedKept, Kept, SessionsKept, sessionVars
  <2>4. TaskFine(t) /\ ClaimsFine(t)
      BY <1>1, <2>1, <2>2 DEF TaskFine, ClaimsFine, Claims, Holding
  <2>. QED
      BY <1>1, <2>2, <2>3, <2>4, TaskStep
<1>3. ASSUME NoWarmSlot(t), UNCHANGED poolVars PROVE Owners'
    BY <1>1, <1>3, OwnersFallBack DEF poolVars, CreateReserve
<1>. QED
    BY <1>2, <1>3 DEF CreateReserve

\* The slot was free and is now the task's.
LEMMA OwnersCreateReserved ==
    ASSUME SInv, Owners, SInv', NEW t \in Requests, CreateReserved(t)
    PROVE  Owners'
<1>1. /\ t \in Managers /\ t \in Clients /\ phase = "serving" /\ phase' = "serving"
      /\ mpc[t] = "reserving" /\ op[t] = "reserve" /\ target[t] = hold[t]
    BY WhoIsWho, Busy DEF CreateReserved, appVars, SInv, Calls, MethodAt, Owners, Targets
<1>2. ASSUME Pool!Switch(t), inHand' = [inHand EXCEPT ![t] = handle[hold[t]]],
             Goto(t, "build"), UNCHANGED <<sessionVars, mlock, cur, hold, expired, appVars>>
      PROVE  Owners'
  <2>1. /\ mpc'[t] = "build" /\ inHand'[t] = handle[hold[t]] /\ hold'[t] = hold[t]
      BY <1>1, <1>2 DEF Goto, SInv, TypeOK
  <2>2. OthersStill(t) /\ OwnedKept(t)
      BY <1>1, <1>2, Stepping DEF Goto, appVars, SInv, TypeOK, Pool!Step
  <2>3. /\ hold[t] \in Slots /\ state[hold[t]] = "IDLE" /\ op'[t] = "none"
        /\ state' = [state EXCEPT ![hold[t]] = "RESERVED"] /\ handle' = handle
      BY <1>1, <1>2 DEF Pool!Switch, Pool!Accepted, Pool!Accepts, Pool!SetsState, Pool!Return,
          SInv, TypeOK, Hands, P!Sound, P!TypeOK
  <2>4. SessionsKept
      BY <1>2 DEF SessionsKept, sessionVars
  <2>5. state \in [Slots -> P!States]
      BY DEF SInv, P!Sound, P!TypeOK
  <2>6. TaskFine(t)
      BY <2>1, <2>3, <2>5 DEF TaskFine
  <2>7. ClaimsFine(t)
      BY <1>1, <2>1, <2>3, <2>5 DEF ClaimsFine, Claims, Holding, Taken, Sole
  <2>. QED
      BY <1>1, <2>2, <2>4, <2>6, <2>7, TaskStep
<1>3. ASSUME Pool!Refuse(t), NoWarmSlot(t) PROVE Owners'
  <2>1. /\ UNCHANGED <<state, handle>> /\ op'[t] = "none"
        /\ \A d \in Clients \ {t} : op'[d] = op[d] /\ pc'[d] = pc[d] /\ target'[d] = target[d]
      BY <1>1, <1>3 DEF Pool!Refuse, Pool!Return, Pool!slotVars, SInv, P!Sound, P!TypeOK
  <2>. QED
      BY <1>1, <1>3, <2>1, OwnersFallBack DEF CreateReserved
<1>. QED
    BY <1>2, <1>3 DEF CreateReserved

\* A browser launched for a session is no slot's.
LEMMA OwnersCreateCold ==
    ASSUME SInv, Owners, SInv', NEW t \in Requests, CreateCold(t)
    PROVE  Owners'
<1>1. /\ t \in Managers /\ mpc[t] = "cold" /\ phase = "serving" /\ phase' = "serving"
      /\ op[t] = "none" /\ UNCHANGED <<state, handle, op, pc, target, appVars>>
    BY WhoIsWho, Busy DEF CreateCold, appVars, SInv, Calls, MethodAt
<1>2. ASSUME NEW b \in Pool!Fresh, inHand' = [inHand EXCEPT ![t] = b],
             hold' = [hold EXCEPT ![t] = NoSlot], Goto(t, "build"),
             UNCHANGED <<sessionVars, mlock, cur, expired>>
      PROVE  Owners'
  <2>1. mpc'[t] = "build" /\ hold'[t] = NoSlot
      BY <1>1, <1>2 DEF Goto, SInv, TypeOK
  <2>2. OthersStill(t) /\ op'[t] = "none"
      BY <1>1, <1>2, Alone DEF MethodAt, Goto, SInv, TypeOK, appVars
  <2>. QED
      BY <1>1, <1>2, <2>1, <2>2, Quiet DEF SessionsKept, sessionVars, Holding
<1>3. ASSUME Abandon(t) PROVE Owners'
    BY <1>1, <1>3, OwnersAbandon DEF Creating, Holding
<1>. QED
    BY <1>2, <1>3 DEF CreateCold, Abandon, sessionVars

\* The task goes on to mark the slot it has reserved, or to cancel the reservation.
LEMMA CallsAbout ==
    ASSUME SInv, Owners, SInv', NEW t \in Managers, phase = "serving", phase' = "serving",
           mpc[t] \in {"build", "cancel"}, op[t] = "none", hold[t] # NoSlot,
           NEW o \in {"busy", "cancel"}, Pool!Call(t, o, hold[t]),
           Goto(t, IF o = "busy" THEN "marking" ELSE "cancelling"),
           UNCHANGED <<sessionVars, hold, inHand, appVars>>
    PROVE  Owners'
<1>1. /\ mpc'[t] \in {"marking", "cancelling"} /\ hold'[t] = hold[t]
      /\ inHand'[t] = inHand[t] /\ hold[t] \in Slots
    BY DEF Goto, SInv, TypeOK
<1>2. /\ OthersStill(t) /\ op'[t] = o /\ pc'[t] = "wait" /\ target'[t] = hold[t]
      /\ UNCHANGED <<state, handle>>
  <2>1. o \in Pool!SlotOps
      BY DEF Pool!SlotOps, Pool!Switches
  <2>. QED
      BY <1>1, <2>1, Calling DEF Goto, appVars, SInv, TypeOK
<1>3. OwnedKept(t) /\ SessionsKept /\ Sole' = Sole
    BY <1>2 DEF OwnedKept, Kept, SessionsKept, sessionVars, Sole, appVars
<1>4. TaskFine(t)
    BY <1>1, <1>2, <1>3 DEF TaskFine, Owners, InUse, TaskSlots, Holding
<1>5. ClaimsFine(t)
    BY <1>1, <1>2, <1>3 DEF ClaimsFine, Claims, Holding
<1>. QED
    BY <1>2, <1>3, <1>4, <1>5, TaskStep

\* The session is built: a warm slot is marked, or its reservation cancelled.
LEMMA OwnersCreateBuild ==
    ASSUME SInv, Owners, SInv', NEW t \in Requests, CreateBuild(t)
    PROVE  Owners'
<1>1. /\ t \in Managers /\ mpc[t] = "build" /\ phase = "serving" /\ phase' = "serving"
      /\ op[t] = "none" /\ UNCHANGED appVars
    BY WhoIsWho, Busy DEF CreateBuild, appVars, SInv, Calls, MethodAt
<1>3. ASSUME hold[t] = NoSlot, Abandon(t), UNCHANGED <<state, handle, op, pc, target>>
      PROVE  Owners'
    BY <1>1, <1>3, OwnersAbandon DEF Creating
<1>4. ASSUME hold[t] # NoSlot, NEW o \in {"busy", "cancel"}, Pool!Call(t, o, hold[t]),
             Goto(t, IF o = "busy" THEN "marking" ELSE "cancelling"),
             UNCHANGED <<sessionVars, mlock, cur, hold, inHand, expired>>
      PROVE  Owners'
    BY <1>1, <1>4, CallsAbout
<1>. QED
    BY <1>3, <1>4 DEF CreateBuild

\* A slot that cannot be marked is not the task's alone any more ...
LEMMA OwnersCreateNotMarked ==
    ASSUME SInv, Owners, SInv', NEW t \in Requests, CreateNotMarked(t)
    PROVE  Owners'
<1>1. /\ t \in Managers /\ t \in Clients /\ phase = "serving" /\ phase' = "serving"
      /\ mpc[t] = "marking" /\ op[t] = "busy" /\ target[t] = hold[t]
      /\ UNCHANGED <<opHeld, intruded>>
    BY WhoIsWho, Busy DEF CreateNotMarked, appVars, SInv, Calls, MethodAt, Owners, Targets
<1>2. hold[t] \notin Sole
    BY <1>1 DEF CreateNotMarked, Pool!Refuse, Pool!Accepted, Pool!Accepts, Owners, InUse,
        TaskSlots, Holding
<1>3. mpc'[t] = "cancel" /\ hold'[t] = hold[t] /\ Sole' = Sole
    BY <1>1 DEF CreateNotMarked, Goto, SInv, TypeOK, Sole
<1>4. OthersStill(t) /\ OwnedKept(t)
    BY <1>1, Stepping DEF CreateNotMarked, Goto, SInv, TypeOK, Pool!Step
<1>5. op'[t] = "none" /\ UNCHANGED <<state, handle>>
    BY <1>1 DEF CreateNotMarked, Pool!Refuse, Pool!Return, Pool!slotVars, SInv, P!Sound, P!TypeOK
<1>6. SessionsKept
    BY DEF CreateNotMarked, SessionsKept, sessionVars
<1>7. TaskFine(t)
    BY <1>2, <1>3, <1>5 DEF TaskFine
<1>8. ClaimsFine(t)
    BY <1>1, <1>2, <1>3, <1>5 DEF ClaimsFine, Claims, Holding
<1>. QED
    BY <1>1, <1>4, <1>6, <1>7, <1>8, TaskStep

\* ... and the reservation is cancelled.
LEMMA OwnersCreateCancel ==
    ASSUME SInv, Owners, SInv', NEW t \in Requests, CreateCancel(t)
    PROVE  Owners'
<1>1. /\ t \in Managers /\ mpc[t] = "cancel" /\ phase = "serving" /\ phase' = "serving"
      /\ op[t] = "none" /\ hold[t] # NoSlot
    BY WhoIsWho, Busy DEF CreateCancel, appVars, SInv, Calls, MethodAt, Hands
<1>. QED
    BY <1>1, CallsAbout DEF CreateCancel

\* The reservation is cancelled, or was no longer the task's.
LEMMA OwnersCreateCancelled ==
    ASSUME SInv, Owners, SInv', NEW t \in Requests, CreateCancelled(t)
    PROVE  Owners'
<1>1. /\ t \in Managers /\ t \in Clients /\ phase = "serving" /\ phase' = "serving"
      /\ mpc[t] = "cancelling" /\ op[t] = "cancel" /\ target[t] = hold[t]
      /\ hold[t] \in Slots /\ UNCHANGED <<opHeld, intruded>>
    BY WhoIsWho, Busy DEF CreateCancelled, appVars, SInv, Calls, MethodAt, Owners, Targets,
        TypeOK, Hands
<1>2. mpc'[t] = "idle" /\ Sole' = Sole
    BY <1>1, WhoIsWho DEF CreateCancelled, Abandon, Leave, SInv, TypeOK, Sole
<1>3. OthersStill(t) /\ OwnedKept(t)
    BY <1>1, Stepping DEF CreateCancelled, Abandon, Leave, SInv, TypeOK, Pool!Step
<1>4. SessionsKept
    BY DEF CreateCancelled, Abandon, SessionsKept
<1>5. CASE Pool!Switch(t)
  <2>1. /\ op'[t] = "none"
        /\ state' = [state EXCEPT ![hold[t]] = "IDLE"] /\ state \in [Slots -> P!States]
      BY <1>1, <1>5 DEF Pool!Switch, Pool!SetsState, Pool!Return, Pool!Recycles, SInv, P!Sound,
          P!TypeOK
  <2>2. TaskFine(t)
      BY <1>2, <2>1 DEF TaskFine, Holding
  <2>3. ClaimsFine(t)
      BY <1>1, <1>2, <2>1 DEF ClaimsFine, Claims, Holding, Taken, Sole
  <2>. QED
      BY <1>1, <1>3, <1>4, <2>2, <2>3, TaskStep
<1>6. CASE Pool!Refuse(t)
  <2>1. op'[t] = "none" /\ state' = state
      BY <1>1, <1>6 DEF Pool!Refuse, Pool!Return, Pool!slotVars, SInv, P!Sound, P!TypeOK
  <2>2. hold[t] \notin Sole
      BY <1>1, <1>6 DEF Pool!Refuse, Pool!Accepted, Pool!Accepts, Owners, InUse, TaskSlots, Holding
  <2>3. TaskFine(t)
      BY <1>2, <2>1 DEF TaskFine, Holding
  <2>4. ClaimsFine(t)
      BY <1>1, <1>2, <2>1, <2>2 DEF ClaimsFine, Claims, Holding
  <2>. QED
      BY <1>1, <1>3, <1>4, <2>3, <2>4, TaskStep
<1>. QED
    BY <1>5, <1>6 DEF CreateCancelled

\* The slot passes from the task that reserved it to the session it stores.
LEMMA Handover ==
    ASSUME SInv, Owners, SInv', phase = "serving", phase' = "serving", NEW t \in Requests,
           NEW x \in Sessions, Pool!Switch(t), UNCHANGED <<opHeld, intruded>>,
           \A u \in Managers \ {t} :
               mpc'[u] = mpc[u] /\ hold'[u] = hold[u] /\ inHand'[u] = inHand[u],
           mpc[t] = "marking", mpc'[t] = "created", warmOf[x] = NoSlot,
           warmOf' = [warmOf EXCEPT ![x] = hold[t]],
           browserOf' = [browserOf EXCEPT ![x] = inHand[t]]
    PROVE  Owners'
<1>0. Sole' = Sole /\ Sole \subseteq Slots /\ NoSlot \notin Sole
    BY SessionManagerAssumption DEF Sole
<1>1. /\ t \in Managers /\ t \in Clients /\ op[t] = "busy" /\ target[t] = hold[t]
      /\ hold[t] \in Slots /\ hold[t] # NoSlot /\ Claims(t, hold[t])
      /\ hold[t] \in Sole => inHand[t] = handle[hold[t]]
    BY WhoIsWho DEF SInv, TypeOK, Hands, Calls, MethodAt, Claims, Holding, Owners, Targets, InUse,
        TaskSlots
<1>2. /\ warmOf'[x] = hold[t] /\ browserOf'[x] = inHand[t]
      /\ \A s \in Sessions \ {x} : warmOf'[s] = warmOf[s] /\ browserOf'[s] = browserOf[s]
    BY DEF SInv, TypeOK
<1>3. OthersStill(t) /\ OwnedKept(t)
    BY <1>1, Stepping DEF Pool!Step
<1>4. /\ op'[t] = "none" /\ handle' = handle /\ state[hold[t]] = "RESERVED"
      /\ state' = [state EXCEPT ![hold[t]] = "BUSY"] /\ state \in [Slots -> P!States]
    BY <1>1 DEF Pool!Switch, Pool!SetsState, Pool!Return, Pool!Accepted, Pool!Accepts, SInv,
        P!Sound, P!TypeOK
<1>5. /\ \A u \in Managers \ {t} :
            /\ op'[u] = op[u] /\ pc'[u] = pc[u] /\ target'[u] = target[u]
            /\ mpc'[u] = mpc[u] /\ hold'[u] = hold[u] /\ inHand'[u] = inHand[u]
      /\ \A o \in Operators :
            opHeld'[o] = opHeld[o] /\ op'[o] = op[o] /\ pc'[o] = pc[o] /\ target'[o] = target[o]
    BY <1>3, WhoIsWho DEF OthersStill
<1>6. \A w \in Slots :
          /\ \A u \in Managers : ~Claims(u, w)'
          /\ \A u \in Managers : Claims(u, w) => u = t /\ w = hold[t]
  <2>1. mlock = t /\ \A u \in Managers \ {t} : mpc[u] \in {"idle", "sweep"} /\ op[u] = "none"
      BY <1>1 DEF SInv, Tasks, Calls, MethodAt
  <2>. QED
      BY <1>1, <1>4, <1>5, <2>1 DEF Claims, Holding
<1>7. Targets'
    BY <1>5 DEF Targets, Owners
<1>8. Apart'
  <2>1. \A s \in Sessions \ {x} : hold[t] \in Sole => warmOf[s] # hold[t]
      BY <1>1 DEF Owners, Apart
  <2>2. \A s, y \in Sessions : warmOf'[s] \in Sole /\ warmOf'[s] = warmOf'[y] => s = y
      BY <1>2, <2>1 DEF Owners, Apart
  <2>3. \A s \in Sessions, u \in Managers : warmOf'[s] \in Sole => ~Claims(u, warmOf[s])'
    <3> SUFFICES ASSUME NEW s \in Sessions, NEW u \in Managers, NEW w \in Sole,
                        warmOf'[s] = w
                 PROVE  ~Claims(u, warmOf[s])'
        OBVIOUS
    <3>. QED
        BY <1>0, <1>6 DEF Claims
  <2>4. \A s \in Sessions, o \in Operators : warmOf'[s] \in Sole => warmOf'[s] \notin opHeld[o]
      BY <1>1, <1>2 DEF Owners, Apart
  <2>5. \A u \in Managers, o \in Operators : \A w \in opHeld[o] : w \in Sole => ~Claims(u, w)'
      BY <1>0, <1>6
  <2>. QED
      BY <1>0, <2>2, <2>3, <2>4, <2>5 DEF Owners, Apart
<1>9. InUse'
  <2>1. SessionSlots'
    <3> SUFFICES ASSUME NEW s \in Sessions, warmOf'[s] \in Sole
                 PROVE  /\ state'[warmOf'[s]] = "BUSY"
                        /\ browserOf'[s] \in {NoBrowser, handle[warmOf'[s]]}
        BY <1>0, <1>4 DEF SessionSlots
    <3>1. CASE s = x
        BY <1>1, <1>2, <1>4, <3>1
    <3>2. CASE s # x
        BY <1>0, <1>2, <1>3, <3>2 DEF OwnedKept, Kept, SessionSlots, Owners, InUse
    <3>. QED
        BY <3>1, <3>2
  <2>2. TaskSlots'
      BY <1>0, <1>3, <1>4, <1>5 DEF TaskSlots, OwnedKept, Kept, Holding, Owners, InUse
  <2>3. OperatorSlots'
    <3>1. \A o \in Operators : o # t
        BY WhoIsWho
    <3>. QED
        BY <1>0, <1>3, <1>5, <3>1 DEF OperatorSlots, OwnedKept, Kept, Owners, InUse
  <2>. QED
      BY <2>1, <2>2, <2>3 DEF InUse
<1>10. Unowned'
    BY DEF Unowned
<1>11. HasOwner'
  <2> SUFFICES ASSUME NEW w \in Sole, state'[w] \in Taken
               PROVE  \/ \E s \in Sessions : warmOf'[s] = w
                      \/ \E u \in Managers : Claims(u, w)'
                      \/ \E o \in Operators : w \in opHeld[o]
      BY <1>0 DEF HasOwner
  <2>1. CASE w = hold[t]
      BY <1>2, <2>1
  <2>2. CASE w # hold[t]
    <3>1. state[w] \in Taken
        BY <1>0, <1>4, <2>2
    <3>2. \A s \in Sessions : warmOf[s] = w => warmOf'[s] = w
        BY <1>0, <1>2
    <3>. QED
        BY <1>0, <1>6, <2>2, <3>1, <3>2 DEF Owners, HasOwner
  <2>. QED
      BY <2>1, <2>2
<1>. QED
    BY <1>7, <1>8, <1>9, <1>10, <1>11 DEF Owners

\* A session is stored, with the slot reserved for it or without one.
LEMMA OwnersCreateStore ==
    ASSUME SInv, Owners, SInv', NEW t \in Requests, NEW st \in {"LIVE", "DEAD"},
           CreateStore(t, st)
    PROVE  Owners'
<1>1. /\ t \in Managers /\ mpc[t] \in {"build", "marking"} /\ phase = "serving"
      /\ phase' = "serving" /\ UNCHANGED <<opHeld, intruded>>
    BY WhoIsWho, Busy DEF CreateStore, appVars
<1>2. cur[t] \in Sessions /\ warmOf[cur[t]] = NoSlot
  <2>1. cur[t] \in Sessions /\ status[cur[t]] = "none"
      BY <1>1 DEF SInv, Tasks, Doing, Creating
  <2>. QED
      BY <2>1 DEF SInv, Stored
<1>3. /\ mpc'[t] = "created" /\ hold'[t] = NoSlot
      /\ \A u \in Managers \ {t} :
            mpc'[u] = mpc[u] /\ hold'[u] = hold[u] /\ inHand'[u] = inHand[u]
    BY <1>1 DEF CreateStore, Goto, SInv, TypeOK
<1>4. CASE mpc[t] = "marking" /\ Pool!Switch(t)
    BY <1>1, <1>2, <1>3, <1>4, Handover DEF CreateStore
<1>5. CASE mpc[t] = "build" /\ hold[t] = NoSlot /\ UNCHANGED poolVars
  <2>1. OthersStill(t) /\ op'[t] = "none" /\ op[t] = "none"
      BY <1>1, <1>3, <1>5, Alone DEF MethodAt, poolVars, SInv, Calls
  <2>2. SessionsKept
    <3>1. warmOf' = warmOf
        BY <1>2, <1>5 DEF CreateStore, SInv, TypeOK
    <3>. QED
        BY <1>2, <3>1 DEF CreateStore, SessionsKept, SInv, TypeOK
  <2>. QED
      BY <1>1, <1>3, <1>5, <2>1, <2>2, Quiet DEF Holding, poolVars
<1>. QED
    BY <1>4, <1>5 DEF CreateStore

\* The slot passes from the session to the call that releases it.
LEMMA GivesBack ==
    ASSUME SInv, Owners, SInv', NEW t \in Managers, NEW x \in Sessions,
           mpc[t] \in {"created", "release"}, mpc'[t] \in {"undoing", "releasing"},
           warmOf[x] # NoSlot, warmOf' = [warmOf EXCEPT ![x] = NoSlot],
           Pool!Call(t, "release", warmOf[x]),
           browserOf' \in {browserOf, [browserOf EXCEPT ![x] = NoBrowser]},
           UNCHANGED <<phase, opHeld, intruded, mlock, hold, inHand>>,
           \A u \in Managers \ {t} : mpc'[u] = mpc[u]
    PROVE  Owners'
<1>1. /\ phase = "serving" /\ phase' = "serving" /\ op[t] = "none"
      /\ warmOf[x] \in Slots /\ mlock = t
      /\ warmOf[x] \in Sole => state[warmOf[x]] = "BUSY"
    BY Busy DEF SInv, TypeOK, Calls, MethodAt, Tasks, Owners, InUse, SessionSlots
<1>0. Sole' = Sole /\ Sole \subseteq Slots /\ NoSlot \notin Sole
    BY SessionManagerAssumption DEF Sole
<1>2. PICK w \in Slots : w = warmOf[x]
    BY <1>1
<1>3. /\ OthersStill(t)
      /\ op'[t] = "release" /\ pc'[t] = "wait" /\ target'[t] = w
      /\ UNCHANGED <<state, handle>>
  <2>1. "release" \in Pool!SlotOps
      BY DEF Pool!SlotOps, Pool!Recycles
  <2>. QED
      BY <1>2, <2>1, Calling
<1>4. /\ \A u \in Managers \ {t} :
            /\ op'[u] = op[u] /\ pc'[u] = pc[u] /\ target'[u] = target[u]
            /\ mpc'[u] = mpc[u] /\ hold'[u] = hold[u] /\ inHand'[u] = inHand[u]
      /\ \A o \in Operators :
            opHeld'[o] = opHeld[o] /\ op'[o] = op[o] /\ pc'[o] = pc[o] /\ target'[o] = target[o]
    BY <1>3, WhoIsWho DEF OthersStill
<1>5. /\ warmOf'[x] = NoSlot
      /\ \A s \in Sessions \ {x} : warmOf'[s] = warmOf[s] /\ browserOf'[s] = browserOf[s]
    BY DEF SInv, TypeOK
<1>6. \A v \in Slots :
          /\ Claims(t, v)' <=> v = w
          /\ ~Claims(t, v)
          /\ \A u \in Managers \ {t} : (Claims(u, v)' <=> Claims(u, v)) /\ ~Claims(u, v)
  <2>1. \A v \in Slots : (Claims(t, v)' <=> v = w) /\ ~Claims(t, v)
      BY <1>1, <1>3 DEF Claims, Holding
  <2>2. ASSUME NEW u \in Managers \ {t} PROVE mpc[u] \in {"idle", "sweep"} /\ op[u] = "none"
      BY <1>1 DEF SInv, Tasks, Calls, MethodAt
  <2>3. \A u \in Managers \ {t}, v \in Slots : (Claims(u, v)' <=> Claims(u, v)) /\ ~Claims(u, v)
      BY <1>4, <2>2 DEF Claims, Holding
  <2>. QED
      BY <2>1, <2>3
<1>7. Targets'
    BY <1>3, <1>4 DEF Targets, Owners
<1>8. Apart'
  <2>1. ASSUME NEW s \in Sessions, NEW u \in Managers, NEW v \in Sole, warmOf'[s] = v
        PROVE  ~Claims(u, v)'
    <3>1. s # x /\ warmOf[s] = v /\ v # w
        BY <1>0, <1>2, <1>5, <2>1 DEF Owners, Apart
    <3>. QED
        BY <1>0, <1>6, <3>1
  <2>2. \A s \in Sessions, u \in Managers : warmOf'[s] \in Sole => ~Claims(u, warmOf[s])'
    <3> SUFFICES ASSUME NEW s \in Sessions, NEW u \in Managers, NEW v \in Sole,
                        warmOf'[s] = v
                 PROVE  ~Claims(u, warmOf[s])'
        OBVIOUS
    <3>. QED
        BY <2>1 DEF Claims
  <2>3. ASSUME NEW u \in Managers, NEW o \in Operators, NEW v \in opHeld[o], v \in Sole
        PROVE  ~Claims(u, v)'
    <3>1. v # w
        BY <1>2, <2>3 DEF Owners, Apart
    <3>. QED
        BY <1>0, <1>6, <2>3, <3>1
  <2>4. /\ \A s, y \in Sessions : warmOf'[s] \in Sole /\ warmOf'[s] = warmOf'[y] => s = y
        /\ \A s \in Sessions, o \in Operators : warmOf'[s] \in Sole => warmOf'[s] \notin opHeld[o]
      BY <1>0, <1>5 DEF Owners, Apart
  <2>. QED
      BY <1>0, <2>2, <2>3, <2>4 DEF Owners, Apart
<1>9. InUse'
  <2>1. SessionSlots'
      BY <1>0, <1>1, <1>3, <1>5 DEF SessionSlots, Owners, InUse
  <2>2. TaskSlots'
      BY <1>0, <1>1, <1>2, <1>3, <1>4 DEF TaskSlots, Holding, Taken, Owners, InUse
  <2>3. OperatorSlots'
      BY <1>0, <1>1, <1>3, <1>4 DEF OperatorSlots, Owners, InUse
  <2>. QED
      BY <2>1, <2>2, <2>3 DEF InUse
<1>10. Unowned'
    BY <1>1 DEF Unowned
<1>11. HasOwner'
  <2> SUFFICES ASSUME NEW v \in Sole, state[v] \in Taken
               PROVE  \/ \E s \in Sessions : warmOf'[s] = v
                      \/ \E u \in Managers : Claims(u, v)'
                      \/ \E o \in Operators : v \in opHeld[o]
      BY <1>0, <1>3 DEF HasOwner
  <2>1. CASE v = w
      BY <1>6, <2>1
  <2>2. CASE v # w
      BY <1>0, <1>2, <1>5, <1>6, <2>2 DEF Owners, HasOwner
  <2>. QED
      BY <2>1, <2>2
<1>. QED
    BY <1>7, <1>8, <1>9, <1>10, <1>11 DEF Owners

\* The event is published and the lock given back.
LEMMA OwnersPublishCreated ==
    ASSUME SInv, Owners, SInv', NEW t \in Requests, PublishCreated(t)
    PROVE  Owners'
<1>1. /\ t \in Managers /\ mpc[t] = "created" /\ phase = "serving" /\ phase' = "serving"
    BY WhoIsWho, Busy DEF PublishCreated, appVars
<1>2. OthersStill(t) /\ op'[t] = "none"
    BY <1>1, Alone DEF PublishCreated, Leave, MethodAt, SInv, TypeOK, poolVars, appVars
<1>3. mpc'[t] = "idle"
    BY <1>1, WhoIsWho DEF PublishCreated, Leave, SInv, TypeOK
<1>. QED
    BY <1>1, <1>2, <1>3, Quiet
    DEF PublishCreated, SessionsKept, Holding, poolVars, SInv, Calls, MethodAt

\* The rollback of a warm session gives its slot back; a cold one has none.
LEMMA OwnersPublishCreatedFails ==
    ASSUME SInv, Owners, SInv', NEW t \in Requests, PublishCreatedFails(t)
    PROVE  Owners'
<1>1. /\ t \in Managers /\ mpc[t] = "created" /\ phase = "serving" /\ phase' = "serving"
      /\ UNCHANGED <<opHeld, intruded>>
    BY WhoIsWho, Busy DEF PublishCreatedFails, appVars
<1>2. cur[t] \in Sessions
    BY <1>1 DEF SInv, Tasks
<1>3. CASE warmOf[cur[t]] # NoSlot /\ Pool!Call(t, "release", warmOf[cur[t]])
           /\ Goto(t, "undoing") /\ UNCHANGED <<mlock, cur, hold, inHand>>
  <2>1. /\ mpc'[t] = "undoing" /\ \A u \in Managers \ {t} : mpc'[u] = mpc[u]
      BY <1>1, <1>3 DEF Goto, SInv, TypeOK
  <2>. QED
      BY <1>1, <1>2, <1>3, <2>1, GivesBack DEF PublishCreatedFails
<1>4. CASE warmOf[cur[t]] = NoSlot /\ Leave(t)
           /\ UNCHANGED <<state, handle, op, pc, target>>
  <2>1. OthersStill(t) /\ op'[t] = "none"
      BY <1>1, <1>4, Alone DEF Leave, MethodAt, SInv, TypeOK
  <2>2. mpc'[t] = "idle"
      BY <1>1, <1>4, WhoIsWho DEF Leave, SInv, TypeOK
  <2>3. SessionsKept
      BY <1>2, <1>4 DEF PublishCreatedFails, SessionsKept, SInv, TypeOK
  <2>. QED
      BY <1>1, <1>4, <2>1, <2>2, <2>3, Quiet DEF Holding, SInv, Calls, MethodAt
<1>. QED
    BY <1>3, <1>4 DEF PublishCreatedFails

-----------------------------------------------------------------------------
(* The release of a slot, by a rollback or an update. *)

\* _release_warm_slot forgets the session's slot and asks for its recycling.
LEMMA OwnersUpdateRelease ==
    ASSUME SInv, Owners, SInv', NEW t \in Managers, UpdateRelease(t)
    PROVE  Owners'
<1>1. cur[t] \in Sessions /\ warmOf[cur[t]] # NoSlot
    BY DEF UpdateRelease, SInv, Tasks, Doing
<1>2. mpc'[t] = "releasing" /\ \A u \in Managers \ {t} : mpc'[u] = mpc[u]
    BY DEF UpdateRelease, Goto, SInv, TypeOK
<1>. QED
    BY <1>1, <1>2, GivesBack DEF UpdateRelease, appVars

\* A release that returns has recycled the slot: only this call could change it.
LEMMA OwnersReleased ==
    ASSUME SInv, Owners, SInv', NEW t \in Managers, mpc[t] \in {"undoing", "releasing"},
           Pool!Step(t), op'[t] = "none",
           mpc'[t] \in {"idle", "sweep", "publish"},
           \A u \in Managers \ {t} :
               mpc'[u] = mpc[u] /\ hold'[u] = hold[u] /\ inHand'[u] = inHand[u],
           UNCHANGED <<sessionVars, phase, opHeld, intruded>>
    PROVE  Owners'
<1>1. /\ t \in Clients /\ op[t] = "release" /\ phase = "serving" /\ phase' = "serving"
    BY WhoIsWho, Busy DEF SInv, Calls, MethodAt
<1>2. OthersStill(t) /\ OwnedKept(t)
    BY <1>1, Stepping
<1>3. SessionsKept
    BY DEF SessionsKept, sessionVars
<1>4. TaskFine(t)
    BY DEF TaskFine, Holding
<1>5. target[t] \in Sole => state'[target[t]] \notin Taken
  <2>1. target[t] \in Sole /\ pc[t] = "wait" => Pool!Accepted(t)
      BY <1>1 DEF Pool!Accepted, Pool!Accepts, Taken, Owners, InUse, TaskSlots
  <2>. QED
      BY <1>1, <2>1, Returns DEF SInv
<1>6. ASSUME NEW w \in Slots, state'[w] \in Taken PROVE state[w] \in Taken
    BY <1>1, <1>6, NewlyTaken DEF SInv
<1>7. ClaimsFine(t)
    BY <1>5, <1>6 DEF ClaimsFine, Claims, Holding, Sole
<1>. QED
    BY <1>1, <1>2, <1>3, <1>4, <1>7, TaskStep

\* The rollback's release has returned ...
LEMMA OwnersCreateUndone ==
    ASSUME SInv, Owners, SInv', NEW t \in Requests, CreateUndone(t)
    PROVE  Owners'
<1>1. /\ t \in Managers /\ mpc[t] = "undoing" /\ mpc'[t] = "idle"
      /\ \A u \in Managers \ {t} :
            mpc'[u] = mpc[u] /\ hold'[u] = hold[u] /\ inHand'[u] = inHand[u]
    BY WhoIsWho DEF CreateUndone, Leave, SInv, TypeOK
<1>. QED
    BY <1>1, OwnersReleased DEF CreateUndone, appVars

\* ... or the update's, which may raise.
LEMMA OwnersUpdateReleased ==
    ASSUME SInv, Owners, SInv', NEW t \in Managers, UpdateReleased(t)
    PROVE  Owners'
<1>1. /\ t \in Clients /\ mpc[t] = "releasing" /\ Pool!Step(t)
      /\ op[t] = "release"
    BY WhoIsWho DEF UpdateReleased, Pool!Step, SInv, Calls, MethodAt
<1>2. op'[t] = "none"
    BY <1>1, WhoIsWho, PoolReturned DEF UpdateReleased, SInv, Moves
<1>3. /\ mpc'[t] \in {"idle", "sweep", "publish"}
      /\ \A u \in Managers \ {t} :
            mpc'[u] = mpc[u] /\ hold'[u] = hold[u] /\ inHand'[u] = inHand[u]
    BY DEF UpdateReleased, Goto, Raise, Leave, SInv, TypeOK
<1>. QED
    BY <1>1, <1>2, <1>3, OwnersReleased DEF UpdateReleased

-----------------------------------------------------------------------------
(* update_session and the reaper. *)

\* An update's event is published, or is not.
LEMMA OwnersPublishUpdate ==
    ASSUME SInv, Owners, SInv', NEW t \in Managers, PublishUpdate(t) \/ PublishUpdateFails(t)
    PROVE  Owners'
<1>1. /\ mpc[t] = "publish" /\ phase = "serving" /\ phase' = "serving"
    BY Busy DEF PublishUpdate, PublishUpdateFails, appVars
<1>2. OthersStill(t) /\ op'[t] = "none"
    BY <1>1, Alone DEF PublishUpdate, PublishUpdateFails, Raise, Leave, MethodAt, SInv,
        TypeOK, poolVars, appVars
<1>3. mpc'[t] \in {"idle", "sweep"}
    BY DEF PublishUpdate, PublishUpdateFails, Raise, Leave, SInv, TypeOK
<1>4. SessionsKept /\ UNCHANGED <<state, handle>>
    BY DEF PublishUpdate, PublishUpdateFails, SessionsKept, sessionVars, poolVars
<1>. QED
    BY <1>1, <1>2, <1>3, <1>4, Quiet DEF Holding, SInv, Calls, MethodAt

\* An update changes no session's workstation before it releases it, and an update
\* that raises changes none.
LEMMA OwnersUpdate ==
    ASSUME SInv, Owners, SInv', NEW t \in Managers, NEW s \in Sessions, NEW p \in Payloads,
           mpc[t] \in {"idle", "sweep"}, Update(t, s, p) \/ UpdateRaises(t, s, p)
    PROVE  Owners'
<1>1. /\ phase = "serving" /\ phase' = "serving" /\ UNCHANGED <<opHeld, intruded>>
      /\ CleansUp(s, p)
    BY DEF Update, UpdateRaises, CleansUp, appVars
<1>2. /\ mpc'[t] \in {"release", "publish", "idle", "sweep"}
      /\ \A u \in Managers \ {t} :
            mpc'[u] = mpc[u] /\ hold'[u] = hold[u] /\ inHand'[u] = inHand[u]
    BY DEF Update, UpdateRaises, Raise, Leave, Goto, SInv, TypeOK
<1>3. OthersStill(t) /\ op'[t] = "none" /\ op[t] = "none" /\ UNCHANGED <<state, handle>>
    BY <1>1, <1>2, Alone DEF CleansUp, MethodAt, SInv, Calls
<1>4. SessionsKept
    BY <1>1 DEF CleansUp, Stores, SessionsKept, SInv, TypeOK
<1>. QED
    BY <1>1, <1>2, <1>3, <1>4, Quiet DEF Holding

\* The reaper collects and ends sessions by updates.
LEMMA OwnersReap ==
    ASSUME SInv, Owners, SInv', Reap
    PROVE  Owners'
<1>1. Reaper \in Managers
    BY WhoIsWho
<1>2. ASSUME ReapCollect PROVE Owners'
  <2>1. phase = "serving" /\ phase' = "serving" /\ mpc[Reaper] = "idle" /\ mpc'[Reaper] = "sweep"
      BY <1>1, <1>2 DEF ReapCollect, Goto, SInv, TypeOK, appVars
  <2>2. OthersStill(Reaper) /\ op'[Reaper] = "none"
      BY <1>1, <1>2, <2>1, Alone DEF ReapCollect, Goto, MethodAt, SInv, TypeOK,
          appVars, poolVars
  <2>3. SessionsKept /\ UNCHANGED <<state, handle>>
      BY <1>2 DEF ReapCollect, SessionsKept, sessionVars, poolVars
  <2>. QED
      BY <1>1, <2>1, <2>2, <2>3, Quiet DEF Holding, SInv, Calls, MethodAt
<1>3. ASSUME NEW s \in Sessions, ReapOne(s) PROVE Owners'
  <2>1. EndPayload \in Payloads
      BY DEF EndPayload, Payloads
  <2>. QED
      BY <1>1, <1>3, <2>1, OwnersUpdate DEF ReapOne
<1>. QED
    BY <1>2, <1>3 DEF Reap

\* Every step of a task inside the manager.
LEMMA ManagerOwners ==
    ASSUME SInv, Owners, SInv',
           \/ \E t \in Requests : Create(t)
           \/ \E t \in Requests, s \in Sessions, p \in Payloads : UpdateRequest(t, s, p)
           \/ \E t \in Managers : FinishUpdate(t)
           \/ Reap
    PROVE  Owners'
<1>1. ASSUME NEW t \in Requests, NEW s \in Sessions, NEW p \in Payloads,
             UpdateRequest(t, s, p)
      PROVE  Owners'
    BY <1>1, WhoIsWho, OwnersUpdate DEF UpdateRequest
<1>2. ASSUME NEW t \in Requests, Create(t) PROVE Owners'
    BY <1>2, OwnersCreateBegin, OwnersCreateReserve, OwnersCreateReserved, OwnersCreateCold,
        OwnersCreateBuild, OwnersCreateNotMarked, OwnersCreateCancel, OwnersCreateCancelled,
        OwnersCreateStore, OwnersPublishCreated, OwnersPublishCreatedFails, OwnersCreateUndone
    DEF Create
<1>3. ASSUME NEW t \in Managers, FinishUpdate(t) PROVE Owners'
    BY <1>3, OwnersUpdateRelease, OwnersUpdateReleased, OwnersPublishUpdate DEF FinishUpdate
<1>. QED
    BY <1>1, <1>2, <1>3, OwnersReap

-----------------------------------------------------------------------------
(* Operators, and the pool's own work. *)

\* An operator calls a method of the pool, for whichever slot.
LEMMA OwnersOperatorBegins ==
    ASSUME SInv, Owners, SInv', NEW t \in Operators, OperatorBegins(t)
    PROVE  Owners'
<1>1. /\ t \in Clients /\ phase = "serving" /\ phase' = "serving"
      /\ UNCHANGED <<sessionVars, taskVars, opHeld, intruded>>
    BY WhoIsWho DEF OperatorBegins, managerVars, appVars
<1>2. PICK o \in Pool!SlotOps, w \in Slots :
          (Pool!CallReserve(t, w) /\ o = "reserve") \/ Pool!Call(t, o, w)
  <2>1. "reserve" \in Pool!SlotOps /\ OperatorCalls \subseteq Pool!SlotOps
      BY SessionManagerAssumption DEF Pool!SlotOps, Pool!Switches, Pool!Recycles
  <2>. QED
      BY <2>1 DEF OperatorBegins
<1>3. /\ op[t] = "none" /\ op'[t] = o /\ target'[t] = w
      /\ UNCHANGED <<state, handle>>
      /\ \A d \in Clients \ {t} : op'[d] = op[d] /\ pc'[d] = pc[d] /\ target'[d] = target[d]
    BY <1>1, <1>2 DEF Pool!CallReserve, Pool!Call, Pool!slotVars, SInv, P!Sound, P!TypeOK,
        P!Places
<1>4. OthersStill(t) /\ Sole' = Sole /\ Sole \subseteq Slots
    BY <1>1, <1>3 DEF OthersStill, taskVars, Sole
<1>5. OwnedKept(t)
    BY <1>3 DEF OwnedKept, Kept
<1>6. OperatorFine(t)
    BY <1>1, <1>2, <1>3, <1>4 DEF OperatorFine, Owners, InUse, OperatorSlots
<1>. QED
    BY <1>1, <1>4, <1>5, <1>6, OperatorStep

\* What an operator has reserved stays as it is until it gives it back or another
\* operator takes it on.
LEMMA OwnKept ==
    ASSUME SInv, Owners, phase = "serving", NEW t \in Operators, Pool!Step(t),
           NEW w \in opHeld[t], w \in Sole,
           op[t] = "release" => target[t] # w,
           op[t] \in {"busy", "cancel"} /\ op'[t] = "none" => target[t] # w
    PROVE  state[w] \in Taken /\ Kept(w)
<1>1. t \in Clients /\ op[t] # "drain"
    BY WhoIsWho DEF Owners, Targets, Pool!SlotOps, Pool!Switches, Pool!Recycles
<1>2. w \in Slots /\ state[w] \in Taken
    BY DEF Sole, Owners, InUse, OperatorSlots
<1>. QED
    BY <1>1, <1>2, SlotKept DEF SInv

\* A call of an operator returns: the slot was its own, or free, or is intruded upon.
LEMMA OwnersOperatorReturns ==
    ASSUME SInv, Owners, SInv', NEW t \in Operators, OperatorReturns(t)
    PROVE  Owners'
<1>1. /\ t \in Clients /\ Pool!Step(t) /\ P!Step(t) /\ op'[t] = "none"
      /\ UNCHANGED <<sessionVars, taskVars>>
      /\ phase' = phase /\ RecordsIntrusion(t)
    BY WhoIsWho, SamePool DEF OperatorReturns
<1>2. op[t] # "none" /\ phase = "serving"
    BY <1>1, PoolAssumed, P!StepFrame DEF SInv, App
<1>3. Honest(t) /\ Sole' \subseteq Sole /\ Sole \subseteq Slots
    BY <1>1 DEF Honest, RecordsIntrusion, Sole
<1>4. OthersStill(t)
    BY <1>1, <1>3, PoolAssumed, P!StepFrame
    DEF OthersStill, Honest, SInv, TypeOK, taskVars, OperatorReturns
<1>5. OwnedKept(t)
    BY <1>1, <1>2, <1>3, OthersKept
<1>6. opHeld'[t] = IF pc[t] = "wait" /\ ~Pool!Accepted(t) THEN opHeld[t]
                   ELSE IF op[t] = "reserve" THEN opHeld[t] \cup {target[t]}
                   ELSE IF op[t] \in {"cancel", "release"} THEN opHeld[t] \ {target[t]}
                   ELSE opHeld[t]
    BY DEF OperatorReturns, SInv, TypeOK
<1>7. \A w \in Sole' : w \in opHeld[t] /\ (op[t] \in {"busy", "cancel", "release"} => target[t] # w)
          => state[w] \in Taken /\ state'[w] \in Taken
    BY <1>1, <1>2, <1>3, OwnKept DEF Kept
<1>8. \A w \in Slots : state'[w] \in Taken =>
          state[w] \in Taken \/ (op[t] = "reserve" /\ target[t] = w /\ state[w] = "IDLE")
    BY <1>1, NewlyTaken DEF SInv
<1>9. state \in [Slots -> P!States]
    BY DEF SInv, P!Sound, P!TypeOK
<1>10. OperatorFine(t)
  <2>1. CASE op[t] \in {"reserve", "busy", "cancel", "release"}
    <3>1. target[t] \in Slots
        BY <1>1, <2>1, Returns DEF SInv
    <3>2. CASE pc[t] = "wait" /\ ~Pool!Accepted(t) /\ state' = state
      <4>1. \A w \in opHeld[t] : w \in Sole => state[w] \in Taken
          BY <1>2, <3>2 DEF Owners, InUse, OperatorSlots
      <4>. QED
          BY <1>1, <1>3, <1>6, <3>2, <4>1 DEF OperatorFine
    <3>3. CASE /\ pc[t] = "wait" /\ Pool!Accepted(t) /\ op[t] # "release"
               /\ state' = [state EXCEPT ![target[t]] = Pool!SetsState(op[t])]
      <4>1. CASE op[t] = "reserve"
        <5>1. /\ state[target[t]] = "IDLE" /\ state' = [state EXCEPT ![target[t]] = "RESERVED"]
              /\ opHeld'[t] = opHeld[t] \cup {target[t]}
            BY <1>6, <3>3, <4>1 DEF Pool!Accepted, Pool!Accepts, Pool!SetsState
        <5>2. \A w \in opHeld[t] : w \in Sole' => state'[w] \in Taken
            BY <1>7, <4>1
        <5>. QED
            BY <1>1, <1>3, <1>9, <3>1, <5>1, <5>2 DEF OperatorFine, Taken
      <4>2. CASE op[t] = "busy"
        <5>1. /\ state' = [state EXCEPT ![target[t]] = "BUSY"]
              /\ opHeld'[t] = opHeld[t] /\ state[target[t]] = "RESERVED"
            BY <1>6, <3>3, <4>2 DEF Pool!Accepted, Pool!Accepts, Pool!SetsState
        <5>2. \A w \in opHeld[t] : w \in Sole' => state'[w] \in Taken
            BY <1>3, <1>7, <1>9, <3>1, <5>1 DEF Taken
        <5>. QED
            BY <1>1, <1>3, <1>9, <3>1, <5>1, <5>2 DEF OperatorFine, Taken
      <4>3. CASE op[t] = "cancel"
        <5>1. /\ state' = [state EXCEPT ![target[t]] = "IDLE"]
              /\ opHeld'[t] = opHeld[t] \ {target[t]}
            BY <1>6, <3>3, <4>3 DEF Pool!SetsState, Pool!Recycles
        <5>2. \A w \in opHeld[t] \ {target[t]} : w \in Sole' => state'[w] \in Taken
            BY <1>7
        <5>. QED
            BY <1>1, <1>3, <1>9, <3>1, <5>1, <5>2 DEF OperatorFine, Taken
      <4>. QED
          BY <2>1, <3>3, <4>1, <4>2, <4>3
    <3>4. CASE pc[t] # "wait" /\ op[t] = "release" /\ state'[target[t]] \notin Taken
      <4>1. opHeld'[t] = opHeld[t] \ {target[t]}
          BY <1>6, <3>4
      <4>2. \A w \in opHeld[t] \ {target[t]} : w \in Sole' => state'[w] \in Taken
          BY <1>7
      <4>. QED
          BY <1>1, <1>3, <1>8, <3>4, <4>1, <4>2 DEF OperatorFine
    <3>. QED
        BY <1>1, <2>1, <3>2, <3>3, <3>4, Returns DEF SInv
  <2>2. CASE op[t] \notin {"reserve", "busy", "cancel", "release"}
    <3>1. opHeld'[t] = opHeld[t]
        BY <1>6, <2>2
    <3>2. \A w \in opHeld[t] : w \in Sole' => state'[w] \in Taken
        BY <1>7, <2>2
    <3>. QED
        BY <1>1, <1>3, <1>8, <2>2, <3>1, <3>2 DEF OperatorFine
  <2>. QED
      BY <2>1, <2>2
<1>. QED
    BY <1>1, <1>2, <1>4, <1>5, <1>10, OperatorStep

\* The pool works on a call of a task of the manager ...
LEMMA OwnersTaskWorks ==
    ASSUME SInv, Owners, SInv', NEW t \in Managers, PoolWorks(t)
    PROVE  Owners'
<1>1. /\ t \in Clients /\ Pool!Step(t) /\ P!Step(t) /\ op'[t] # "none"
      /\ UNCHANGED <<sessionVars, taskVars, phase, opHeld>>
    BY WhoIsWho, SamePool DEF PoolWorks
<1>0. intruded' = intruded /\ Sole' = Sole
    BY WhoIsWho DEF PoolWorks, RecordsIntrusion, Intrudes, Sole
<1>2. op[t] # "none" /\ op'[t] = op[t]
    BY <1>1, PoolAssumed, P!StepFrame DEF SInv
<1>3. /\ mpc[t] \in {"reserving", "marking", "cancelling", "undoing", "releasing"}
      /\ phase = "serving" /\ phase' = "serving"
    BY <1>1, <1>2, Busy DEF SInv, Calls, MethodAt
<1>4. op[t] = MethodAt(mpc[t]) /\ op[t] \in {"reserve", "busy", "cancel", "release"}
    BY <1>3 DEF SInv, Calls, MethodAt
<1>5. target'[t] = target[t]
  <2>1. op[t] \in P!SlotOps
      BY <1>4 DEF P!SlotOps, P!Switches, P!Recycles
  <2>. QED
      BY <1>1, <2>1, PoolAssumed, P!StepFrame DEF SInv
<1>6. OthersStill(t) /\ OwnedKept(t)
    BY <1>0, <1>1, <1>3, Stepping DEF taskVars
<1>7. SessionsKept
    BY <1>1 DEF SessionsKept, sessionVars
<1>8. UNCHANGED <<mpc, hold, inHand>>
    BY <1>1 DEF taskVars
<1>9. TaskFine(t)
  <2>1. CASE op[t] = "release"
    <3>1. pc'[t] # "wait"
        BY <1>1, <2>1, PoolAssumed, P!StepGoesOn DEF SInv
    <3>. QED
        BY <1>4, <1>8, <2>1, <3>1 DEF TaskFine, MethodAt, Holding
  <2>2. CASE op[t] # "release"
    <3>1. ASSUME mpc[t] \in Holding, hold[t] \in Sole PROVE Kept(hold[t])
      <4>1. hold[t] \in Slots /\ state[hold[t]] \in Taken
          BY <1>3, <3>1 DEF Sole, Owners, InUse, TaskSlots, Taken
      <4>. QED
          BY <1>1, <1>4, <2>2, <4>1, SlotKept DEF SInv
    <3>. QED
        BY <1>0, <1>2, <1>3, <1>5, <1>8, <2>2, <3>1
        DEF TaskFine, Kept, Owners, Targets, InUse, TaskSlots
  <2>. QED
      BY <2>1, <2>2
<1>10. ClaimsFine(t)
  <2>1. \A w \in Slots : state'[w] \in Taken => state[w] \in Taken
      BY <1>1, NewlyTaken DEF SInv
  <2>. QED
      BY <1>2, <1>5, <1>8, <2>1 DEF ClaimsFine, Claims, Sole
<1>. QED
    BY <1>3, <1>6, <1>7, <1>9, <1>10, TaskStep

\* ... of an operator ...
LEMMA OwnersOperatorWorks ==
    ASSUME SInv, Owners, SInv', NEW t \in Operators, PoolWorks(t)
    PROVE  Owners'
<1>1. /\ t \in Clients /\ Pool!Step(t) /\ P!Step(t) /\ op'[t] # "none"
      /\ UNCHANGED <<sessionVars, taskVars, phase, opHeld>> /\ RecordsIntrusion(t)
    BY WhoIsWho, SamePool DEF PoolWorks
<1>0. Honest(t) /\ Sole' \subseteq Sole /\ Sole \subseteq Slots
    BY <1>1 DEF Honest, RecordsIntrusion, Sole
<1>2. op[t] # "none" /\ op'[t] = op[t]
    BY <1>1, PoolAssumed, P!StepFrame DEF SInv
<1>3. phase = "serving" /\ phase' = "serving"
    BY <1>1, <1>2 DEF SInv, App
<1>4. op[t] \in Pool!SlotOps /\ op[t] \in P!SlotOps
    BY <1>2 DEF Owners, Targets, P!SlotOps, P!Switches, P!Recycles, Pool!SlotOps,
        Pool!Switches, Pool!Recycles
<1>5. target'[t] = target[t]
    BY <1>1, <1>4, PoolAssumed, P!StepFrame DEF SInv
<1>6. OthersStill(t)
    BY <1>0, <1>1, PoolAssumed, P!StepFrame DEF OthersStill, Honest, SInv, taskVars
<1>7. OwnedKept(t)
    BY <1>0, <1>1, <1>3, OthersKept
<1>8. OperatorFine(t)
  <2>1. op[t] = "release" => pc'[t] # "wait"
      BY <1>1, PoolAssumed, P!StepGoesOn DEF SInv
  <2>2. ASSUME NEW w \in opHeld[t], w \in Sole, op[t] = "release" => target[t] # w
        PROVE  state'[w] \in Taken
      BY <1>1, <1>3, <2>2, OwnKept DEF Kept
  <2>3. \A w \in Slots : state'[w] \in Taken => state[w] \in Taken
      BY <1>1, NewlyTaken DEF SInv
  <2>. QED
      BY <1>0, <1>1, <1>2, <1>4, <1>5, <2>1, <2>2, <2>3 DEF OperatorFine
<1>. QED
    BY <1>1, <1>3, <1>6, <1>7, <1>8, OperatorStep

\* ... or of start() and stop(): it takes slots from their owners and gives none.
LEMMA OwnersMainWorks ==
    ASSUME SInv, Owners, SInv', PoolWorks(Main)
    PROVE  Owners'
<1>1. /\ Main \in Clients /\ Pool!Step(Main) /\ P!Step(Main) /\ op'[Main] # "none"
      /\ UNCHANGED <<phase, opHeld, warmOf, mpc, hold>>
    BY WhoIsWho, SamePool DEF PoolWorks, sessionVars, taskVars
<1>0. intruded' = intruded /\ Sole' = Sole /\ Sole \subseteq Slots
    BY WhoIsWho DEF PoolWorks, RecordsIntrusion, Intrudes, Sole
<1>2. op[Main] # "none" /\ \A d \in Clients \ {Main} :
          op'[d] = op[d] /\ pc'[d] = pc[d] /\ target'[d] = target[d]
    BY <1>1, PoolAssumed, P!StepFrame DEF SInv
<1>3. phase # "serving" /\ op[Main] # "reserve"
    BY <1>2 DEF SInv, App
<1>4. \A t \in Managers : op'[t] = op[t] /\ pc'[t] = pc[t] /\ target'[t] = target[t]
    BY <1>2, WhoIsWho
<1>5. \A o \in Operators : op'[o] = op[o] /\ target'[o] = target[o]
    BY <1>2, WhoIsWho
<1>6. Targets' /\ Apart' /\ InUse' /\ Unowned'
    BY <1>0, <1>1, <1>3, <1>4, <1>5 DEF Owners, Targets, Apart, Claims, InUse, Unowned
<1>7. HasOwner'
  <2>1. \A w \in Slots : state'[w] \in Taken => state[w] \in Taken
      BY <1>1, <1>3, NewlyTaken DEF SInv
  <2>. QED
      BY <1>0, <1>1, <1>4, <2>1 DEF Owners, HasOwner, Claims
<1>. QED
    BY <1>6, <1>7 DEF Owners

-----------------------------------------------------------------------------
(* start() and stop() *)

\* Outside "serving" no task of the manager claims a slot.
LEMMA NobodyClaims ==
    ASSUME SInv, NEW t \in Managers, mpc[t] \in {"idle", "sweep"}
    PROVE  \A w \in Slots : ~Claims(t, w)
<1>. QED
    BY DEF SInv, Calls, MethodAt, Claims, Holding

\* Before start() nobody has reserved anything.
LEMMA OwnersInit == Init => Owners
<1> SUFFICES ASSUME Init PROVE Owners
    OBVIOUS
<1>1. \A c \in Managers \cup Operators : op[c] = "none" /\ c \in Clients
    BY WhoIsWho DEF Init, Pool!Init
<1>2. Targets /\ Apart /\ InUse /\ Unowned /\ HasOwner
    BY <1>1, SessionManagerAssumption DEF Init, Pool!Init, Targets, Apart, InUse, Unowned,
        HasOwner, Taken, Claims, Holding, Sole
<1>. QED
    BY <1>2 DEF Owners

\* The pool has been built: every slot is free.
LEMMA OwnersStarted ==
    ASSUME SInv, Owners, SInv', Started
    PROVE  Owners'
<1>1. /\ \A t \in Managers : mpc[t] = "idle" /\ op[t] = "none"
      /\ \A o \in Operators : op[o] = "none"
      /\ \A s \in Sessions : warmOf[s] = NoSlot
      /\ \A o \in Operators : opHeld[o] = {}
      /\ intruded = {} /\ NoSlot \notin Slots
    BY SessionManagerAssumption DEF Started, SInv, Calls, MethodAt, App, Owners, Unowned
<1>2. \A c \in Managers \cup Operators : c \in Clients /\ c # Main
    BY WhoIsWho
<1>3. /\ \A c \in Managers \cup Operators : op'[c] = "none"
      /\ UNCHANGED <<state, handle, warmOf, mpc, hold, opHeld, intruded>>
    BY <1>1, <1>2 DEF Started, Pool!LoopDone, Pool!Return, Pool!slotVars, sessionVars, taskVars,
        SInv, P!Sound, P!TypeOK
<1>4. \A w \in Slots : state[w] \notin Taken
    BY <1>1, SessionManagerAssumption DEF Owners, HasOwner, Claims, Holding, Sole
<1>5. Targets' /\ Apart' /\ InUse' /\ Unowned' /\ HasOwner'
    BY <1>1, <1>3, <1>4 DEF Started, Targets, Apart, Claims, Holding, InUse, SessionSlots,
        TaskSlots, OperatorSlots, Unowned, HasOwner, Sole
<1>. QED
    BY <1>5 DEF Owners

\* While nobody serves and no slot is reserved anew, owners only lose what they have.
LEMMA OwnersLose ==
    ASSUME SInv, Owners, SInv', phase' \in {"cancelling", "stopping", "aborted"},
           \A t \in Managers : mpc[t] \in {"idle", "sweep"} /\ mpc'[t] \in {"idle", "sweep"},
           \A c \in Managers \cup Operators : op'[c] = op[c],
           UNCHANGED <<opHeld, intruded>>,
           \A s \in Sessions : warmOf'[s] \in {warmOf[s], NoSlot},
           \A w \in Slots : state'[w] \in Taken =>
               state[w] \in Taken /\ \A s \in Sessions : warmOf[s] = w => warmOf'[s] = w
    PROVE  Owners'
<1>1. Sole' = Sole /\ Sole \subseteq Slots /\ NoSlot \notin Sole
    BY SessionManagerAssumption DEF Sole
<1>2. \A t \in Managers, w \in Slots : ~Claims(t, w) /\ ~Claims(t, w)'
  <2>1. \A t \in Managers : op[t] = "none"
      BY DEF SInv, Calls, MethodAt
  <2>. QED
      BY <2>1 DEF Claims, Holding
<1>3. Targets'
    BY DEF Owners, Targets
<1>4. Apart'
  <2>1. \A s \in Sessions, t \in Managers : warmOf'[s] \in Sole => ~Claims(t, warmOf[s])'
    <3> SUFFICES ASSUME NEW s \in Sessions, NEW t \in Managers, NEW w \in Sole, warmOf'[s] = w
                 PROVE  ~Claims(t, warmOf[s])'
        OBVIOUS
    <3>. QED
        BY <1>1, <1>2 DEF Claims
  <2>2. \A t \in Managers, o \in Operators : \A w \in opHeld'[o] : w \in Sole => ~Claims(t, w)'
      BY <1>1, <1>2
  <2>. QED
      BY <1>1, <2>1, <2>2 DEF Owners, Apart
<1>5. InUse' /\ Unowned'
    BY DEF InUse, Unowned
<1>6. HasOwner'
    BY <1>1, <1>2 DEF Owners, HasOwner
<1>. QED
    BY <1>3, <1>4, <1>5, <1>6 DEF Owners

\* stop() begins, gives up, or leaves the reservations to the drain.
LEMMA OwnersStop ==
    ASSUME SInv, Owners, SInv', StopBegin \/ StopRaises \/ StopCleansUp
    PROVE  Owners'
<1>1. \A t \in Managers : mpc[t] \in {"idle", "sweep"} /\ mpc'[t] = mpc[t]
    BY WhoIsWho DEF StopBegin, StopRaises, StopCleansUp, SInv, Tasks, App, taskVars
<1>2. \A c \in Managers \cup Operators : c # Main
    BY WhoIsWho
<1>3. \A c \in Managers \cup Operators : op'[c] = op[c]
    BY <1>2, WhoIsWho DEF StopBegin, StopRaises, StopCleansUp, poolVars, SInv, P!Sound, P!TypeOK
<1>4. UNCHANGED <<state, warmOf, opHeld, intruded>>
    BY DEF StopBegin, StopRaises, StopCleansUp, poolVars, sessionVars
<1>5. phase' \in {"cancelling", "stopping", "aborted"}
    BY DEF StopBegin, StopRaises, StopCleansUp
<1>. QED
    BY <1>1, <1>3, <1>4, <1>5, OwnersLose

\* The reaper ends: a workstation it was about to release is given up.
LEMMA OwnersReaperStops ==
    ASSUME SInv, Owners, SInv', ReaperStops
    PROVE  Owners'
<1>1. PICK how \in {"off", "dead"} : ReaperEnds(how)
    BY DEF ReaperStops, ReaperCancelled, ReaperCut
<1>2. /\ \A t \in Managers : mpc[t] \in {"idle", "sweep"} /\ mpc'[t] \in {"idle", "sweep"}
      /\ phase' = "cancelling" /\ UNCHANGED <<op, opHeld, intruded>>
    BY <1>1, WhoIsWho DEF ReaperEnds, SInv, App, TypeOK
<1>3. CASE ReaperCancelled
    BY <1>2, <1>3, OwnersLose DEF ReaperCancelled, sessionVars
<1>4. ASSUME NEW s \in Sessions, ReaperCut(s) PROVE Owners'
  <2>1. \/ UNCHANGED <<state, warmOf>>
        \/ /\ warmOf' = [warmOf EXCEPT ![s] = NoSlot]
           /\ warmOf[s] # NoSlot
           /\ \/ state' = [state EXCEPT ![warmOf[s]] = "RECYCLING"]
              \/ state' = state /\ state[warmOf[s]] \notin Taken
      BY <1>4 DEF ReaperCut, ReleasesWarm, Taken
  <2>2. warmOf \in [Sessions -> Slots \cup {NoSlot}] /\ state \in [Slots -> P!States]
      BY DEF SInv, TypeOK, P!Sound, P!TypeOK
  <2>3. /\ \A x \in Sessions : warmOf'[x] \in {warmOf[x], NoSlot}
        /\ \A w \in Slots : state'[w] \in Taken =>
               state[w] \in Taken /\ \A x \in Sessions : warmOf[x] = w => warmOf'[x] = w
      BY <2>1, <2>2 DEF Taken
  <2>. QED
      BY <1>2, <2>3, OwnersLose
<1>. QED
    BY <1>3, <1>4 DEF ReaperStops

\* The drain leaves no slot reserved, stop() no reservation behind.
LEMMA OwnersStopped ==
    ASSUME SInv, Owners, SInv', Stopped
    PROVE  Owners'
<1>1. /\ \A t \in Managers : mpc[t] = "idle" /\ op[t] = "none"
      /\ \A o \in Operators : op[o] = "none"
      /\ op[Main] = "drain" /\ P!Step(Main) /\ Main \in Clients
    BY WhoIsWho, SamePool DEF Stopped, SInv, Calls, MethodAt, App, Pool!Step
<1>2. /\ \A c \in Managers \cup Operators : op'[c] = "none"
      /\ op'[Main] = "none" /\ UNCHANGED <<state, mpc, hold>>
    BY <1>1, WhoIsWho DEF Stopped, Pool!LoopDone, Pool!Return, Pool!slotVars, taskVars,
        SInv, P!Sound, P!TypeOK
<1>3. \A w \in Slots : state[w] = "DRAINING"
    BY <1>1, <1>2, PoolAssumed, P!DrainPasses DEF Stopped, SInv, Ending
<1>4. Targets' /\ Apart' /\ InUse' /\ Unowned' /\ HasOwner'
    BY <1>1, <1>2, <1>3, SessionManagerAssumption DEF Stopped, Targets, Apart, Claims, Holding,
        InUse, Unowned, HasOwner, Taken, Sole
<1>. QED
    BY <1>4 DEF Owners

\* start() after stop(): the new slots have no owners yet.
LEMMA OwnersStartAgain ==
    ASSUME SInv, Owners, SInv', StartAgain
    PROVE  Owners'
<1>1. \A c \in Managers \cup Operators : op[c] = "none" /\ c \in Clients /\ c # Main
    BY WhoIsWho DEF StartAgain, SInv, App, Calls, MethodAt
<1>2. /\ \A c \in Managers \cup Operators : op'[c] = "none"
      /\ \A t \in Managers : mpc[t] = "idle" /\ mpc'[t] = "idle"
    BY <1>1 DEF StartAgain, Pool!CallStart, taskVars, SInv, App
<1>3. /\ \A w \in Slots : state'[w] = "RECYCLING"
      /\ \A s \in Sessions : warmOf'[s] = NoSlot
      /\ \A o \in Operators : opHeld'[o] = {}
      /\ intruded' = {} /\ NoSlot \notin Slots
    BY SessionManagerAssumption
    DEF StartAgain, Pool!CallStart, sessionVars, Owners, Unowned
<1>4. Targets' /\ Apart' /\ InUse' /\ Unowned' /\ HasOwner'
    BY <1>2, <1>3 DEF StartAgain, Targets, Apart, Claims, Holding, InUse, Unowned, HasOwner,
        Taken, Sole
<1>. QED
    BY <1>4 DEF Owners

-----------------------------------------------------------------------------
\* Every step preserves the invariant.
LEMMA NextOwners == SInv /\ Owners /\ [Next]_vars => SInv' /\ Owners'
<1> SUFFICES ASSUME SInv, Owners, [Next]_vars PROVE SInv' /\ Owners'
    OBVIOUS
<1>1. SInv'
    BY NextInv
<1>2. ASSUME UNCHANGED vars \/ \E s \in Sessions : TTLPasses(s) PROVE Owners'
    BY <1>2 DEF vars, TTLPasses, poolVars, managerVars, sessionVars, taskVars, appVars,
        Owners, Targets, Apart, Claims, InUse, SessionSlots, TaskSlots, OperatorSlots, Unowned,
        HasOwner, Sole
<1>3. ASSUME NEW c \in Clients, PoolWorks(c) PROVE Owners'
    BY <1>1, <1>3, OwnersTaskWorks, OwnersOperatorWorks, OwnersMainWorks DEF Clients, Managers
<1>4. Owners'
    BY <1>1, <1>2, <1>3, ManagerOwners, OwnersOperatorBegins, OwnersOperatorReturns,
        OwnersStarted, OwnersStop, OwnersReaperStops, OwnersStopped, OwnersStartAgain DEF Next
<1>. QED
    BY <1>1, <1>4

\* In every reachable state slots and owners match.
THEOREM OwnersInvariance == Spec => [](SInv /\ Owners)
<1>1. Init => SInv /\ Owners
    BY InitInv, OwnersInit
<1>2. SInv /\ Owners /\ [Next]_vars => SInv' /\ Owners'
    BY NextOwners
<1>. QED
    BY <1>1, <1>2, PTL DEF Spec

\* While the runner serves, a session's workstation is busy with the session's browser
\* and is nobody else's, until an operator takes it on without having reserved it: no
\* interleaving of creates, updates, the reaper and operators gives it to another.
THEOREM WorkstationsAreExclusive == Spec => []WorkstationExclusive
<1>1. SInv /\ Owners => WorkstationExclusive
    BY DEF Owners, Apart, InUse, SessionSlots, WorkstationExclusive, Sole
<1>. QED
    BY <1>1, OwnersInvariance, PTL

\* A reserved or busy slot has an owner, whichever step of a create or an update
\* fails: no workstation is lost to the pool but one that an operator took on
\* without having reserved it.
THEOREM ReservationsHaveOwners == Spec => []ReservationHasOwner
<1>1. SInv /\ Owners => ReservationHasOwner
    BY WhoIsWho DEF Owners, HasOwner, Claims, Taken, ReservationHasOwner, Sole
<1>. QED
    BY <1>1, OwnersInvariance, PTL

-----------------------------------------------------------------------------
(* The life of a workstation in the whole runner. *)

Untouched == state' = state /\ handle' = handle /\ used' = used

\* Calls of the pool's methods begin without touching a slot.
LEMMA CallsTouchNothing ==
    ASSUME NEW t, NEW o, NEW w, Pool!Call(t, o, w) \/ Pool!CallReserve(t, w)
    PROVE  Untouched
<1>. QED
    BY DEF Pool!Call, Pool!CallReserve, Pool!slotVars, Pool!historyVars, Untouched

\* A create touches slots only through the pool.
LEMMA CreateTouches ==
    ASSUME NEW t \in Requests, Create(t)
    PROVE  Untouched \/ Pool!Step(t)
<1>1. CASE (\E s \in Sessions, v, f \in BOOLEAN : CreateBegin(t, s, v, f)) \/ CreateCold(t)
           \/ PublishCreated(t)
    BY <1>1 DEF CreateBegin, CreateCold, PublishCreated, poolVars, Untouched
<1>2. CASE CreateReserve(t)
    BY <1>2, CallsTouchNothing DEF CreateReserve, poolVars, Untouched
<1>3. CASE CreateReserved(t)
    BY <1>3 DEF CreateReserved, Pool!Step
<1>4. CASE CreateBuild(t)
    BY <1>4, CallsTouchNothing DEF CreateBuild, poolVars, Untouched
<1>5. CASE CreateNotMarked(t)
    BY <1>5 DEF CreateNotMarked, Pool!Step
<1>6. CASE CreateCancel(t)
    BY <1>6, CallsTouchNothing DEF CreateCancel
<1>7. CASE CreateCancelled(t)
    BY <1>7 DEF CreateCancelled, Pool!Step
<1>8. CASE PublishCreatedFails(t)
    BY <1>8, CallsTouchNothing DEF PublishCreatedFails, Untouched
<1>9. CASE CreateUndone(t)
    BY <1>9 DEF CreateUndone
<1>10. CASE \E st \in {"LIVE", "DEAD"} : CreateStore(t, st)
    BY <1>10 DEF CreateStore, Pool!Step, poolVars, Untouched
<1>. QED
    BY <1>1, <1>2, <1>3, <1>4, <1>5, <1>6, <1>7, <1>8, <1>9, <1>10 DEF Create

\* So does an update.
LEMMA FinishUpdateTouches ==
    ASSUME NEW t \in Managers, FinishUpdate(t)
    PROVE  Untouched \/ Pool!Step(t)
<1>1. CASE UpdateRelease(t)
    BY <1>1, CallsTouchNothing DEF UpdateRelease
<1>2. CASE UpdateReleased(t)
    BY <1>2 DEF UpdateReleased, Pool!Step
<1>3. CASE PublishUpdate(t) \/ PublishUpdateFails(t)
    BY <1>3 DEF PublishUpdate, PublishUpdateFails, poolVars, Untouched
<1>. QED
    BY <1>1, <1>2, <1>3 DEF FinishUpdate

\* The reaper that is cancelled in its sweep takes one slot at most out of service.
Retires == \E w \in Slots : Life!Retire(w)

LEMMA ReaperStopsTouches ==
    ASSUME TypeOK, ReaperStops
    PROVE  Untouched \/ Retires
<1>1. CASE ReaperCancelled
    BY <1>1 DEF ReaperCancelled, ReaperEnds, Untouched
<1>2. ASSUME NEW s \in Sessions, ReaperCut(s)
      PROVE  Untouched \/ Retires
  <2>1. CASE state' = state
      BY <1>2, <2>1 DEF ReaperCut, ReaperEnds, Untouched
  <2>2. CASE state' # state
    <3>1. /\ warmOf[s] \in Slots
          /\ state[warmOf[s]] \in {"RESERVED", "BUSY"}
          /\ state' = [state EXCEPT ![warmOf[s]] = "RECYCLING"]
          /\ handle' = handle /\ used' = used
        BY <1>2, <2>2 DEF ReaperCut, ReaperEnds, ReleasesWarm, TypeOK
    <3>. QED
        BY <3>1 DEF Retires, Life!Retire
  <2>. QED
      BY <2>1, <2>2
<1>. QED
    BY <1>1, <1>2 DEF ReaperStops

\* No step of the runner touches a slot but those of the pool, of the reaper that
\* is cancelled in its sweep, and a new start.
LEMMA NextTouches ==
    ASSUME TypeOK, [Next]_vars
    PROVE  Untouched \/ (\E t \in Clients : Pool!Step(t)) \/ Retires \/ Pool!CallStart(Main)
<1>1. CASE \E t \in Requests : Create(t)
    BY <1>1, CreateTouches, WhoIsWho
<1>2. CASE \E t \in Requests, s \in Sessions, p \in Payloads : UpdateRequest(t, s, p)
    BY <1>2 DEF UpdateRequest, Update, UpdateRaises, CleansUp, Untouched
<1>3. CASE \E t \in Managers : FinishUpdate(t)
    BY <1>3, FinishUpdateTouches, WhoIsWho
<1>4. CASE Reap
    BY <1>4 DEF Reap, ReapCollect, ReapOne, Update, UpdateRaises, CleansUp, poolVars, Untouched
<1>5. CASE \E s \in Sessions : TTLPasses(s)
    BY <1>5 DEF TTLPasses, poolVars, Untouched
<1>6. CASE \E t \in Operators : OperatorBegins(t) \/ OperatorReturns(t)
    BY <1>6, CallsTouchNothing, WhoIsWho DEF OperatorBegins, OperatorReturns
<1>7. CASE \E t \in Clients : PoolWorks(t)
    BY <1>7 DEF PoolWorks
<1>8. CASE Started \/ Stopped
    BY <1>8, WhoIsWho DEF Started, Stopped, Pool!Step
<1>9. CASE StopBegin \/ StopCleansUp \/ StopRaises
    BY <1>9 DEF StopBegin, StopCleansUp, StopRaises, poolVars, Untouched
<1>10. CASE StartAgain
    BY <1>10 DEF StartAgain
<1>11. CASE UNCHANGED vars
    BY <1>11 DEF vars, poolVars, Untouched
<1>12. CASE ReaperStops
    BY <1>12, ReaperStopsTouches
<1>. QED
    BY <1>1, <1>2, <1>3, <1>4, <1>5, <1>6, <1>7, <1>8, <1>9, <1>10, <1>11, <1>12 DEF Next

\* The whole runner - creates and their rollbacks, updates, the reaper, operators, stop()
\* and start() again - implements the life of its workstations.
THEOREM WorkstationsLiveOn == Spec => ImplementsLifecycle
<1>1. Init => Life!Init
    BY DEF Init, Pool!Init, Life!Init
<1>2. SInv /\ [Next]_vars => [Life!Next]_(Life!vars)
  <2> SUFFICES ASSUME SInv, [Next]_vars PROVE Untouched \/ Life!Next
      BY DEF Untouched, Life!vars
  <2>1. ASSUME NEW t \in Clients, Pool!Step(t) PROVE Untouched \/ Life!Next
    <3>1. P!LifeStill \/ P!Life!Next
        BY <2>1, SamePool, PoolAssumed, P!StepLives DEF SInv
    <3>. QED
        BY <3>1 DEF P!LifeStill, Untouched, P!Life!Next, Life!Next, P!Life!Reserve,
            Life!Reserve, P!Life!Cancel, Life!Cancel, P!Life!Occupy, Life!Occupy,
            P!Life!Retire, Life!Retire, P!Life!GiveUpBrowser, Life!GiveUpBrowser,
            P!Life!OutOfService, Life!OutOfService, P!Life!Offer, Life!Offer, P!Life!Fail,
            Life!Fail, P!Life!Rename, Life!Rename, P!Life!Rebuild, Life!Rebuild
  <2>2. CASE Retires
      BY <2>2 DEF Retires, Life!Next
  <2>3. CASE Pool!CallStart(Main)
    <3>1. Life!Rebuild
        BY <2>3 DEF Pool!CallStart, Life!Rebuild
    <3>. QED
        BY <3>1 DEF Life!Next
  <2>4. TypeOK
      BY DEF SInv
  <2>. QED
      BY <2>1, <2>2, <2>3, <2>4, NextTouches
<1>. QED
    BY <1>1, <1>2, Invariance, PTL DEF Spec, ImplementsLifecycle, Life!Spec
=============================================================================
