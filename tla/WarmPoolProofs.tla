--------------------------- MODULE WarmPoolProofs ---------------------------
(***************************************************************************)
(* The safety properties of the warm pool hold for all numbers of slots,   *)
(* clients, browsers and retries.                                          *)
(*                                                                         *)
(* The inductive invariant is IInv of WarmPoolInv.  There is a lemma for   *)
(* each action; its first step is about the conjuncts whose variables the  *)
(* action leaves alone, the other steps are one for each conjunct that the *)
(* action could disturb.                                                   *)
(***************************************************************************)
EXTENDS WarmPoolInv, TLAPS

\* The pool as it is built has no browsers, and start() has every slot to do.
LEMMA InitSound == Init => Sound
<1> SUFFICES ASSUME Init PROVE Sound
    OBVIOUS
<1>1. TypeOK
  <2>1. todo \in [Clients -> SUBSET Slots]
      BY DEF Init
  <2>2. op \in [Clients -> SlotOps \cup Loops \cup {"none"}]
      BY DEF Init, Loops
  <2>3. 0 \in 0 .. MaxRetries - 1
      BY WarmPoolAssumption
  <2>. QED
      BY <2>1, <2>2, <2>3 DEF TypeOK, Init, States
<1>2. Places
    BY WarmPoolAssumption DEF Places, Init, Loops, Recycles, SlotOps, Switches
<1>3. Locks
    BY WarmPoolAssumption DEF Locks, Init, Inside, Provisioning
<1>4. Starting
    BY WarmPoolAssumption DEF Starting, Init, Serving
<1>5. Working
    BY WarmPoolAssumption DEF Working, Init, Provisioning, Recycles
<1>6. Handles
    BY WarmPoolAssumption DEF Handles, Init
<1>7. OfferedHasOwnBrowser
    BY WarmPoolAssumption DEF OfferedHasOwnBrowser, Init
<1>8. RecyclingHasWorker
    BY WarmPoolAssumption DEF RecyclingHasWorker, Init, Serving
<1>9. LaunchedUnused
    BY WarmPoolAssumption DEF LaunchedUnused, Init
<1>10. TenantIsolation
    BY WarmPoolAssumption DEF TenantIsolation, Init
<1>11. Drains
    BY WarmPoolAssumption DEF Drains, Init, Passed
<1>. QED
    BY <1>1, <1>2, <1>3, <1>4, <1>5, <1>6, <1>7, <1>8, <1>9, <1>10, <1>11
    DEF Sound

\* A call only puts its task at a slot's lock, where it holds nothing.
LEMMA CallPreserves ==
    ASSUME Sound, NEW c \in Clients, NEW o \in SlotOps, NEW s \in Slots, Serving,
           Call(c, o, s)
    PROVE  Sound'
<1> USE DEF Sound
<1>1. (OfferedHasOwnBrowser /\ LaunchedUnused /\ TenantIsolation)'
    BY DEF OfferedHasOwnBrowser, LaunchedUnused, TenantIsolation,
        Call, slotVars, historyVars
<1>2. TypeOK'
    BY DEF TypeOK, Call, historyVars, slotVars
<1>3. Places'
    BY DEF TypeOK, Places, Call, Recycles, SlotOps, Switches
<1>4. Locks'
    BY DEF Locks, Call, Inside, slotVars, Provisioning
<1>5. Starting'
    BY DEF Starting, Call, Serving, SlotOps, Recycles, Switches
<1>6. Working'
    BY DEF Working, Call, Provisioning, slotVars
<1>7. Handles'
    BY DEF Handles, Call, slotVars
<1>8. RecyclingHasWorker'
    BY DEF RecyclingHasWorker, Call, historyVars, slotVars
<1>9. Drains'
    BY DEF TypeOK, Drains, Call, Passed, SlotOps, Recycles, historyVars, slotVars,
        Switches
<1>. QED
    BY <1>1, <1>2, <1>3, <1>4, <1>5, <1>6, <1>7, <1>8, <1>9

\* So does a reservation.
LEMMA CallReservePreserves ==
    ASSUME Sound, NEW c \in Clients, NEW s \in Slots, Serving, CallReserve(c, s)
    PROVE  Sound'
<1> USE DEF Sound
<1>1. (OfferedHasOwnBrowser /\ LaunchedUnused /\ TenantIsolation)'
    BY DEF OfferedHasOwnBrowser, LaunchedUnused, TenantIsolation,
        CallReserve, slotVars, historyVars
<1>2. TypeOK'
    BY DEF TypeOK, CallReserve, SlotOps, historyVars, slotVars, Switches
<1>3. Places'
    BY DEF TypeOK, Places, CallReserve, SlotOps, Switches
<1>4. Locks'
    BY DEF Locks, CallReserve, Inside, slotVars, Provisioning
<1>5. Starting'
    BY DEF Starting, CallReserve, Serving
<1>6. Working'
    BY DEF Working, CallReserve, Provisioning, slotVars
<1>7. Handles'
    BY DEF Handles, CallReserve, slotVars
<1>8. RecyclingHasWorker'
    BY DEF RecyclingHasWorker, CallReserve, historyVars, slotVars
<1>9. Drains'
    BY DEF Drains, CallReserve, historyVars
<1>. QED
    BY <1>1, <1>2, <1>3, <1>4, <1>5, <1>6, <1>7, <1>8, <1>9

\* A loop takes its next slot: start() one that is still as it was built.
LEMMA NextSlotPreserves ==
    ASSUME Sound, NEW c \in Clients, NEW s \in Slots, NextSlot(c, s)
    PROVE  Sound'
<1> USE DEF Sound
<1>1. (OfferedHasOwnBrowser /\ RecyclingHasWorker /\ LaunchedUnused
      /\ TenantIsolation)'
    BY DEF OfferedHasOwnBrowser, RecyclingHasWorker, LaunchedUnused,
        TenantIsolation, NextSlot, slotVars, Serving, historyVars
<1>2. TypeOK'
    BY DEF TypeOK, NextSlot, historyVars, slotVars
<1>3. Places'
    BY DEF TypeOK, Places, NextSlot, Loops
<1>4. Locks'
    BY DEF Locks, NextSlot, Inside, slotVars, Provisioning
<1>5. Starting'
    BY WarmPoolAssumption DEF TypeOK, Places, Starting, NextSlot, Serving, slotVars
<1>6. Working'
    BY DEF TypeOK, Places, Starting, Working, NextSlot, Provisioning, Serving,
        slotVars
<1>7. Handles'
    BY DEF Handles, NextSlot, slotVars
<1>8. Drains'
    BY WarmPoolAssumption DEF TypeOK, Places, Drains, NextSlot, Passed, historyVars,
        slotVars
<1>. QED
    BY <1>1, <1>2, <1>3, <1>4, <1>5, <1>6, <1>7, <1>8

\* A loop ends with nothing left to do: start() has left no slot recycling,
\* drain() has passed them all.
LEMMA LoopDonePreserves ==
    ASSUME Sound, NEW c \in Clients, LoopDone(c)
    PROVE  Sound'
<1> USE DEF Sound
<1>1. (OfferedHasOwnBrowser /\ LaunchedUnused /\ TenantIsolation)'
    BY DEF OfferedHasOwnBrowser, LaunchedUnused, TenantIsolation,
        LoopDone, slotVars
<1>2. TypeOK'
    BY DEF TypeOK, LoopDone, Return, slotVars
<1>3. Places'
    BY DEF TypeOK, Places, LoopDone, Return
<1>4. Locks'
    BY DEF Locks, LoopDone, Inside, Return, slotVars, Provisioning
<1>5. Starting'
    BY DEF TypeOK, Starting, LoopDone, Serving, Return
<1>6. Working'
    BY DEF Working, LoopDone, Provisioning, Return, slotVars
<1>7. Handles'
    BY DEF Handles, LoopDone, Return, slotVars
<1>8. RecyclingHasWorker'
    BY WarmPoolAssumption DEF Places, Starting, RecyclingHasWorker, LoopDone,
        slotVars
<1>9. Drains'
    BY WarmPoolAssumption DEF TypeOK, Places, Drains, LoopDone, Passed, Return,
        slotVars
<1>. QED
    BY <1>1, <1>2, <1>3, <1>4, <1>5, <1>6, <1>7, <1>8, <1>9

\* A start() that raises never ends: the slots it has not built stay as they were.
LEMMA StartFailsPreserves ==
    ASSUME Sound, NEW c \in Clients, StartFails(c)
    PROVE  Sound'
<1> USE DEF Sound
<1>1. (OfferedHasOwnBrowser /\ LaunchedUnused /\ TenantIsolation)'
    BY DEF OfferedHasOwnBrowser, LaunchedUnused, TenantIsolation,
        StartFails, slotVars
<1>2. TypeOK'
    BY DEF TypeOK, StartFails, slotVars
<1>3. Places'
    BY DEF TypeOK, Places, StartFails
<1>4. Locks'
    BY DEF Locks, StartFails, Inside, slotVars, Provisioning
<1>5. Starting'
    BY DEF TypeOK, Places, Starting, StartFails, Serving, slotVars
<1>6. Working'
    BY DEF Working, StartFails, Provisioning, slotVars
<1>7. Handles'
    BY DEF Handles, StartFails, slotVars
<1>8. RecyclingHasWorker'
    BY DEF Places, RecyclingHasWorker, StartFails, Serving, slotVars
<1>9. Drains'
    BY DEF TypeOK, Drains, StartFails, Passed, slotVars
<1>. QED
    BY <1>1, <1>2, <1>3, <1>4, <1>5, <1>6, <1>7, <1>8, <1>9

\* A refused call leaves the slots alone.
LEMMA RefusePreserves ==
    ASSUME Sound, NEW c \in Clients, Refuse(c)
    PROVE  Sound'
<1> USE DEF Sound
<1>1. (OfferedHasOwnBrowser /\ LaunchedUnused /\ TenantIsolation)'
    BY DEF OfferedHasOwnBrowser, LaunchedUnused, TenantIsolation,
        Refuse, slotVars, historyVars
<1>2. TypeOK'
    BY DEF TypeOK, Refuse, Return, historyVars, slotVars
<1>3. Places'
    BY DEF TypeOK, Places, Refuse, Return
<1>4. Locks'
    BY DEF Locks, Refuse, Inside, Return, slotVars, Provisioning
<1>5. Starting'
    BY DEF TypeOK, Starting, Refuse, Serving, Return
<1>6. Working'
    BY DEF Working, Refuse, Provisioning, Return, slotVars
<1>7. Handles'
    BY DEF Handles, Refuse, Return, slotVars
<1>8. RecyclingHasWorker'
    BY DEF Places, Starting, RecyclingHasWorker, Refuse, Serving, SlotOps, Recycles,
        historyVars, slotVars, Switches
<1>9. Drains'
    BY DEF TypeOK, Drains, Refuse, Passed, Return, historyVars, slotVars
<1>. QED
    BY <1>1, <1>2, <1>3, <1>4, <1>5, <1>6, <1>7, <1>8, <1>9

\* Reserving, marking busy and cancelling: the slot is nobody's work, so its
\* browser is its own; a busy slot's becomes a used one.
LEMMA SwitchPreserves ==
    ASSUME Sound, NEW c \in Clients, Switch(c)
    PROVE  Sound'
<1> USE DEF Sound
<1>1. TypeOK'
    BY DEF TypeOK, Places, Switch, States, Return, SetsState
<1>2. Places'
    BY DEF TypeOK, Places, Switch, Return
<1>3. Locks'
    BY DEF Locks, Switch, Inside, Return, Provisioning
<1>4. Starting'
    BY DEF TypeOK, Starting, Switch, Serving, Return
<1>5. Working'
    BY DEF Places, Working, Switch, Provisioning, SetsState, Recycles, Accepted,
        Return, Switches, Accepts
<1>6. Handles'
    BY DEF Handles, Switch, Return
<1>7. OfferedHasOwnBrowser'
    BY DEF OfferedHasOwnBrowser, Switch, SetsState, Accepted, Accepts
<1>8. RecyclingHasWorker'
    BY DEF Starting, RecyclingHasWorker, Switch, Serving, SetsState, Switches
<1>9. LaunchedUnused'
    BY DEF Places, Handles, LaunchedUnused, Switch
<1>10. TenantIsolation'
    BY DEF TypeOK, Places, OfferedHasOwnBrowser, TenantIsolation, Switch, SetsState,
        Accepted, Accepts
<1>11. Drains'
    BY DEF Drains, Switch, Passed, Accepted, Return, Switches, Accepts
<1>. QED
    BY <1>1, <1>2, <1>3, <1>4, <1>5, <1>6, <1>7, <1>8, <1>9, <1>10, <1>11

\* The slot leaves the offered states and its lock is taken; only enabling takes
\* a slot out of DRAINING, which reenabled records.
LEMMA EnterPreserves ==
    ASSUME Sound, NEW c \in Clients, Enter(c)
    PROVE  Sound'
<1> USE DEF Sound
<1>1. LaunchedUnused'
    BY DEF LaunchedUnused, Enter
<1>2. TypeOK'
    BY DEF TypeOK, Places, Enter, States, SetsState
<1>3. Places'
    BY DEF Places, Enter, SlotOps
<1>4. Locks'
    BY WarmPoolAssumption DEF TypeOK, Places, Locks, Enter, Inside, SlotOps,
        Recycles
<1>5. Starting'
    BY DEF Starting, Enter, Serving
<1>6. Working'
    BY WarmPoolAssumption DEF TypeOK, Places, Locks, Starting, Working, Enter,
        Provisioning, Inside, Serving
<1>7. Handles'
    BY DEF Handles, Enter
<1>8. OfferedHasOwnBrowser'
    BY DEF Places, OfferedHasOwnBrowser, Enter, SlotOps, Recycles, SetsState
<1>9. RecyclingHasWorker'
    BY DEF TypeOK, Locks, RecyclingHasWorker, Enter, Serving, Inside, Provisioning
<1>10. TenantIsolation'
    BY DEF Places, TenantIsolation, Enter, SlotOps, Recycles, SetsState
<1>11. Drains'
    BY DEF Drains, Enter, Passed, Recycles, SetsState, Accepted, Accepts
<1>. QED
    BY <1>1, <1>2, <1>3, <1>4, <1>5, <1>6, <1>7, <1>8, <1>9, <1>10, <1>11

\* The killed browser is no other slot's, and the slot has none afterwards.
LEMMA TeardownPreserves ==
    ASSUME Sound, NEW c \in Clients, Teardown(c)
    PROVE  Sound'
<1> USE DEF Sound
<1>1. LaunchedUnused'
    BY DEF LaunchedUnused, Teardown
<1>2. TypeOK'
    BY DEF TypeOK, Places, Teardown, Return
<1>3. Places'
    BY DEF TypeOK, Places, Teardown, Loops, Return
<1>4. Locks'
    BY WarmPoolAssumption DEF TypeOK, Locks, Teardown, Inside, Return, Provisioning
<1>5. Starting'
    BY WarmPoolAssumption DEF TypeOK, Starting, Teardown, Serving, Return
<1>6. Working'
    BY DEF TypeOK, Places, Working, Teardown, Provisioning, SetsState, Recycles,
        Return
<1>7. Handles'
    BY DEF TypeOK, Handles, Teardown, Return
<1>8. OfferedHasOwnBrowser'
    BY DEF Working, OfferedHasOwnBrowser, Teardown, Recycles, SetsState
<1>9. RecyclingHasWorker'
    BY DEF TypeOK, Starting, Working, RecyclingHasWorker, Teardown, Serving,
        Recycles, SetsState
<1>10. TenantIsolation'
    BY DEF Working, TenantIsolation, Teardown, Recycles, SetsState
<1>11. Drains'
    BY DEF TypeOK, Working, Drains, Teardown, Passed, Recycles, SetsState, Return
<1>. QED
    BY <1>1, <1>2, <1>3, <1>4, <1>5, <1>6, <1>7, <1>8, <1>9, <1>10, <1>11

\* The new directory changes no slot.
LEMMA MakeDirectoryPreserves ==
    ASSUME Sound, NEW c \in Clients, MakeDirectory(c)
    PROVE  Sound'
<1> USE DEF Sound
<1>1. (OfferedHasOwnBrowser /\ RecyclingHasWorker /\ LaunchedUnused
      /\ TenantIsolation /\ Drains)'
    BY DEF OfferedHasOwnBrowser, RecyclingHasWorker, LaunchedUnused,
        TenantIsolation, Drains, MakeDirectory, slotVars, Serving, historyVars,
        Passed
<1>2. TypeOK'
    BY DEF TypeOK, MakeDirectory, historyVars, slotVars
<1>3. Places'
    BY DEF Places, MakeDirectory
<1>4. Locks'
    BY DEF Locks, MakeDirectory, Inside, slotVars, Provisioning
<1>5. Starting'
    BY DEF Places, Starting, MakeDirectory, Serving, Recycles
<1>6. Working'
    BY DEF Working, MakeDirectory, Provisioning, slotVars
<1>7. Handles'
    BY DEF Handles, MakeDirectory, slotVars
<1>. QED
    BY <1>1, <1>2, <1>3, <1>4, <1>5, <1>6, <1>7

\* The lock is given back with the slot RECYCLING: the slot is stranded.
LEMMA DirectoryFailsPreserves ==
    ASSUME Sound, NEW c \in Clients, DirectoryFails(c)
    PROVE  Sound'
<1> USE DEF Sound
<1>1. (OfferedHasOwnBrowser /\ LaunchedUnused /\ TenantIsolation)'
    BY DEF OfferedHasOwnBrowser, LaunchedUnused, TenantIsolation,
        DirectoryFails
<1>2. TypeOK'
    BY DEF TypeOK, Places, DirectoryFails, Return
<1>3. Places'
    BY DEF TypeOK, Places, DirectoryFails, Return
<1>4. Locks'
    BY WarmPoolAssumption DEF TypeOK, Places, Locks, DirectoryFails, Inside,
        Recycles, Return, Provisioning
<1>5. Starting'
    BY DEF TypeOK, Starting, DirectoryFails, Serving, Return
<1>6. Working'
    BY DEF TypeOK, Working, DirectoryFails, Provisioning, Return
<1>7. Handles'
    BY DEF Handles, DirectoryFails, Return
<1>8. RecyclingHasWorker'
    BY DEF Places, Starting, RecyclingHasWorker, DirectoryFails, Serving, Recycles
<1>9. Drains'
    BY DEF TypeOK, Drains, DirectoryFails, Passed, Return
<1>. QED
    BY <1>1, <1>2, <1>3, <1>4, <1>5, <1>6, <1>7, <1>8, <1>9

\* A new browser is nobody else's and has served nobody.
LEMMA SpawnPreserves ==
    ASSUME Sound, NEW c \in Clients, NEW b \in Browsers, Spawn(c, b)
    PROVE  Sound'
<1> USE DEF Sound
<1>1. (OfferedHasOwnBrowser /\ RecyclingHasWorker /\ Drains)'
    BY DEF OfferedHasOwnBrowser, RecyclingHasWorker, Drains, Spawn, Serving, Passed
<1>2. TypeOK'
    BY DEF TypeOK, Spawn
<1>3. Places'
    BY DEF Places, Spawn
<1>4. Locks'
    BY DEF Locks, Spawn, Inside, Provisioning
<1>5. Starting'
    BY DEF Starting, Spawn, Serving
<1>6. Working'
    BY DEF Working, Spawn, Provisioning
<1>7. Handles'
    BY DEF TypeOK, Handles, Spawn, Fresh
<1>8. LaunchedUnused'
    BY DEF LaunchedUnused, Spawn
<1>9. TenantIsolation'
    BY DEF TenantIsolation, Spawn
<1>. QED
    BY <1>1, <1>2, <1>3, <1>4, <1>5, <1>6, <1>7, <1>8, <1>9

\* A failed attempt is repeated, or the slot becomes ERROR without a browser,
\* whatever became of the process.
LEMMA SpawnFailsPreserves ==
    ASSUME Sound, NEW c \in Clients, pc[c] = "spawn", AttemptFailed(c),
           live' \subseteq Browsers, lost' \subseteq Browsers,
           UNCHANGED <<handle, draining, launched, todo, used, stranded, drained, reenabled>>
    PROVE  Sound'
<1> USE DEF Sound
<1>1. LaunchedUnused'
    BY DEF LaunchedUnused
<1>2. TypeOK'
    BY WarmPoolAssumption DEF TypeOK, States, AttemptFailed,
        Provisioned, Return
<1>3. Places'
    BY DEF TypeOK, Places, Loops, AttemptFailed, Provisioned, Return
<1>4. Locks'
    BY WarmPoolAssumption DEF TypeOK, Locks, Inside, AttemptFailed,
        Provisioning, Provisioned, Return
<1>5. Starting'
    BY WarmPoolAssumption DEF TypeOK, Starting, Serving, AttemptFailed,
        Provisioned, Return
<1>6. Working'
    BY DEF TypeOK, Places, Locks, Starting, Working, Provisioning,
        Inside, Serving, AttemptFailed, Provisioned, Return
<1>7. Handles'
    BY DEF TypeOK, Handles, AttemptFailed, Provisioned, Return
<1>8. OfferedHasOwnBrowser'
    BY DEF TypeOK, OfferedHasOwnBrowser, AttemptFailed, Provisioned
<1>9. RecyclingHasWorker'
    BY DEF TypeOK, Starting, RecyclingHasWorker, Serving, AttemptFailed,
        Provisioned
<1>10. TenantIsolation'
    BY DEF TypeOK, TenantIsolation, AttemptFailed,
        Provisioned
<1>11. Drains'
    BY DEF TypeOK, Working, Drains, Passed, Provisioning, AttemptFailed,
        Provisioned, Return
<1>. QED
    BY <1>1, <1>2, <1>3, <1>4, <1>5, <1>6, <1>7, <1>8, <1>9, <1>10, <1>11

\* The slot, which had no browser, gets the one that was launched for it.
LEMMA PrewarmPreserves ==
    ASSUME Sound, NEW c \in Clients, Prewarm(c)
    PROVE  Sound'
<1> USE DEF Sound
<1>1. TypeOK'
    BY WarmPoolAssumption DEF TypeOK, Places, Prewarm, States, Provisioned,
        historyVars, Return
<1>2. Places'
    BY DEF TypeOK, Places, Prewarm, Loops, Provisioned, Return
<1>3. Locks'
    BY WarmPoolAssumption DEF TypeOK, Locks, Prewarm, Inside, Provisioned,
        Provisioning, Return
<1>4. Starting'
    BY WarmPoolAssumption DEF TypeOK, Starting, Prewarm, Serving, Provisioned,
        Return
<1>5. Working'
    BY DEF TypeOK, Places, Locks, Starting, Working, Prewarm, Provisioning, Inside,
        Serving, Provisioned, Return
<1>6. Handles'
    BY DEF TypeOK, Handles, Prewarm, Provisioned, Return
<1>7. OfferedHasOwnBrowser'
    BY DEF TypeOK, Handles, OfferedHasOwnBrowser, Prewarm, Provisioned
<1>8. RecyclingHasWorker'
    BY DEF TypeOK, Starting, RecyclingHasWorker, Prewarm, Serving, Provisioned,
        historyVars
<1>9. LaunchedUnused'
    BY DEF LaunchedUnused, Prewarm, historyVars
<1>10. TenantIsolation'
    BY DEF TypeOK, Handles, LaunchedUnused, TenantIsolation, Prewarm, Provisioned,
        historyVars
<1>11. Drains'
    BY DEF TypeOK, Working, Drains, Prewarm, Passed, Provisioning, Provisioned,
        historyVars, Return
<1>. QED
    BY <1>1, <1>2, <1>3, <1>4, <1>5, <1>6, <1>7, <1>8, <1>9, <1>10, <1>11

\* The browser that was launched is killed and forgotten.
LEMMA PrewarmFailsPreserves ==
    ASSUME Sound, NEW c \in Clients, PrewarmFails(c)
    PROVE  Sound'
<1> USE DEF Sound
<1>1. TypeOK'
    BY WarmPoolAssumption DEF TypeOK, PrewarmFails, SlotOps, States, AttemptFailed,
        historyVars, Provisioned, Return
<1>2. Places'
    BY DEF TypeOK, Places, PrewarmFails, Loops, AttemptFailed, Provisioned, Return
<1>3. Locks'
    BY WarmPoolAssumption DEF TypeOK, Locks, PrewarmFails, Inside, AttemptFailed,
        Provisioning, Provisioned, Return
<1>4. Starting'
    BY WarmPoolAssumption DEF TypeOK, Starting, PrewarmFails, Serving,
        AttemptFailed, Provisioned, Return
<1>5. Working'
    BY DEF TypeOK, Places, Locks, Starting, Working, PrewarmFails, Provisioning,
        Inside, Serving, AttemptFailed, Provisioned, Return
<1>6. Handles'
    BY DEF TypeOK, Handles, PrewarmFails, AttemptFailed, Provisioned, Return
<1>7. OfferedHasOwnBrowser'
    BY DEF TypeOK, OfferedHasOwnBrowser, PrewarmFails, AttemptFailed, Provisioned
<1>8. RecyclingHasWorker'
    BY DEF TypeOK, Starting, RecyclingHasWorker, PrewarmFails, Serving,
        AttemptFailed, historyVars, Provisioned
<1>9. LaunchedUnused'
    BY DEF LaunchedUnused, PrewarmFails, historyVars
<1>10. TenantIsolation'
    BY DEF TypeOK, TenantIsolation, PrewarmFails, AttemptFailed, historyVars,
        Provisioned
<1>11. Drains'
    BY DEF TypeOK, Working, Drains, PrewarmFails, Passed, Provisioning,
        AttemptFailed, historyVars, Provisioned, Return
<1>. QED
    BY <1>1, <1>2, <1>3, <1>4, <1>5, <1>6, <1>7, <1>8, <1>9, <1>10, <1>11

\* A drain begins, and its caller may have killed browsers of its own.
LEMMA DrainBegins ==
    ASSUME Sound, NEW c \in Clients, Serving,
           draining' = TRUE,
           op' = [op EXCEPT ![c] = "drain"],
           pc[c] = "idle", pc' = [pc EXCEPT ![c] = "next"],
           todo' = [todo EXCEPT ![c] = Slots],
           live' \subseteq live,
           UNCHANGED <<state, handle, lock, target, launched, attempt, historyVars>>
    PROVE  Sound'
<1> USE DEF Sound
<1>1. (OfferedHasOwnBrowser /\ LaunchedUnused /\ TenantIsolation)'
    BY DEF OfferedHasOwnBrowser, LaunchedUnused, TenantIsolation, historyVars
<1>2. TypeOK'
    BY DEF TypeOK, Loops, historyVars
<1>3. Places'
    BY DEF TypeOK, Places, Loops
<1>4. Locks'
    BY DEF Locks, Inside, Provisioning
<1>5. Starting'
    BY DEF Starting, Serving
<1>6. Working'
    BY DEF Working, Provisioning
<1>7. Handles'
    BY DEF Handles
<1>8. RecyclingHasWorker'
    BY DEF RecyclingHasWorker, historyVars, Serving, TypeOK
<1>9. Drains'
    BY DEF TypeOK, Drains, Passed, historyVars
<1>. QED
    BY <1>1, <1>2, <1>3, <1>4, <1>5, <1>6, <1>7, <1>8, <1>9

\* start() rebuilds the slots when no call is under way.
LEMMA Rebuilt ==
    ASSUME Sound, CallStart(Starter), \A c \in Clients : op[c] = "none"
    PROVE  Sound'
<1> USE DEF Sound
<1>1. \A c \in Clients : pc[c] = "idle"
    BY DEF Places
<1>2. TypeOK'
  <2>1. state' \in [Slots -> States] /\ stranded' \subseteq Slots /\ reenabled' \subseteq Slots
      BY DEF CallStart, States
  <2>2. /\ handle' \in [Slots -> Browsers \cup {NoBrowser}]
        /\ lock' \in [Slots -> Clients \cup {NoClient}]
      BY DEF CallStart
  <2>3. /\ op' \in [Clients -> SlotOps \cup Loops \cup {"none"}]
        /\ todo' \in [Clients -> SUBSET Slots]
      BY DEF TypeOK, CallStart, Loops
  <2>4. /\ draining' = draining /\ live' = live /\ target' = target /\ launched' = launched
        /\ attempt' = attempt /\ used' = used /\ drained' = FALSE /\ lost' = lost
        /\ pc' = [pc EXCEPT ![Starter] = "next"]
      BY DEF CallStart
  <2>. QED
      BY <2>1, <2>2, <2>3, <2>4 DEF TypeOK
<1>3. Places'
    BY <1>1, WarmPoolAssumption DEF TypeOK, Places, CallStart, Loops
<1>4. Locks'
    BY <1>1, WarmPoolAssumption DEF TypeOK, Locks, CallStart, Inside, Provisioning
<1>5. Starting'
    BY <1>1, WarmPoolAssumption DEF TypeOK, Places, Starting, CallStart, Serving
<1>6. Working'
    BY <1>1 DEF TypeOK, Working, CallStart, Provisioning
<1>7. \A c \in Clients : launched[c] = NoBrowser
    BY <1>1 DEF Handles
<1>8. (Handles /\ LaunchedUnused /\ TenantIsolation /\ OfferedHasOwnBrowser)'
    BY <1>1, <1>7, WarmPoolAssumption DEF TypeOK, Handles, LaunchedUnused, TenantIsolation,
        OfferedHasOwnBrowser, CallStart
<1>9. (RecyclingHasWorker /\ Drains)'
    BY <1>1, WarmPoolAssumption DEF TypeOK, RecyclingHasWorker, Drains, CallStart, Serving
<1>. QED
    BY <1>2, <1>3, <1>4, <1>5, <1>6, <1>8, <1>9

\* Processes that start or end unknown to the pool change nothing it knows.
LEMMA OutsideSound ==
    ASSUME Sound, live' \subseteq Browsers, lost' \subseteq Browsers,
           UNCHANGED <<state, handle, lock, draining, callVars, used, stranded, drained,
                       reenabled>>
    PROVE  Sound'
<1> USE DEF Sound
<1>1. (Places /\ Locks /\ Starting /\ Working /\ Handles /\ OfferedHasOwnBrowser /\
      RecyclingHasWorker /\ LaunchedUnused /\ TenantIsolation /\ Drains)'
    BY DEF Places, Locks, Starting, Working, Handles, OfferedHasOwnBrowser,
        RecyclingHasWorker, LaunchedUnused, TenantIsolation, Drains,
        callVars, Serving, Passed
<1>2. TypeOK'
    BY DEF TypeOK, callVars
<1>. QED
    BY <1>1, <1>2

\* A release whose task is cancelled when it has killed the browser: the slot is
\* stranded, its lock free.
LEMMA GivenUp ==
    ASSUME Sound, NEW s \in Slots, state[s] \in {"RESERVED", "BUSY"}, Serving,
           state' = [state EXCEPT ![s] = "RECYCLING"], stranded' = stranded \cup {s},
           live' \subseteq live,
           UNCHANGED <<handle, lock, draining, callVars, used, drained, reenabled, lost>>
    PROVE  Sound'
<1> USE DEF Sound
<1>1. (Places /\ Locks /\ Starting /\ Handles /\ LaunchedUnused)'
    BY DEF Places, Locks, Starting, Handles, LaunchedUnused, callVars, Serving
<1>2. TypeOK'
    BY DEF TypeOK, callVars, States
<1>3. Working'
  <2>1. \A c \in Clients : pc[c] \in {"teardown"} \cup Provisioning => target[c] # s
      BY DEF Working, SetsState, Recycles, Places, Loops, Switches
  <2>. QED
      BY <2>1 DEF Working, Provisioning, callVars, TypeOK, Places
<1>4. (OfferedHasOwnBrowser /\ TenantIsolation /\ RecyclingHasWorker)'
    BY DEF OfferedHasOwnBrowser, TenantIsolation, RecyclingHasWorker, TypeOK, callVars, Serving
<1>5. Drains'
  <2>1. \A x \in Slots : Passed(x) => Passed(x)'
      BY DEF Passed, TypeOK
  <2>. QED
      BY <2>1 DEF Drains, callVars
<1>. QED
    BY <1>1, <1>2, <1>3, <1>4, <1>5

\* Every step of a call that is under way.
LEMMA StepSound ==
    ASSUME Sound, NEW c \in Clients, Step(c)
    PROVE  Sound'
<1>1. CASE \E s \in Slots : NextSlot(c, s)
    BY <1>1, NextSlotPreserves
<1>2. CASE LoopDone(c)
    BY <1>2, LoopDonePreserves
<1>3. CASE Refuse(c)
    BY <1>3, RefusePreserves
<1>4. CASE Switch(c)
    BY <1>4, SwitchPreserves
<1>5. CASE Enter(c)
    BY <1>5, EnterPreserves
<1>6. CASE Teardown(c)
    BY <1>6, TeardownPreserves
<1>7. CASE MakeDirectory(c)
    BY <1>7, MakeDirectoryPreserves
<1>8. CASE DirectoryFails(c)
    BY <1>8, DirectoryFailsPreserves
<1>9. CASE \E b \in Browsers : Spawn(c, b)
    BY <1>9, SpawnPreserves
<1>10. CASE SpawnFails(c)
  <2>1. live' = live /\ lost' = lost /\ live \subseteq Browsers /\ lost \subseteq Browsers
      BY <1>10 DEF SpawnFails, historyVars, Sound, TypeOK
  <2>. QED
      BY <1>10, <2>1, SpawnFailsPreserves DEF SpawnFails, historyVars
<1>11. CASE Prewarm(c)
    BY <1>11, PrewarmPreserves
<1>12. CASE PrewarmFails(c)
    BY <1>12, PrewarmFailsPreserves
<1>13. CASE \E b \in Browsers : SpawnLoses(c, b)
  <2>1. live' \subseteq Browsers /\ lost' \subseteq Browsers
      BY <1>13 DEF SpawnLoses, Fresh, Sound, TypeOK
  <2>. QED
      BY <1>13, <2>1, SpawnFailsPreserves DEF SpawnLoses
<1>14. CASE StartFails(c)
    BY <1>14, StartFailsPreserves
<1>. QED
    BY <1>1, <1>2, <1>3, <1>4, <1>5, <1>6, <1>7, <1>8, <1>9, <1>10, <1>11, <1>12, <1>13, <1>14
    DEF Step

\* Every call that begins.
LEMMA BeginSound ==
    ASSUME Sound, NEW c \in Clients, Begin(c)
    PROVE  Sound'
<1>1. Serving
    BY DEF Begin
<1>2. CASE \E o \in SlotOps, s \in Slots : Call(c, o, s)
    BY <1>1, <1>2, CallPreserves
<1>3. CASE \E s \in Slots : CallReserve(c, s)
    BY <1>1, <1>3, CallReservePreserves
<1>4. CASE CallDrain(c)
    BY <1>1, <1>4, DrainBegins DEF CallDrain
<1>. QED
    BY <1>2, <1>3, <1>4 DEF Begin

-----------------------------------------------------------------------------
\* A step of a call kills only what the pool knows, keeps or kills what it knew, and
\* comes to know only new processes; a launch may lose a new one, and no step finds
\* it again.
LEMMA StepProcesses ==
    ASSUME Sound, NEW c \in Clients, Step(c)
    PROVE  \/ /\ lost' = lost
              /\ \A b \in live : b \notin live' => Known(b)
              /\ \A b \in live' : Known(b)' \/ (b \in live /\ ~Known(b))
              /\ \A b \in live : Known(b)' => Known(b)
           \/ \E b \in Fresh :
                 /\ live' = live \cup {b} /\ lost' = lost \cup {b}
                 /\ handle' = handle /\ launched' = launched
<1> USE DEF Sound, Known
<1>1. CASE (\E s \in Slots : NextSlot(c, s)) \/ StartFails(c) \/ LoopDone(c) \/ Refuse(c)
           \/ Switch(c) \/ Enter(c) \/ MakeDirectory(c) \/ DirectoryFails(c) \/ SpawnFails(c)
  <2>1. live' = live /\ handle' = handle /\ launched' = launched /\ lost' = lost
      BY <1>1 DEF NextSlot, StartFails, LoopDone, Refuse, Switch, Enter, MakeDirectory,
          DirectoryFails, SpawnFails, slotVars, historyVars
  <2>. QED
      BY <2>1
<1>2. CASE Teardown(c)
  <2>1. target[c] \in Slots /\ launched' = launched /\ lost' = lost
      BY <1>2 DEF Teardown, Places
  <2>2. handle' = [handle EXCEPT ![target[c]] = NoBrowser] /\ live' = live \ {handle[target[c]]}
      BY <1>2 DEF Teardown
  <2>3. \A b \in live : b # NoBrowser
      BY WarmPoolAssumption DEF TypeOK
  <2>. QED
      BY <2>1, <2>2, <2>3 DEF TypeOK
<1>3. CASE \E n \in Browsers : Spawn(c, n)
    BY <1>3, WarmPoolAssumption DEF Spawn, TypeOK, Handles, Fresh
<1>4. CASE Prewarm(c)
  <2>1. /\ target[c] \in Slots /\ live' = live /\ lost' = lost
        /\ handle' = [handle EXCEPT ![target[c]] = launched[c]]
        /\ launched' = [launched EXCEPT ![c] = NoBrowser]
      BY <1>4 DEF Prewarm, Places, historyVars
  <2>2. handle[target[c]] = NoBrowser
      BY <1>4 DEF Prewarm, Working, Provisioning
  <2>3. \A b \in live : b # NoBrowser
      BY WarmPoolAssumption DEF TypeOK
  <2>. QED
      BY <2>1, <2>2, <2>3 DEF TypeOK
<1>5. CASE PrewarmFails(c)
  <2>1. /\ live' = live \ {launched[c]} /\ lost' = lost /\ handle' = handle
        /\ launched' = [launched EXCEPT ![c] = NoBrowser]
      BY <1>5 DEF PrewarmFails, historyVars
  <2>2. \A b \in live : b # NoBrowser
      BY WarmPoolAssumption DEF TypeOK
  <2>. QED
      BY <2>1, <2>2 DEF TypeOK
<1>6. CASE \E b \in Browsers : SpawnLoses(c, b)
    BY <1>6 DEF SpawnLoses
<1>. QED
    BY <1>1, <1>2, <1>3, <1>4, <1>5, <1>6 DEF Step

\* A step changes the call of its own task only: the call goes on, or it is over.
LEMMA StepFrame ==
    ASSUME Sound, NEW c \in Clients, Step(c)
    PROVE  /\ op[c] # "none"
           /\ op'[c] \in {op[c], "none"}
           /\ op[c] \in SlotOps /\ op'[c] # "none" => target'[c] = target[c]
           /\ \A d \in Clients \ {c} :
                 /\ op'[d] = op[d] /\ pc'[d] = pc[d] /\ target'[d] = target[d]
                 /\ launched'[d] = launched[d] /\ todo'[d] = todo[d]
<1> USE DEF Sound, TypeOK, Return, slotVars, historyVars
<1>1. op[c] # "none"
    BY DEF Places, Step, NextSlot, LoopDone, Refuse, Switch, Enter, Teardown, MakeDirectory,
        DirectoryFails, Spawn, SpawnFails, SpawnLoses, StartFails, Prewarm, PrewarmFails
<1>2. CASE StartFails(c) \/ \E s \in Slots : NextSlot(c, s)
    BY <1>1, <1>2 DEF StartFails, NextSlot, Places, SlotOps, Switches, Recycles, Loops
<1>3. CASE LoopDone(c) \/ Refuse(c) \/ Switch(c) \/ DirectoryFails(c)
    BY <1>1, <1>3 DEF LoopDone, Refuse, Switch, DirectoryFails
<1>4. CASE Enter(c) \/ MakeDirectory(c) \/ \E b \in Browsers : Spawn(c, b)
    BY <1>1, <1>4 DEF Enter, MakeDirectory, Spawn
<1>5. CASE Teardown(c)
    BY <1>1, <1>5 DEF Teardown, SlotOps, Switches, Recycles
<1>6. CASE SpawnFails(c) \/ PrewarmFails(c) \/ \E b \in Browsers : SpawnLoses(c, b)
    BY <1>1, <1>6 DEF SpawnFails, SpawnLoses, PrewarmFails, AttemptFailed, Provisioned, SlotOps,
        Switches, Recycles
<1>7. CASE Prewarm(c)
    BY <1>1, <1>7 DEF Prewarm, Provisioned, SlotOps, Switches, Recycles
<1>. QED
    BY <1>2, <1>3, <1>4, <1>5, <1>6, <1>7 DEF Step

\* A drain leaves the slots it has passed empty behind it, as long as no other
\* call is under way.
LEMMA DrainPasses ==
    ASSUME Sound, NEW c \in Clients, Step(c), op[c] = "drain",
           \A s \in Slots \ todo[c] :
               target[c] = s \/ (state[s] = "DRAINING" /\ handle[s] = NoBrowser)
    PROVE  /\ op'[c] = "drain" =>
                  \A s \in Slots \ todo'[c] :
                      target'[c] = s \/ (state'[s] = "DRAINING" /\ handle'[s] = NoBrowser)
           /\ op'[c] # "drain" =>
                  \A s \in Slots : state[s] = "DRAINING" /\ handle[s] = NoBrowser
<1> USE WarmPoolAssumption DEF Sound, TypeOK, Places
<1>1. pc[c] \in {"next", "wait", "teardown"}
    BY DEF Recycles, Provisioning
<1>2. CASE \E s \in Slots : NextSlot(c, s)
    BY <1>2 DEF NextSlot, slotVars
<1>3. CASE LoopDone(c)
    BY <1>3 DEF LoopDone, Return
<1>4. CASE Enter(c)
    BY <1>4 DEF Enter
<1>5. CASE Teardown(c)
    BY <1>5 DEF Teardown, Working, SetsState, Recycles, Switches
<1>6. ~Refuse(c) /\ ~Switch(c)
    BY DEF Refuse, Switch, Accepted, Accepts, Switches
<1>7. Enter(c) \/ Teardown(c) \/ LoopDone(c) \/ \E s \in Slots : NextSlot(c, s)
    BY <1>1, <1>6 DEF Step, MakeDirectory, DirectoryFails, Spawn, SpawnFails, SpawnLoses,
        StartFails, Prewarm, PrewarmFails
<1>. QED
    BY <1>2, <1>3, <1>4, <1>5, <1>7

\* What a step may do to a slot: reserve it, mark it busy or cancel its reservation,
\* begin to release it, drain it, or move it between states nobody has reserved.
LEMMA StepSlots ==
    ASSUME Sound, NEW c \in Clients, Step(c), NEW s \in Slots
    PROVE  \/ state'[s] = state[s] /\ handle'[s] = handle[s]
           \/ state[s] \notin {"RESERVED", "BUSY"} /\ state'[s] \notin {"RESERVED", "BUSY"}
           \/ /\ target[c] = s /\ op'[c] = "none" /\ handle'[s] = handle[s]
              /\ \/ op[c] = "reserve" /\ state[s] = "IDLE" /\ state'[s] = "RESERVED"
                 \/ op[c] = "busy" /\ state[s] = "RESERVED" /\ state'[s] = "BUSY"
                 \/ op[c] = "cancel" /\ state[s] = "RESERVED" /\ state'[s] = "IDLE"
           \/ /\ target[c] = s /\ op[c] = "release" /\ op'[c] = "release"
              /\ state[s] \in {"RESERVED", "BUSY"} /\ state'[s] = "RECYCLING"
           \/ op[c] = "drain" /\ state'[s] = "DRAINING"
<1> USE DEF Sound, TypeOK, Return, slotVars, historyVars
<1>1. CASE (\E w \in Slots : NextSlot(c, w)) \/ StartFails(c) \/ LoopDone(c) \/ Refuse(c)
           \/ MakeDirectory(c) \/ DirectoryFails(c) \/ \E b \in Browsers : Spawn(c, b)
    BY <1>1 DEF NextSlot, StartFails, LoopDone, Refuse, MakeDirectory, DirectoryFails, Spawn
<1>2. CASE Switch(c)
  <2>1. CASE target[c] = s
      BY <1>2, <2>1 DEF Switch, Switches, Accepted, Accepts, SetsState
  <2>2. CASE target[c] # s
      BY <1>2, <2>2 DEF Switch
  <2>. QED
      BY <2>1, <2>2
<1>3. CASE Enter(c)
  <2>1. CASE target[c] = s
      BY <1>3, <2>1 DEF Enter, Places, SlotOps, Switches, Recycles, Accepted, Accepts, SetsState
  <2>2. CASE target[c] # s
      BY <1>3, <2>2 DEF Enter
  <2>. QED
      BY <2>1, <2>2
<1>4. CASE Teardown(c)
  <2>1. CASE target[c] = s
      BY <1>4, <2>1 DEF Teardown, Places, Working, Recycles, SetsState
  <2>2. CASE target[c] # s
      BY <1>4, <2>2 DEF Teardown
  <2>. QED
      BY <2>1, <2>2
<1>5. CASE SpawnFails(c) \/ (\E b \in Browsers : SpawnLoses(c, b)) \/ PrewarmFails(c)
           \/ Prewarm(c)
  <2>1. CASE target[c] = s
      BY <1>5, <2>1 DEF SpawnFails, SpawnLoses, PrewarmFails, Prewarm, AttemptFailed,
          Provisioned, Working, Provisioning
  <2>2. CASE target[c] # s
      BY <1>5, <2>2 DEF SpawnFails, SpawnLoses, PrewarmFails, Prewarm, AttemptFailed,
          Provisioned
  <2>. QED
      BY <2>1, <2>2
<1>. QED
    BY <1>1, <1>2, <1>3, <1>4, <1>5 DEF Step

\* How a call that reserves, marks, cancels or releases returns: refused at the
\* lock, after its switch of the state, or with the slot recycled or failed.
LEMMA StepReturns ==
    ASSUME Sound, NEW c \in Clients, Step(c), op'[c] = "none",
           op[c] \in {"reserve", "busy", "cancel", "release"}
    PROVE  /\ target[c] \in Slots
           /\ \/ pc[c] = "wait" /\ ~Accepted(c) /\ state' = state /\ handle' = handle
              \/ /\ pc[c] = "wait" /\ Accepted(c) /\ op[c] # "release" /\ handle' = handle
                 /\ state' = [state EXCEPT ![target[c]] = SetsState(op[c])]
              \/ /\ pc[c] # "wait" /\ op[c] = "release"
                 /\ state'[target[c]] \notin {"RESERVED", "BUSY"}
<1> USE DEF Sound, TypeOK, Return, slotVars, historyVars
<1>1. target[c] \in Slots
    BY DEF Places, Loops, Step, NextSlot, LoopDone, Refuse, Switch, Enter, Teardown,
        MakeDirectory, DirectoryFails, Spawn, SpawnFails, SpawnLoses, StartFails, Prewarm,
        PrewarmFails
<1>2. CASE pc[c] = "wait"
  <2>1. Refuse(c) \/ Switch(c)
      BY <1>2 DEF Step, NextSlot, LoopDone, Enter, Teardown, MakeDirectory, DirectoryFails,
          Spawn, SpawnFails, SpawnLoses, StartFails, Prewarm, PrewarmFails
  <2>. QED
      BY <1>1, <1>2, <2>1 DEF Refuse, Switch, Switches
<1>3. CASE pc[c] # "wait"
  <2>1. op[c] = "release" /\ state[target[c]] = "RECYCLING"
      BY <1>1, <1>3 DEF Places, Recycles, Working, SetsState, Provisioning, Loops
  <2>2. state'[target[c]] \notin {"RESERVED", "BUSY"}
      BY <1>1, <1>3, <2>1, StepSlots
  <2>. QED
      BY <1>1, <1>3, <2>1, <2>2
<1>. QED
    BY <1>2, <1>3

\* A call that has gone on does not wait for its slot's lock any more, and a
\* release that does not wait is recycling its slot.
LEMMA StepGoesOn ==
    ASSUME Sound, NEW c \in Clients, Step(c), op[c] = "release", op'[c] # "none"
    PROVE  pc'[c] # "wait" /\ target'[c] = target[c] /\ target[c] \in Slots
           /\ (pc[c] = "wait" => lock[target[c]] = NoClient)
<1> USE DEF Sound, TypeOK, Return, slotVars, historyVars
<1>1. pc[c] # "next" /\ pc[c] # "idle" /\ target[c] \in Slots
    BY DEF Places, Loops, Step, NextSlot, LoopDone, Refuse, Switch, Enter, Teardown,
        MakeDirectory, DirectoryFails, Spawn, SpawnFails, SpawnLoses, StartFails, Prewarm,
        PrewarmFails
<1>. QED
    BY <1>1 DEF Step, NextSlot, LoopDone, Refuse, Switch, Enter, Teardown, MakeDirectory,
        DirectoryFails, Spawn, SpawnFails, SpawnLoses, StartFails, Prewarm, PrewarmFails, AttemptFailed, Provisioned

\* A call that is not accepted changes no slot.
LEMMA StepRefuses ==
    ASSUME Sound, NEW c \in Clients, Step(c), pc[c] = "wait", ~Accepted(c)
    PROVE  state' = state /\ handle' = handle
<1>1. Refuse(c)
    BY DEF Step, NextSlot, StartFails, LoopDone, Switch, Enter, Teardown, MakeDirectory,
        DirectoryFails, Spawn, SpawnFails, SpawnLoses, Prewarm, PrewarmFails
<1>. QED
    BY <1>1 DEF Refuse, slotVars

\* A release that has its slot's lock is recycling the slot.
LEMMA ReleaseRecycles ==
    ASSUME Sound, NEW c \in Clients, op[c] = "release", pc[c] # "wait"
    PROVE  target[c] \in Slots /\ state[target[c]] = "RECYCLING"
<1>. QED
    BY DEF Sound, TypeOK, Places, Loops, Working, Provisioning, SetsState, Recycles

-----------------------------------------------------------------------------
\* No slot has a browser and start() is about to build them.
LEMMA InitIInv == Init => IInv
<1>1. Init => BrowserOwned /\ LostRuns
    BY DEF Init, BrowserOwned, LostRuns
<1>. QED
    BY <1>1, InitSound DEF IInv

\* Every step preserves the invariant.
LEMMA NextIInv == IInv /\ [Next]_vars => IInv'
<1> SUFFICES ASSUME IInv, [Next]_vars PROVE IInv'
    OBVIOUS
<1> USE DEF IInv
<1>1. ASSUME NEW c \in Clients, Begin(c) PROVE IInv'
  <2>1. UNCHANGED <<live, handle, launched, lost>>
      BY <1>1 DEF Begin, Call, CallReserve, CallDrain, slotVars, historyVars
  <2>. QED
      BY <1>1, <2>1, BeginSound DEF BrowserOwned, LostRuns
<1>2. ASSUME NEW c \in Clients, Step(c) PROVE IInv'
  <2>1. \A b \in live : b \notin lost <=> Known(b)
      BY DEF BrowserOwned, Known
  <2>2. lost \subseteq live
      BY DEF LostRuns
  <2>3. (\A b \in live' : b \notin lost' <=> Known(b)') /\ lost' \subseteq live'
    <3>1. CASE \E b \in Fresh : /\ live' = live \cup {b} /\ lost' = lost \cup {b}
                               /\ handle' = handle /\ launched' = launched
      <4>1. PICK b \in Fresh : /\ live' = live \cup {b} /\ lost' = lost \cup {b}
                              /\ handle' = handle /\ launched' = launched
          BY <3>1
      <4>2. ~Known(b) /\ \A n : Known(n)' <=> Known(n)
          BY <4>1 DEF Fresh, Known
      <4>. QED
          BY <2>1, <2>2, <4>1, <4>2
    <3>2. CASE /\ lost' = lost
               /\ \A b \in live : b \notin live' => Known(b)
               /\ \A b \in live' : Known(b)' \/ (b \in live /\ ~Known(b))
               /\ \A b \in live : Known(b)' => Known(b)
        BY <2>1, <2>2, <3>2
    <3>. QED
        BY <1>2, <3>1, <3>2, StepProcesses
  <2>. QED
      BY <1>2, <2>3, StepSound DEF BrowserOwned, LostRuns, Known
<1>3. ASSUME NEW b \in Browsers, BrowserExits(b) PROVE IInv'
  <2>1. Sound'
      BY <1>3, OutsideSound DEF BrowserExits, Sound, TypeOK
  <2>. QED
      BY <1>3, <2>1 DEF BrowserOwned, LostRuns, BrowserExits, callVars
<1>4. CASE UNCHANGED vars
  <2>1. Sound'
      BY <1>4, OutsideSound DEF vars, slotVars, historyVars, Sound, TypeOK
  <2>. QED
      BY <1>4, <2>1 DEF BrowserOwned, LostRuns, vars, slotVars, callVars, historyVars
<1>. QED
    BY <1>1, <1>2, <1>3, <1>4 DEF Next

\* The invariant holds in every reachable state.
THEOREM Invariance == Spec => []IInv
<1>. QED
    BY InitIInv, NextIInv, PTL DEF Spec

\* The fields of WarmPoolManager, its slots and its callers keep their types.
THEOREM TypeCorrect == Spec => []TypeOK
<1>1. IInv => TypeOK
    BY DEF IInv, Sound
<1>. QED
    BY <1>1, Invariance, PTL

\* No browser process is orphaned by _attempt_launch, _teardown_slot or drain():
\* a running browser that no slot and no launching task has is one that the
\* ValueError of launch_browser's readline() left behind, and only those.
THEOREM BrowsersAreOwned == Spec => []BrowserOwned
<1>1. IInv => BrowserOwned
    BY DEF IInv
<1>. QED
    BY <1>1, Invariance, PTL

\* What reserve_slot hands out has a browser, and no other slot has that browser.
THEOREM OfferedSlotsHaveOwnBrowsers == Spec => []OfferedHasOwnBrowser
<1>1. IInv => OfferedHasOwnBrowser
    BY DEF IInv, Sound
<1>. QED
    BY <1>1, Invariance, PTL

\* release_slot and its kin put a new process between two tenants of a slot.
THEOREM TenantsAreIsolated == Spec => []TenantIsolation
<1>1. IInv => TenantIsolation
    BY DEF IInv, Sound
<1>. QED
    BY <1>1, Invariance, PTL

\* A RECYCLING slot is being worked on, unless its directory could not be made.
THEOREM RecyclesHaveWorkers == Spec => []RecyclingHasWorker
<1>1. IInv => RecyclingHasWorker
    BY DEF IInv, Sound
<1>. QED
    BY <1>1, Invariance, PTL

\* After drain() has returned only slots that enable_slot took again have browsers.
THEOREM DrainIsFinal == Spec => []DrainLeavesNothing
<1>1. IInv => DrainLeavesNothing
    BY DEF IInv, Sound, Drains, Passed, DrainLeavesNothing
<1>. QED
    BY <1>1, Invariance, PTL

-----------------------------------------------------------------------------
(* The life of a slot: each step is one of SlotLifecycle, or none. *)

\* What a slot lives through does not change.
LifeStill == state' = state /\ handle' = handle /\ used' = used

\* A step of a call that keeps the slot's browser.
LEMMA CallLives ==
    ASSUME Sound, NEW c \in Clients,
           \/ \E s \in Slots : NextSlot(c, s)
           \/ StartFails(c) \/ LoopDone(c) \/ Refuse(c) \/ MakeDirectory(c)
           \/ DirectoryFails(c)
    PROVE  LifeStill
<1>. QED
    BY DEF NextSlot, StartFails, LoopDone, Refuse, MakeDirectory, DirectoryFails, slotVars, historyVars,
        LifeStill

\* reserve_slot, mark_busy and cancel_reservation.
LEMMA SwitchLives ==
    ASSUME Sound, NEW c \in Clients, Switch(c)
    PROVE  Life!Next
<1>1. target[c] \in Slots
    BY DEF Switch, Sound, Places
<1>2. CASE op[c] = "reserve"
  <2>1. Life!Reserve(target[c])
      BY <1>1, <1>2 DEF Switch, Accepted, Accepts, SetsState, Life!Reserve
  <2>. QED
      BY <1>1, <2>1 DEF Life!Next
<1>3. CASE op[c] = "busy"
  <2>1. Life!Occupy(target[c])
      BY <1>1, <1>3 DEF Switch, Accepted, Accepts, SetsState, Life!Occupy
  <2>. QED
      BY <1>1, <2>1 DEF Life!Next
<1>4. CASE op[c] = "cancel"
  <2>1. Life!Cancel(target[c])
      BY <1>1, <1>4 DEF Switch, Accepted, Accepts, SetsState, Life!Cancel
  <2>. QED
      BY <1>1, <2>1 DEF Life!Next
<1>. QED
    BY <1>2, <1>3, <1>4 DEF Switch, Switches

\* A recycle or a drain takes the slot.
LEMMA EnterLives ==
    ASSUME Sound, NEW c \in Clients, Enter(c)
    PROVE  Life!Next
<1>1. target[c] \in Slots /\ op[c] \in Recycles \cup {"drain_slot", "drain"}
    BY DEF Enter, Sound, Places, SlotOps
<1>2. Life!Retire(target[c])
  <2>1. handle' = handle /\ used' = used
      BY DEF Enter
  <2>2. CASE op[c] \in Recycles
    <3>1. state[target[c]] # "RECYCLING"
        BY <2>2 DEF Enter, Accepted, Accepts, Recycles
    <3>2. state' = [state EXCEPT ![target[c]] = "RECYCLING"]
        BY <2>2 DEF Enter, SetsState, Recycles
    <3>. QED
        BY <2>1, <3>1, <3>2 DEF Life!Retire
  <2>3. CASE op[c] \in {"drain_slot", "drain"}
    <3>1. state' = [state EXCEPT ![target[c]] = "DRAINING"]
        BY <2>3 DEF Enter, SetsState, Recycles
    <3>. QED
        BY <2>1, <3>1 DEF Life!Retire
  <2>. QED
      BY <1>1, <2>2, <2>3
<1>. QED
    BY <1>1, <1>2 DEF Life!Next

\* The old browser goes.
LEMMA TeardownLives ==
    ASSUME Sound, NEW c \in Clients, Teardown(c)
    PROVE  Life!Next
<1>1. target[c] \in Slots /\ op[c] \in Recycles \cup {"drain_slot", "drain"}
    BY DEF Teardown, Sound, Places
<1>2. state[target[c]] \in {"RECYCLING", "DRAINING"}
    BY <1>1 DEF Teardown, Sound, Working, SetsState, Recycles
<1>3. Life!GiveUpBrowser(target[c])
    BY <1>2 DEF Teardown, Life!GiveUpBrowser, Life!OutOfService
<1>. QED
    BY <1>1, <1>3 DEF Life!Next

\* A failed attempt is retried, or is the last one and fails the slot.
LEMMA AttemptLives ==
    ASSUME Sound, NEW c \in Clients, pc[c] \in {"spawn", "prewarm"}, AttemptFailed(c),
           handle' = handle, used' = used
    PROVE  LifeStill \/ Life!Next
<1>1. target[c] \in Slots /\ state[target[c]] = "RECYCLING" /\ handle[target[c]] = NoBrowser
    BY DEF Sound, Places, Working, Provisioning
<1>2. CASE state' = state
    BY <1>2 DEF LifeStill
<1>3. CASE state' = [state EXCEPT ![target[c]] = "ERROR"]
  <2>1. Life!Fail(target[c])
      BY <1>1, <1>3 DEF Life!Fail
  <2>. QED
      BY <1>1, <2>1 DEF Life!Next
<1>. QED
    BY <1>2, <1>3 DEF AttemptFailed, Provisioned

\* The slot is offered with the browser that has been launched for it.
LEMMA PrewarmLives ==
    ASSUME Sound, NEW c \in Clients, Prewarm(c)
    PROVE  Life!Next
<1>1. target[c] \in Slots /\ state[target[c]] = "RECYCLING" /\ handle[target[c]] = NoBrowser
    BY DEF Prewarm, Sound, Places, Working, Provisioning
<1>2. launched[c] # NoBrowser
    BY DEF Prewarm, Sound, Handles
<1>3. launched[c] \in Browsers /\ \A s \in Slots : handle[s] # launched[c]
    BY <1>2 DEF Sound, TypeOK, Handles
<1>4. launched[c] \notin used
    BY <1>2 DEF Sound, LaunchedUnused
<1>5. Life!Offer(target[c], launched[c])
    BY <1>1, <1>3, <1>4 DEF Prewarm, Provisioned, historyVars, Life!Offer
<1>. QED
    BY <1>1, <1>3, <1>5 DEF Life!Next

\* A process is launched, under a name no slot has.
LEMMA SpawnLives ==
    ASSUME NEW c \in Clients, NEW b \in Browsers, Spawn(c, b)
    PROVE  Life!Next
<1>1. \A s \in Slots : handle[s] # b
    BY DEF Spawn, Fresh
<1>2. Life!Rename(b)
    BY <1>1 DEF Spawn, Life!Rename
<1>. QED
    BY <1>2 DEF Life!Next

\* Every step of a call is one of the slot's life or does not touch it.
LEMMA StepLives ==
    ASSUME Sound, NEW c \in Clients, Step(c)
    PROVE  LifeStill \/ Life!Next
<1>1. CASE \/ \E s \in Slots : NextSlot(c, s)
           \/ StartFails(c) \/ LoopDone(c) \/ Refuse(c) \/ MakeDirectory(c)
           \/ DirectoryFails(c)
    BY <1>1, CallLives
<1>2. CASE SpawnFails(c) \/ (\E b \in Browsers : SpawnLoses(c, b)) \/ PrewarmFails(c)
    BY <1>2, AttemptLives DEF SpawnFails, SpawnLoses, PrewarmFails, historyVars
<1>3. CASE \E b \in Browsers : Spawn(c, b)
    BY <1>3, SpawnLives
<1>. QED
    BY <1>1, <1>2, <1>3, SwitchLives, EnterLives, TeardownLives, PrewarmLives DEF Step

\* The pool implements the life of its slots: its initial state is the first of that
\* life, and whatever any task does is one step of one slot, or none.
THEOREM SlotsLiveOn == Spec => ImplementsLifecycle
<1>1. Init => Life!Init
    BY DEF Init, Life!Init
<1>2. IInv /\ [Next]_vars => [Life!Next]_(Life!vars)
  <2> SUFFICES ASSUME IInv, [Next]_vars PROVE LifeStill \/ Life!Next
      BY DEF LifeStill, Life!vars
  <2>1. ASSUME NEW c \in Clients, Begin(c) PROVE LifeStill
      BY <2>1 DEF Begin, Call, CallReserve, CallDrain, slotVars, historyVars, LifeStill
  <2>2. ASSUME NEW c \in Clients, Step(c) PROVE LifeStill \/ Life!Next
      BY <2>2, StepLives DEF IInv
  <2>3. CASE \E b \in Browsers : BrowserExits(b)
      BY <2>3 DEF BrowserExits, historyVars, LifeStill
  <2>4. CASE UNCHANGED vars
      BY <2>4 DEF vars, slotVars, historyVars, LifeStill
  <2>. QED
      BY <2>1, <2>2, <2>3, <2>4 DEF Next
<1>. QED
    BY <1>1, <1>2, Invariance, PTL DEF Spec, ImplementsLifecycle, Life!Spec

\* What the life of a slot keeps true by itself.
LifeInv ==
    /\ state \in [Slots -> States] /\ handle \in [Slots -> Browsers \cup {NoBrowser}]
    /\ \A s, t \in Slots : s # t /\ handle[s] # NoBrowser => handle[s] # handle[t]
    /\ \A s \in Slots : state[s] \in {"IDLE", "RESERVED", "BUSY"} => handle[s] # NoBrowser
    /\ TenantIsolation

\* The life of the slots says enough: in every system that implements it a slot that is
\* offered or taken has a browser of its own, which no earlier tenant has used.
THEOREM LifecycleIsolates == ImplementsLifecycle => [](OfferedHasOwnBrowser /\ TenantIsolation)
<1>1. Life!Init => LifeInv
    BY DEF Life!Init, LifeInv, States, TenantIsolation
<1>2. LifeInv /\ [Life!Next]_(Life!vars) => LifeInv'
  <2> SUFFICES ASSUME LifeInv, Life!Next \/ UNCHANGED Life!vars PROVE LifeInv'
      OBVIOUS
  <2> USE DEF LifeInv, TenantIsolation, States
  <2>1. ASSUME NEW s \in Slots, Life!Reserve(s) PROVE LifeInv'
      BY <2>1 DEF Life!Reserve
  <2>2. ASSUME NEW s \in Slots, Life!Cancel(s) PROVE LifeInv'
      BY <2>2 DEF Life!Cancel
  <2>3. ASSUME NEW s \in Slots, Life!Occupy(s) PROVE LifeInv'
      BY <2>3 DEF Life!Occupy
  <2>4. ASSUME NEW s \in Slots, Life!Retire(s) PROVE LifeInv'
      BY <2>4 DEF Life!Retire
  <2>5. ASSUME NEW s \in Slots, Life!GiveUpBrowser(s) PROVE LifeInv'
      BY <2>5 DEF Life!GiveUpBrowser, Life!OutOfService
  <2>6. ASSUME NEW s \in Slots, Life!Fail(s) PROVE LifeInv'
      BY <2>6 DEF Life!Fail
  <2>7. ASSUME NEW s \in Slots, NEW b \in Browsers, Life!Offer(s, b) PROVE LifeInv'
      BY <2>7, WarmPoolAssumption DEF Life!Offer
  <2>8. ASSUME NEW b \in Browsers, Life!Rename(b) PROVE LifeInv'
      BY <2>8 DEF Life!Rename
  <2>9. CASE Life!Rebuild
      BY <2>9 DEF Life!Rebuild
  <2>10. CASE UNCHANGED Life!vars
      BY <2>10 DEF Life!vars
  <2>. QED
      BY <2>1, <2>2, <2>3, <2>4, <2>5, <2>6, <2>7, <2>8, <2>9, <2>10 DEF Life!Next
<1>3. LifeInv => OfferedHasOwnBrowser /\ TenantIsolation
    BY DEF LifeInv, OfferedHasOwnBrowser
<1>. QED
    BY <1>1, <1>2, <1>3, PTL DEF ImplementsLifecycle, Life!Spec
=============================================================================
