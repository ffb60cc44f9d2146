---------------------------- MODULE WarmPoolInv ----------------------------
(***************************************************************************)
(* The inductive invariant of WarmPool: the safety properties of that      *)
(* module and what it takes for each to be preserved by every step.        *)
(***************************************************************************)
EXTENDS WarmPool

Provisioning == {"directory", "spawn", "prewarm"}
Inside == {"teardown"} \cup Provisioning

\* Which method can be where, and that a task at a slot has a slot.
Places ==
    \A c \in Clients :
        /\ pc[c] = "idle" <=> op[c] = "none"
        /\ pc[c] \in {"idle", "next", "failed"} => target[c] = NoSlot
        /\ pc[c] \notin {"idle", "next", "failed"} => target[c] \in Slots
        /\ pc[c] = "failed" => op[c] = "start"
        /\ pc[c] = "next" => op[c] \in Loops
        /\ pc[c] = "wait" => op[c] \in SlotOps \cup {"drain"}
        /\ pc[c] = "teardown" => op[c] \in Recycles \cup {"drain_slot", "drain"}
        /\ pc[c] = "directory" => op[c] \in Recycles
        /\ pc[c] \in {"spawn", "prewarm"} => op[c] \in Recycles \cup {"start"}
        /\ op[c] = "start" => c = Starter

\* A slot's lock is held by the task that is recycling or draining the slot.
Locks ==
    \A c \in Clients, s \in Slots :
        lock[s] = c <=> pc[c] \in Inside /\ target[c] = s /\ op[c] # "start"

\* While start() runs nobody else does, and the slots it has not finished are
\* as _build_slot made them.
Starting ==
    ~Serving =>
        /\ \A c \in Clients \ {Starter} : pc[c] = "idle"
        /\ \A s \in todo[Starter] : state[s] = "RECYCLING" /\ handle[s] = NoBrowser
        /\ target[Starter] \notin todo[Starter]
        /\ \A s \in Slots : state[s] = "RECYCLING" =>
                               s \in todo[Starter] \/ s = target[Starter]

\* The slot of a task that is tearing down or provisioning: nobody reserves it,
\* and it has no browser while a new one is made for it.
Working ==
    \A c \in Clients :
        /\ pc[c] = "teardown" => state[target[c]] = SetsState(op[c])
        /\ pc[c] \in Provisioning => /\ state[target[c]] = "RECYCLING"
                                     /\ handle[target[c]] = NoBrowser

\* A browser has one owner: one slot, or one task that has just launched it.
Handles ==
    /\ \A s, t \in Slots : s # t /\ handle[s] # NoBrowser => handle[s] # handle[t]
    /\ \A c \in Clients : pc[c] = "prewarm" <=> launched[c] # NoBrowser
    /\ \A c, d \in Clients : c # d /\ launched[c] # NoBrowser => launched[c] # launched[d]
    /\ \A c \in Clients, s \in Slots : launched[c] # NoBrowser => launched[c] # handle[s]

\* A browser a task has just launched has served nobody.
LaunchedUnused == \A c \in Clients : launched[c] \notin used \ {NoBrowser}

\* A slot that drain() has passed is draining and empty, or was enabled again.
Passed(s) == s \in reenabled \/ (state[s] = "DRAINING" /\ handle[s] = NoBrowser)

Drains ==
    /\ \A c \in Clients :
          op[c] = "drain" =>
              /\ draining
              /\ \A s \in Slots \ todo[c] : target[c] = s \/ Passed(s)
    /\ drained => draining /\ \A s \in Slots : Passed(s)

\* What does not speak of the processes that run: it holds as well when the
\* pool's owner starts and kills browsers of its own.
Sound ==
    /\ TypeOK
    /\ Places
    /\ Locks
    /\ Starting
    /\ Working
    /\ Handles
    /\ OfferedHasOwnBrowser
    /\ RecyclingHasWorker
    /\ LaunchedUnused
    /\ TenantIsolation
    /\ Drains

\* A browser that was lost runs: one that exits is nobody's concern any more.
LostRuns == lost \subseteq live

IInv == Sound /\ BrowserOwned /\ LostRuns

\* The pool knows the browser: a slot has it, or a task has just launched it.
Known(b) == \/ \E s \in Slots : handle[s] = b
            \/ \E c \in Clients : launched[c] = b
=============================================================================
