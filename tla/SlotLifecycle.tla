--------------------------- MODULE SlotLifecycle ---------------------------
(***************************************************************************)
(* What the runner promises of its workstations, without locks, tasks and  *)
(* awaits: the life of a slot between one browser and the next.            *)
(*                                                                         *)
(* A slot with a browser is reserved, taken by a tenant, or taken out of   *)
(* service; out of service it gives up its browser, and only then gets     *)
(* another one, which no slot has and no tenant has used.  Slots change    *)
(* one at a time, except when all of them are built anew.                  *)
(*                                                                         *)
(* WarmPool and SessionManager implement it (ImplementsLifecycle).         *)
(***************************************************************************)
CONSTANTS
    Slots,       \* the workstations of the configuration
    Browsers,    \* names for browser processes
    NoBrowser

VARIABLES
    state,    \* what a slot is ready for
    browser,  \* the browser a slot has
    used      \* browsers a tenant has used

vars == <<state, browser, used>>

OutOfService == {"RECYCLING", "DRAINING"}

\* All slots are built without a browser.
Init ==
    /\ state = [s \in Slots |-> "RECYCLING"]
    /\ browser = [s \in Slots |-> NoBrowser]
    /\ used = {}

Reserve(s) ==
    /\ state[s] = "IDLE"
    /\ state' = [state EXCEPT ![s] = "RESERVED"]
    /\ UNCHANGED <<browser, used>>

Cancel(s) ==
    /\ state[s] = "RESERVED"
    /\ state' = [state EXCEPT ![s] = "IDLE"]
    /\ UNCHANGED <<browser, used>>

\* The tenant moves in.
Occupy(s) ==
    /\ state[s] = "RESERVED"
    /\ state' = [state EXCEPT ![s] = "BUSY"]
    /\ used' = used \cup {browser[s]}
    /\ UNCHANGED browser

\* A release, restart or reactivation begins, or a drain.
Retire(s) ==
    /\ \/ state[s] # "RECYCLING" /\ state' = [state EXCEPT ![s] = "RECYCLING"]
       \/ state' = [state EXCEPT ![s] = "DRAINING"]
    /\ UNCHANGED <<browser, used>>

GiveUpBrowser(s) ==
    /\ state[s] \in OutOfService
    /\ browser' = [browser EXCEPT ![s] = NoBrowser]
    /\ UNCHANGED <<state, used>>

\* The slot is back, with a browser of its own that is as good as new ...
Offer(s, b) ==
    /\ state[s] = "RECYCLING" /\ browser[s] = NoBrowser
    /\ b \notin used /\ \A t \in Slots : browser[t] # b
    /\ state' = [state EXCEPT ![s] = "IDLE"]
    /\ browser' = [browser EXCEPT ![s] = b]
    /\ UNCHANGED used

\* ... or it could not be provided with one.
Fail(s) ==
    /\ state[s] = "RECYCLING" /\ browser[s] = NoBrowser
    /\ state' = [state EXCEPT ![s] = "ERROR"]
    /\ UNCHANGED <<browser, used>>

\* A new process gets the name of one that is no slot's any more.
Rename(b) ==
    /\ \A t \in Slots : browser[t] # b
    /\ used' = used \ {b}
    /\ UNCHANGED <<state, browser>>

\* The application is started once more, and builds the slots anew.
Rebuild ==
    /\ state' = [s \in Slots |-> "RECYCLING"]
    /\ browser' = [s \in Slots |-> NoBrowser]
    /\ UNCHANGED used

Next ==
    \/ \E s \in Slots :
          \/ Reserve(s) \/ Cancel(s) \/ Occupy(s) \/ Retire(s) \/ GiveUpBrowser(s)
          \/ Fail(s) \/ \E b \in Browsers : Offer(s, b)
    \/ \E b \in Browsers : Rename(b)
    \/ Rebuild

Spec == Init /\ [][Next]_vars
=============================================================================
