--------------------------- MODULE RunnerRegistry ---------------------------
(***************************************************************************)
(* The gateway's registry of runners (services/gateway/app/services/       *)
(* runner_registry.py) and the loop that keeps it up to date: discovery    *)
(* replaces the stored snapshots, then every runner is probed in turn,     *)
(* while requests select runners round robin.                              *)
(*                                                                         *)
(* The registry's lock is never held over an await, so taking it does not  *)
(* suspend, and each method is one step; the loop suspends at discovery    *)
(* and at each probe.                                                      *)
(*                                                                         *)
(* Abstracted: of a snapshot only what selection reads: whether the last   *)
(* probe succeeded, and which requests the runner's state, free slots and  *)
(* VNC support admit.  What the registry knows of sessions is in Gateway.  *)
(***************************************************************************)
EXTENDS Naturals, Sequences, SequencesExt, FiniteSets, FiniteSetsExt, Functions, TLC

CONSTANTS
    Runners,      \* every runner discovery may ever report
    Configured    \* settings.runners, which seed the registry

ASSUME RunnerRegistryAssumption ==
    /\ IsFiniteSet(Runners)
    /\ Configured \subseteq Runners

VARIABLES
    order,     \* RunnerRegistry._order
    cursor,    \* ... _cursor
    healthy,   \* the stored snapshots' healthy flags
    admits,    \* the requests the stored snapshots admit
    known,     \* RunnerDiscoveryService._known_runner_ids
    probing,   \* runners the loop's iteration has still to probe
    serving,   \* the start-up hook has ended
    waiting,   \* history: who has waited since a runner was last selected
    overtaken  \* history: runners selected again while somebody waited

turnVars == <<waiting, overtaken>>
vars == <<order, cursor, healthy, admits, known, probing, serving, turnVars>>

\* The requests a runner admits: none (no free slot, BUSY, DEGRADED, OFFLINE),
\* those without VNC, or any.
Kinds == {"none", "headless", "any"}
Admitting(vnc) == IF vnc THEN {"any"} ELSE {"headless", "any"}
Registered == ToSet(order)
AtLeastOne(n) == IF n = 0 THEN 1 ELSE n
Enumerations(S) == Bijection(1 .. Cardinality(S), S)

Init ==
    /\ order \in Enumerations(Configured)
    /\ cursor = 0
    /\ healthy = [r \in Runners |-> FALSE]
    /\ admits = [r \in Runners |-> "any"]
    /\ known = {}
    /\ probing = <<>>
    /\ serving = FALSE
    /\ waiting = [r \in Runners |-> {}]
    /\ overtaken = {}

-----------------------------------------------------------------------------
(* select_next *)

\* The index, in rotation order, of the k-th candidate.
Rotation(k) == (cursor + k) % Len(order)

Acceptable(vnc, strict) ==
    {k \in 0 .. Len(order) - 1 :
        LET r == order[Rotation(k) + 1]
        IN admits[r] \in Admitting(vnc) /\ (strict => healthy[r])}

\* Fault: the cursor advances by one, over runners that were skipped too.
AdvanceByOne(index) == (cursor + 1) % Len(order)

\* The cursor moves past the runner that was chosen.
Advance(index) == (index + 1) % Len(order)

\* The history of a selection of r: whoever any request could have had waits.
Taken(r) ==
    /\ waiting' = [q \in Runners |->
            IF q = r THEN {x \in Registered \ {r} : healthy[x] /\ admits[x] = "any"}
            ELSE waiting[q] \ {r}]
    /\ overtaken' = IF waiting[r] = {} THEN overtaken ELSE overtaken \cup {r}

\* Those of the waiting that still could be had, when snapshots have changed.
StillWaiting(r) == {x \in waiting[r] : healthy'[x] /\ admits'[x] = "any"}

\* execute_create_command asks for a healthy runner first, then for any; with
\* neither, the answer is 503 and the cursor stays.
SelectNext(vnc) ==
    LET strict == Acceptable(vnc, TRUE) # {}
        index == Rotation(Min(Acceptable(vnc, strict)))
    IN
    /\ serving
    /\ Acceptable(vnc, strict) # {}
    /\ cursor' = Advance(index)
    /\ Taken(order[index + 1])
    /\ UNCHANGED <<order, healthy, admits, known, probing, serving>>

-----------------------------------------------------------------------------
(* _runner_maintenance_loop *)

\* upsert() appends the runners it does not know and remove() takes runners out of
\* the order: whoever precedes a runner that was registered did so before.
Orders(members) ==
    {next \in Enumerations(members) :
        \A i, j \in DOMAIN next : \A l \in DOMAIN order :
            i < j /\ next[j] = order[l] => \E k \in 1 .. l - 1 : next[i] = order[k]}

\* Fault: the cursor is left where it is.
CursorKept == cursor

\* Each removal takes the cursor modulo the number of runners left, or modulo 1: the
\* first number that does not exceed the cursor equals it, and takes it to 0.
CursorAfter == IF cursor < Len(order') THEN cursor ELSE 0

\* refresh(): every reported snapshot replaces what is stored, health included,
\* runners not in the registry join at the end in the order reported, and those
\* reported before and not now are removed.  One that only the settings named is
\* never in _known_runner_ids and stays.
Refresh ==
    \E present \in SUBSET Runners :
        LET removed == known \ present IN
        \E well \in [present -> BOOLEAN], kind \in [present -> Kinds] :
            /\ order' \in Orders((Registered \cup present) \ removed)
            /\ cursor' = CursorAfter
            /\ healthy' = [r \in Runners |-> IF r \in present THEN well[r] ELSE healthy[r]]
            /\ admits' = [r \in Runners |-> IF r \in present THEN kind[r] ELSE admits[r]]
            /\ known' = present
            /\ waiting' = [r \in Runners |-> IF removed # {} THEN {} ELSE StillWaiting(r)]
            /\ UNCHANGED overtaken

\* At start-up the runners are not probed.
StartUp ==
    /\ ~serving
    /\ Refresh
    /\ serving' = TRUE
    /\ UNCHANGED probing

Iterate ==
    /\ serving
    /\ probing = <<>>
    /\ Refresh
    /\ probing' = order'
    /\ UNCHANGED serving

\* RunnerHealthClient.probe: an answer, or none, is recorded; an answer in
\* another runner's name is not.
Probe(up, kind) ==
    /\ probing # <<>>
    /\ healthy' = [healthy EXCEPT ![Head(probing)] = up]
    /\ admits' = [admits EXCEPT ![Head(probing)] = kind]
    /\ probing' = Tail(probing)
    /\ waiting' = [r \in Runners |-> StillWaiting(r)]
    /\ UNCHANGED <<order, cursor, known, serving, overtaken>>

\* An answer that cannot be parsed raises and ends the iteration.
ProbeRaises ==
    /\ probing # <<>>
    /\ probing' = <<>>
    /\ UNCHANGED <<order, cursor, healthy, admits, known, serving, turnVars>>

Next ==
    \/ \E vnc \in BOOLEAN : SelectNext(vnc)
    \/ StartUp
    \/ Iterate
    \/ \E up \in BOOLEAN, kind \in Kinds : Probe(up, kind)
    \/ ProbeRaises

Spec == Init /\ [][Next]_vars

-----------------------------------------------------------------------------
(***************************************************************************)
(* Properties.                                                             *)
(***************************************************************************)

\* The rotation order has no runner twice, and the cursor stays inside it through
\* any removal of runners before, at and behind it.
TypeOK ==
    /\ order \in Seq(Runners) /\ IsInjective(order)
    /\ cursor \in 0 .. AtLeastOne(Len(order)) - 1
    /\ healthy \in [Runners -> BOOLEAN]
    /\ admits \in [Runners -> Kinds]
    /\ known \subseteq Registered
    /\ probing \in Seq(Runners)
    /\ serving \in BOOLEAN
    /\ waiting \in [Runners -> SUBSET Runners]
    /\ overtaken \subseteq Runners

\* Round robin: no runner is selected twice while another one, healthy and open to
\* every request ever since, waits for its turn, although requests differ in what
\* they need, runners join and snapshots change (a removal starts the turns anew).
TurnsAreFair == overtaken = {}
=============================================================================
