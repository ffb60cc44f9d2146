---------------------------- MODULE RelaysProofs ----------------------------
(***************************************************************************)
(* A relay that ended holds nothing and has told its client, whatever the  *)
(* number of relays of each kind.                                          *)
(*                                                                         *)
(* What the ending of a relay leaves behind depends on where each of its   *)
(* tasks stood when it ended: Fine says, phase by phase, what may be left  *)
(* of the two sockets and the two tasks.  The count needs that a step      *)
(* enters or leaves the registry exactly when it begins or ends a relay.   *)
(***************************************************************************)
EXTENDS Relays, FiniteSetTheorems, TLAPS

Fields == {"kind", "phase", "client", "told", "up", "c2r", "r2c", "cframe", "rframe"}

\* What may be left of a connection in each phase.
Fine(r) ==
    LET c == conn[r] IN
    /\ c.phase \in {"new", "connecting", "relaying", "unwinding", "done"}
    /\ c.client \in {"waiting", "open", "gone", "closed"}
    /\ c.phase \in {"new", "connecting"} =>
           c.up = "none" /\ c.c2r = "idle" /\ c.r2c = "idle"
    /\ c.phase = "relaying" => c.up \in {"open", "closed"} \cup RunnersEnds
    /\ c.phase = "unwinding" => /\ c.up = "closed"
                                /\ {c.c2r, c.r2c} \cap Raised = {} => c.c2r = "done"
    /\ c.phase = "done" => c.up \in {"none", "closed"}
    /\ c.phase \in {"unwinding", "done"} => "run" \notin {c.c2r, c.r2c}
    \* The task that reads the client returns only after the client's end closed.
    /\ c.c2r = "done" => c.client \in {"gone", "closed"}
    /\ c.phase = "done" => c.client \in {"gone", "closed"} \/ Escapes(r) \/ Muted(r)
    /\ Muted(r) => c.kind = "control"

UnderWay(ch) == {r \in Relays : Tracked(r) /\ Channel(r) = ch /\ Live(r)}

AllFine ==
    /\ DOMAIN conn = Relays
    /\ \A r \in Relays : DOMAIN conn[r] = Fields /\ Fine(r)

Counted ==
    /\ DOMAIN active = Channels
    /\ DOMAIN gauge = Channels
    /\ \A ch \in Channels : /\ IsFiniteSet(UnderWay(ch))
                            /\ active[ch] = Cardinality(UnderWay(ch))
                            /\ gauge[ch] = active[ch]

IInv == AllFine /\ Counted

-----------------------------------------------------------------------------
\* What every step does to the other connections, and to the kind of its own.
Touches(r) ==
    /\ DOMAIN conn' = Relays
    /\ \A q \in Relays \ {r} : conn'[q] = conn[q]
    /\ DOMAIN conn'[r] = Fields
    /\ conn'[r].kind = conn[r].kind

\* Update changes the fields it is given, and no other.
LEMMA Updates ==
    ASSUME AllFine, NEW r \in Relays, NEW changes, Update(r, changes),
           "kind" \notin DOMAIN changes
    PROVE  /\ Touches(r)
           /\ \A f \in Fields :
                conn'[r][f] = IF f \in DOMAIN changes THEN changes[f] ELSE conn[r][f]
    BY DEF AllFine, Update, Touches, Fields

\* Closing a client ends a socket that is open or not accepted yet.
LEMMA Closes ==
    ASSUME AllFine, NEW r \in Relays, NEW code, NEW rest, CloseClient(r, code, rest),
           DOMAIN rest \cap {"kind", "client"} = {}
    PROVE  /\ Touches(r)
           /\ conn'[r].client \in {"gone", "closed"}
           /\ \A f \in Fields \ {"client", "told"} :
                conn'[r][f] = IF f \in DOMAIN rest THEN rest[f] ELSE conn[r][f]
<1> DEFINE changes == [f \in {"client", "told"} \cup DOMAIN rest |->
                         IF f \in DOMAIN rest THEN rest[f] ELSE Closed(r, code)[f]]
<1>1. /\ Update(r, changes)
      /\ DOMAIN changes = {"client", "told"} \cup DOMAIN rest
      /\ \A f \in DOMAIN rest : changes[f] = rest[f]
      /\ changes["client"] = Closed(r, code).client
    BY DEF CloseClient
<1> HIDE DEF changes
<1>2. Closed(r, code).client \in {"gone", "closed"}
    BY DEF Closed, AllFine, Fine
<1>. QED
    BY <1>1, <1>2, Updates DEF Fields

-----------------------------------------------------------------------------
\* A step of one connection disturbs only that one's part of the invariant.
LEMMA OneAtATime ==
    ASSUME AllFine, NEW r \in Relays, Touches(r), Fine(r)'
    PROVE  /\ AllFine'
           /\ \A ch \in Channels :
                /\ UnderWay(ch)' \ {r} = UnderWay(ch) \ {r}
                /\ r \in UnderWay(ch)' <=> (Tracked(r) /\ Channel(r) = ch /\ Live(r)')
<1>1. \A q \in Relays \ {r} : Fine(q)'
    BY DEF Touches, AllFine, Fine, Escapes, Muted
<1>2. \A q \in Relays : /\ Tracked(q)' = Tracked(q)
                        /\ Channel(q)' = Channel(q)
    BY DEF Touches, Tracked, Channel
<1>3. \A q \in Relays \ {r} : Live(q)' = Live(q)
    BY DEF Touches, Live
<1>. QED
    BY <1>1, <1>2, <1>3 DEF AllFine, Touches, UnderWay

\* A step that neither begins nor ends a relay keeps the count.
LEMMA Quiet ==
    ASSUME IInv, NEW r \in Relays, Touches(r), Fine(r)', Live(r)' <=> Live(r),
           UNCHANGED <<active, gauge>>
    PROVE  IInv'
<1>1. AllFine' /\ \A ch \in Channels : UnderWay(ch)' = UnderWay(ch)
    BY OneAtATime DEF IInv, UnderWay
<1>. QED
    BY <1>1 DEF IInv, Counted

\* A relay that begins is counted once.
LEMMA Enters ==
    ASSUME IInv, NEW r \in Relays, Touches(r), Fine(r)', ~Live(r), Live(r)', Enter(r)
    PROVE  IInv'
<1>1. /\ AllFine'
      /\ \A ch \in Channels :
            UnderWay(ch)' = IF Tracked(r) /\ Channel(r) = ch THEN UnderWay(ch) \cup {r}
                                                             ELSE UnderWay(ch)
      /\ \A ch \in Channels : r \notin UnderWay(ch)
    BY OneAtATime DEF IInv, UnderWay
<1>2. Channel(r) \in Channels
    BY DEF Channel, Channels
<1>3. ASSUME NEW ch \in Channels
      PROVE  /\ IsFiniteSet(UnderWay(ch)')
             /\ active'[ch] = Cardinality(UnderWay(ch)')
             /\ gauge'[ch] = active'[ch]
  <2>1. CASE Tracked(r) /\ Channel(r) = ch
    <3>1. UnderWay(ch)' = UnderWay(ch) \cup {r}
        BY <1>1, <2>1
    <3>2. /\ IsFiniteSet(UnderWay(ch) \cup {r})
          /\ Cardinality(UnderWay(ch) \cup {r}) = Cardinality(UnderWay(ch)) + 1
        BY <1>1, FS_AddElement DEF IInv, Counted
    <3>. QED
        BY <2>1, <3>1, <3>2 DEF Enter, IInv, Counted
  <2>2. CASE ~(Tracked(r) /\ Channel(r) = ch)
      BY <1>1, <1>2, <2>2 DEF Enter, IInv, Counted
  <2>. QED
      BY <2>1, <2>2
<1>. QED
    BY <1>1, <1>3 DEF IInv, Counted, Enter

\* A relay that ends is counted no more.
LEMMA Leaves ==
    ASSUME IInv, NEW r \in Relays, Touches(r), Fine(r)', Live(r), ~Live(r)', Leave(r)
    PROVE  IInv'
<1>1. /\ AllFine'
      /\ \A ch \in Channels :
            UnderWay(ch)' = IF Tracked(r) /\ Channel(r) = ch THEN UnderWay(ch) \ {r}
                                                             ELSE UnderWay(ch)
      /\ \A ch \in Channels : Tracked(r) /\ Channel(r) = ch => r \in UnderWay(ch)
    BY OneAtATime DEF IInv, UnderWay
<1>2. Channel(r) \in Channels
    BY DEF Channel, Channels
<1>3. ASSUME NEW ch \in Channels
      PROVE  /\ IsFiniteSet(UnderWay(ch)')
             /\ active'[ch] = Cardinality(UnderWay(ch)')
             /\ gauge'[ch] = active'[ch]
  <2>1. CASE Tracked(r) /\ Channel(r) = ch
    <3>1. UnderWay(ch)' = UnderWay(ch) \ {r}
        BY <1>1, <2>1
    <3>2. /\ IsFiniteSet(UnderWay(ch) \ {r})
          /\ Cardinality(UnderWay(ch) \ {r}) = Cardinality(UnderWay(ch)) - 1
        BY <1>1, <2>1, FS_RemoveElement DEF IInv, Counted
    <3>. QED
        BY <2>1, <3>1, <3>2 DEF Leave, IInv, Counted
  <2>2. CASE ~(Tracked(r) /\ Channel(r) = ch)
      BY <1>1, <1>2, <2>2 DEF Leave, IInv, Counted
  <2>. QED
      BY <2>1, <2>2
<1>. QED
    BY <1>1, <1>3 DEF IInv, Counted, Leave

-----------------------------------------------------------------------------
\* Every relay is new, and nothing is counted.
LEMMA InitIInv == Init => IInv
<1> SUFFICES ASSUME Init PROVE IInv
    OBVIOUS
<1>1. \A r \in Relays : DOMAIN conn[r] = Fields /\ Fine(r) /\ ~Live(r)
  <2> TAKE r \in Relays
  <2>1. PICK k : conn[r] = Arriving(k)
      BY DEF Init
  <2>2. /\ DOMAIN conn[r] = Fields
        /\ conn[r].phase = "new" /\ conn[r].client = "waiting"
        /\ conn[r].up = "none" /\ conn[r].c2r = "idle" /\ conn[r].r2c = "idle"
      BY <2>1 DEF Arriving, Fields
  <2>. QED
      BY <2>2 DEF Fine, Muted, RunnersEnds, Live
<1>2. AllFine
    BY <1>1 DEF Init, AllFine
<1>3. \A ch \in Channels : UnderWay(ch) = {}
    BY <1>1 DEF UnderWay
<1>. QED
    BY <1>2, <1>3, FS_EmptySet DEF Init, IInv, Counted

\* A connection that is refused was never counted.
LEMMA RefusePreserves ==
    ASSUME IInv, NEW r \in Relays, Refuse(r)
    PROVE  IInv'
<1>1. /\ Touches(r)
      /\ conn'[r].phase = "done" /\ conn'[r].client \in {"gone", "closed"}
      /\ conn'[r].up = conn[r].up /\ conn'[r].c2r = conn[r].c2r
      /\ conn'[r].r2c = conn[r].r2c
    BY Closes DEF Refuse, IInv, Fields
<1>2. Fine(r)' /\ (Live(r)' <=> Live(r))
    BY <1>1 DEF Refuse, IInv, AllFine, Touches, Fine, Muted, RunnersEnds, Live
<1>. QED
    BY <1>1, <1>2, Quiet DEF Refuse

\* A relay that begins has neither socket nor task on the side of the runner.
LEMMA AdmitPreserves ==
    ASSUME IInv, NEW r \in Relays, Admit(r)
    PROVE  IInv'
<1>1. Touches(r) /\ Fine(r)' /\ (~Live(r) /\ Live(r)')
    BY Updates DEF Admit, IInv, AllFine, Fields, Fine, Muted, RunnersEnds, Live
<1>. QED
    BY <1>1, Enters DEF Admit

\* A forwarded request ends with its response.
LEMMA ForwardPreserves ==
    ASSUME IInv, NEW r \in Relays, Forward(r)
    PROVE  IInv'
<1>1. /\ Touches(r)
      /\ conn'[r].phase = "done" /\ conn'[r].client \in {"gone", "closed"}
      /\ conn'[r].up = conn[r].up /\ conn'[r].c2r = conn[r].c2r
      /\ conn'[r].r2c = conn[r].r2c
    BY Closes DEF Forward, IInv, Fields
<1>2. Fine(r)' /\ (Live(r) /\ ~Live(r)')
    BY <1>1 DEF Forward, IInv, AllFine, Touches, Fine, Muted, RunnersEnds, Live
<1>. QED
    BY <1>1, <1>2, Leaves DEF Forward

\* A runner that is not reached leaves no socket behind.
LEMMA ConnectFailsPreserves ==
    ASSUME IInv, NEW r \in Relays, ConnectFails(r)
    PROVE  IInv'
<1>1. /\ Touches(r)
      /\ conn'[r].phase = "done" /\ conn'[r].client \in {"gone", "closed"}
      /\ conn'[r].up = conn[r].up /\ conn'[r].c2r = conn[r].c2r
      /\ conn'[r].r2c = conn[r].r2c
    BY Closes DEF ConnectFails, IInv, Fields
<1>2. Fine(r)' /\ (Live(r) /\ ~Live(r)')
    BY <1>1 DEF ConnectFails, IInv, AllFine, Touches, Fine, Muted, RunnersEnds, Live
<1>. QED
    BY <1>1, <1>2, Leaves DEF ConnectFails

\* The tasks begin with the upstream open; a client that left meanwhile ends it.
LEMMA ConnectPreserves ==
    ASSUME IInv, NEW r \in Relays, Connect(r)
    PROVE  IInv'
<1>1. CASE conn[r].client = "gone" /\ conn[r].kind # "worker"
  <2>1. /\ Touches(r)
        /\ conn'[r].phase = "done" /\ conn'[r].up = "closed"
        /\ conn'[r].client = conn[r].client /\ conn'[r].c2r = conn[r].c2r
        /\ conn'[r].r2c = conn[r].r2c
      BY <1>1, Updates DEF Connect, IInv, Fields
  <2>2. Fine(r)' /\ Live(r) /\ ~Live(r)'
      BY <1>1, <2>1 DEF Connect, IInv, AllFine, Touches, Fine, Muted, Live
  <2>. QED
      BY <1>1, <2>1, <2>2, Leaves DEF Connect
<1>2. CASE ~(conn[r].client = "gone" /\ conn[r].kind # "worker")
  <2>1. Touches(r) /\ Fine(r)' /\ (Live(r)' <=> Live(r))
      BY <1>2, Updates DEF Connect, IInv, Fields, Fine, Muted, RunnersEnds, Live
  <2>. QED
      BY <1>2, <2>1, Quiet DEF Connect
<1>. QED
    BY <1>1, <1>2

\* Reading from the client goes on or fails.
LEMMA ToRunnerPreserves ==
    ASSUME IInv, NEW r \in Relays, ToRunner(r)
    PROVE  IInv'
<1>1. Touches(r) /\ Fine(r)' /\ (Live(r)' <=> Live(r))
    BY Updates DEF ToRunner, IInv, AllFine, Fields, Fine, Muted, RunnersEnds, Live
<1>. QED
    BY <1>1, Quiet DEF ToRunner

\* The reader of the client returns only at the end of its client.
LEMMA SeesDisconnectPreserves ==
    ASSUME IInv, NEW r \in Relays, SeesDisconnect(r)
    PROVE  IInv'
<1>1. Touches(r) /\ Fine(r)' /\ (Live(r)' <=> Live(r))
    BY Updates DEF SeesDisconnect, IInv, AllFine, Fields, Fine, Muted, RunnersEnds, Live
<1>. QED
    BY <1>1, Quiet DEF SeesDisconnect

\* Reading from the runner goes on, fails or returns.
LEMMA ToClientPreserves ==
    ASSUME IInv, NEW r \in Relays, ToClient(r)
    PROVE  IInv'
<1>1. CASE conn[r].client = "open"
  <2>1. Touches(r) /\ Fine(r)' /\ (Live(r)' <=> Live(r))
      BY <1>1, Updates DEF ToClient, IInv, AllFine, Fields, Fine, Muted, RunnersEnds, Live
  <2>. QED
      BY <2>1, Quiet DEF ToClient
<1>2. CASE conn[r].client # "open"
  <2>1. PICK end \in {"run", "failed", "done"} : Update(r, [rframe |-> FALSE, r2c |-> end])
      BY <1>2 DEF ToClient
  <2>2. /\ Touches(r)
        /\ conn'[r].r2c = end
        /\ conn'[r].phase = conn[r].phase /\ conn'[r].client = conn[r].client
        /\ conn'[r].up = conn[r].up /\ conn'[r].c2r = conn[r].c2r
      BY <2>1, Updates DEF IInv, Fields
  <2>3. Fine(r)' /\ (Live(r)' <=> Live(r))
      BY <2>2 DEF ToClient, Relaying, IInv, AllFine, Touches, Fine, Muted, Live
  <2>. QED
      BY <2>2, <2>3, Quiet DEF ToClient
<1>. QED
    BY <1>1, <1>2

\* The reader of the runner ends with its upstream, closing its client or not.
LEMMA SeesClosePreserves ==
    ASSUME IInv, NEW r \in Relays, SeesClose(r)
    PROVE  IInv'
<1>1. Touches(r) /\ Fine(r)' /\ (Live(r)' <=> Live(r))
    BY Updates, Closes DEF SeesClose, IInv, AllFine, Fields, Fine, Muted, RunnersEnds, Live,
        VncSeesClose, WorkerSeesClose, ControlSeesClose
<1>. QED
    BY <1>1, Quiet DEF SeesClose

\* A wait for the client that times out ends its task.
LEMMA ClientIdlePreserves ==
    ASSUME IInv, NEW r \in Relays, ClientIdle(r)
    PROVE  IInv'
<1>1. Touches(r) /\ Fine(r)' /\ (Live(r)' <=> Live(r))
    BY Updates DEF ClientIdle, IInv, AllFine, Fields, Fine, Muted, RunnersEnds, Live
<1>. QED
    BY <1>1, Quiet DEF ClientIdle

\* A wait for the runner that times out ends its task.
LEMMA RunnerIdlePreserves ==
    ASSUME IInv, NEW r \in Relays, RunnerIdle(r)
    PROVE  IInv'
<1>1. Touches(r) /\ Fine(r)' /\ (Live(r)' <=> Live(r))
    BY Updates DEF RunnerIdle, IInv, AllFine, Fields, Fine, Muted, RunnersEnds, Live
<1>. QED
    BY <1>1, Quiet DEF RunnerIdle

\* A send that times out ends its task.
LEMMA SendStallsPreserves ==
    ASSUME IInv, NEW r \in Relays, SendStalls(r)
    PROVE  IInv'
<1>1. Touches(r) /\ Fine(r)' /\ (Live(r)' <=> Live(r))
    BY Updates DEF SendStalls, IInv, AllFine, Fields, Fine, Muted, RunnersEnds, Live
<1>. QED
    BY <1>1, Quiet DEF SendStalls

\* The wait ends with both tasks ended, and the upstream closed.
LEMMA JoinPreserves ==
    ASSUME IInv, NEW r \in Relays, Join(r)
    PROVE  IInv'
<1>1. /\ Touches(r)
      /\ conn'[r].phase = "unwinding" /\ conn'[r].up = "closed"
      /\ conn'[r].client = conn[r].client
      /\ conn'[r].c2r = Halted(conn[r].c2r) /\ conn'[r].r2c = Halted(conn[r].r2c)
    BY Updates DEF Join, IInv, Fields
<1>2. Fine(r)'
    BY <1>1 DEF Join, IInv, AllFine, Touches, Fine, Muted, Relaying, Raised, Halted
<1>3. Live(r)' <=> Live(r)
    BY <1>1 DEF Join, Live, Relaying
<1>. QED
    BY <1>1, <1>2, <1>3, Quiet DEF Join

\* Unless an exception escapes, the client is closed or had left.
LEMMA UnwindPreserves ==
    ASSUME IInv, NEW r \in Relays, Unwind(r)
    PROVE  IInv'
<1>1. PICK code \in Farewell(r) : IF code = "nothing" THEN Update(r, [phase |-> "done"])
                                    ELSE CloseClient(r, code, [phase |-> "done"])
    BY DEF Unwind
<1>2. /\ Touches(r)
      /\ conn'[r].phase = "done"
      /\ conn'[r].up = conn[r].up /\ conn'[r].c2r = conn[r].c2r
      /\ conn'[r].r2c = conn[r].r2c
  <2>1. CASE code = "nothing"
      BY <1>1, <2>1, Updates DEF IInv, Fields
  <2>2. CASE code # "nothing"
      BY <1>1, <2>2, Closes DEF IInv, Fields
  <2>. QED
      BY <2>1, <2>2
<1>3. CASE code = "nothing"
  <2>1. conn'[r].client = conn[r].client
      BY <1>1, <1>3, Updates DEF IInv, Fields
  <2>2. \/ {conn[r].c2r, conn[r].r2c} \cap Raised = {}
        \/ Escapes(r)
        \/ Muted(r)
      BY <1>3 DEF Farewell
  <2>3. Fine(r)' /\ Live(r) /\ ~Live(r)'
      BY <1>2, <2>1, <2>2 DEF Unwind, IInv, AllFine, Touches, Fine, Muted, Escapes, Live
  <2>. QED
      BY <1>2, <2>3, Leaves DEF Unwind
<1>4. CASE code # "nothing"
  <2>1. conn'[r].client \in {"gone", "closed"}
      BY <1>1, <1>4, Closes DEF IInv, Fields
  <2>2. Fine(r)' /\ Live(r) /\ ~Live(r)'
      BY <1>2, <2>1 DEF Unwind, IInv, AllFine, Touches, Fine, Muted, Live
  <2>. QED
      BY <1>2, <2>2, Leaves DEF Unwind
<1>. QED
    BY <1>3, <1>4

\* A frame of the client changes no end.
LEMMA ClientSendsPreserves ==
    ASSUME IInv, NEW r \in Relays, ClientSends(r)
    PROVE  IInv'
<1>1. Touches(r) /\ Fine(r)' /\ (Live(r)' <=> Live(r))
    BY Updates DEF ClientSends, IInv, AllFine, Fields, Fine, Muted, RunnersEnds, Live, Relaying
<1>. QED
    BY <1>1, Quiet DEF ClientSends

\* A client that leaves will not be there to be told.
LEMMA ClientLeavesPreserves ==
    ASSUME IInv, NEW r \in Relays, ClientLeaves(r)
    PROVE  IInv'
<1>1. Touches(r) /\ Fine(r)' /\ (Live(r)' <=> Live(r))
    BY Updates DEF ClientLeaves, IInv, AllFine, Fields, Fine, Muted, RunnersEnds, Live
<1>. QED
    BY <1>1, Quiet DEF ClientLeaves

\* A frame of the runner changes no end.
LEMMA RunnerSendsPreserves ==
    ASSUME IInv, NEW r \in Relays, RunnerSends(r)
    PROVE  IInv'
<1>1. Touches(r) /\ Fine(r)' /\ (Live(r)' <=> Live(r))
    BY Updates DEF RunnerSends, IInv, AllFine, Fields, Fine, Muted, RunnersEnds, Live
<1>. QED
    BY <1>1, Quiet DEF RunnerSends

\* The runner closes its end of an upstream.
LEMMA RunnerClosesPreserves ==
    ASSUME IInv, NEW r \in Relays, RunnerCloses(r)
    PROVE  IInv'
<1>1. Touches(r) /\ Fine(r)' /\ (Live(r)' <=> Live(r))
    BY Updates DEF RunnerCloses, IInv, AllFine, Fields, Fine, Muted, RunnersEnds, Live
<1>. QED
    BY <1>1, Quiet DEF RunnerCloses

-----------------------------------------------------------------------------
\* Every step preserves the invariant.
LEMMA NextIInv ==
    ASSUME IInv, [Next]_vars
    PROVE  IInv'
<1>1. CASE UNCHANGED vars
    BY <1>1 DEF vars, IInv, AllFine, Counted, Fine, UnderWay, Escapes, Muted, Tracked, Channel,
        Live
<1>2. CASE Next
    BY <1>2, RefusePreserves, AdmitPreserves, ForwardPreserves, ConnectFailsPreserves,
        ConnectPreserves, ToRunnerPreserves, SeesDisconnectPreserves, ToClientPreserves,
        SeesClosePreserves, ClientIdlePreserves, RunnerIdlePreserves, SendStallsPreserves,
        JoinPreserves, UnwindPreserves, ClientSendsPreserves, ClientLeavesPreserves,
        RunnerSendsPreserves, RunnerClosesPreserves DEF Next, Relay, Peers
<1>. QED
    BY <1>1, <1>2

\* Every reachable state satisfies the invariant.
THEOREM Invariance == Spec => []IInv
<1>. QED
    BY InitIInv, NextIInv, PTL DEF Spec

\* A relay that ended - refused, not connected, timed out, or left by either peer -
\* holds no connection to its runner and no task, and the registry counts exactly the
\* connections under way.
THEOREM NothingIsHeld == Spec => []EndedHoldsNothing
<1>1. IInv => EndedHoldsNothing
    BY DEF IInv, AllFine, Fine, Counted, UnderWay, EndedHoldsNothing, CountsExact
<1>. QED
    BY <1>1, Invariance, PTL

\* No ending leaves a client that is still there without a word, except two: on the VNC
\* gateway the one whose exception no handler matches, and on the gateway's session
\* channel the one whose close of the client was refused, its runner having been lost
\* without a close frame causes.
THEOREM ClientsAreTold == Spec => []ToldUnlessEscaped
<1>1. IInv => ToldUnlessEscaped
    BY DEF IInv, AllFine, Fine, ToldUnlessEscaped, Escapes
<1>. QED
    BY <1>1, Invariance, PTL

=============================================================================
