------------------------------- MODULE Relays -------------------------------
(***************************************************************************)
(* The websocket relays between a client and a runner, one process per      *)
(* connection:                                                              *)
(*   "vnc"     the VNC gateway (camou_vnc_gateway/proxy.py, routes.py)       *)
(*   "control" the gateway's session channel (services/runner_ws_proxy.py)   *)
(*   "worker"  the worker's session channel (worker/service.py)              *)
(* and "http", the VNC gateway's forwarded requests, which share with "vnc"  *)
(* the ConnectionRegistry (metrics.py).                                     *)
(*                                                                         *)
(* A relay is two tasks, one per direction, and the code that waits for     *)
(* them.  What differs between the three is when a task ends, which of the  *)
(* ends are errors, and what the client is told.                            *)
(***************************************************************************)
EXTENDS Naturals, FiniteSets

CONSTANTS Relays, Kinds

ASSUME RelaysAssumption == Kinds \subseteq {"vnc", "http", "control", "worker"}

VARIABLES conn,     \* relay -> the state of its two sockets and two tasks
          active,   \* ConnectionRegistry._active, per channel
          gauge     \* the exported gauge, per channel; 0: label removed

vars == <<conn, active, gauge>>

Channels == {"http", "ws"}
Channel(r) == IF conn[r].kind = "http" THEN "http" ELSE "ws"
Tracked(r) == conn[r].kind \in {"vnc", "http"}

(***************************************************************************)
(* A connection's record.                                                   *)
(*   phase   new, connecting, relaying, unwinding, done                     *)
(*   client  waiting (not accepted yet), open, gone (it left), closed       *)
(*   told    what the client was told: nothing, normal, policy, error,      *)
(*           response                                                       *)
(*   up      the runner's end: none, open, ended, broken (closed with an    *)
(*           error), lost (gone without a close frame), closed (by us)      *)
(*   c2r, r2c  the two tasks: idle, run, done, late (timed out), failed,    *)
(*           refused (failed closing the client), cancelled                 *)
(*   cframe, rframe  a frame of the client, of the runner, waits to be read *)
(***************************************************************************)
Arriving(k) == [kind |-> k, phase |-> "new", client |-> "waiting", told |-> "nothing",
                up |-> "none", c2r |-> "idle", r2c |-> "idle",
                cframe |-> FALSE, rframe |-> FALSE]

Init == /\ conn \in [Relays -> {Arriving(k) : k \in Kinds}]
        /\ active = [ch \in Channels |-> 0]
        /\ gauge = [ch \in Channels |-> 0]

Update(r, changes) ==
    conn' = [conn EXCEPT ![r] = [f \in DOMAIN @ |->
                IF f \in DOMAIN changes THEN changes[f] ELSE @[f]]]

\* websocket.close: to a client that left it does nothing.
Closed(r, code) ==
    IF conn[r].client \in {"waiting", "open"}
      THEN [client |-> "closed", told |-> code]
      ELSE [client |-> conn[r].client, told |-> conn[r].told]

CloseClient(r, code, rest) ==
    Update(r, [f \in {"client", "told"} \cup DOMAIN rest |->
                 IF f \in DOMAIN rest THEN rest[f] ELSE Closed(r, code)[f]])

(***************************************************************************)
(* ConnectionRegistry.track: entering and leaving, each under the lock.     *)
(***************************************************************************)
Enter(r) ==
    IF ~Tracked(r) THEN UNCHANGED <<active, gauge>>
    ELSE /\ active' = [active EXCEPT ![Channel(r)] = @ + 1]
         /\ gauge' = [gauge EXCEPT ![Channel(r)] = active[Channel(r)] + 1]

Leave(r) ==
    IF ~Tracked(r) THEN UNCHANGED <<active, gauge>>
    ELSE /\ active' = [active EXCEPT ![Channel(r)] = @ - 1]
         /\ gauge' = [gauge EXCEPT ![Channel(r)] = active[Channel(r)] - 1]

(***************************************************************************)
(* Arrival.  Refused: no valid token, session or upstream endpoint.  The     *)
(* worker has accepted the client before it looks the session up.           *)
(***************************************************************************)
RefusalCodes(kind) == CASE kind = "http" -> {"response"}
                        [] kind = "control" -> {"policy", "error"}
                        [] OTHER -> {"policy"}

Refuse(r) ==
    /\ conn[r].phase = "new"
    /\ \E code \in RefusalCodes(conn[r].kind) : CloseClient(r, code, [phase |-> "done"])
    /\ UNCHANGED <<active, gauge>>

Admit(r) ==
    /\ conn[r].phase = "new"
    /\ Update(r, [phase |-> "connecting",
                  client |-> IF conn[r].kind = "worker" /\ conn[r].client = "waiting"
                               THEN "open" ELSE conn[r].client])
    /\ Enter(r)

\* forward_http: one request, one response (400 for a bad port, 500 if the
\* runner cannot be reached).
Forward(r) ==
    /\ conn[r].phase = "connecting" /\ conn[r].kind = "http"
    /\ CloseClient(r, "response", [phase |-> "done"])
    /\ Leave(r)

\* Fault: the count is taken back only where the relay ran.
ConnectFailsCounted(r) ==
    /\ conn[r].phase = "connecting" /\ conn[r].kind # "http"
    /\ CloseClient(r, "error", [phase |-> "done"])
    /\ UNCHANGED <<active, gauge>>

\* The runner cannot be reached in time; for "vnc" also a bad target port.
ConnectFails(r) ==
    /\ conn[r].phase = "connecting" /\ conn[r].kind # "http"
    /\ \E code \in IF conn[r].kind = "vnc" THEN {"policy", "error"} ELSE {"error"} :
          CloseClient(r, code, [phase |-> "done"])
    /\ Leave(r)

\* "vnc" and "control" accept the client once the runner has.  If the client
\* left meanwhile accept raises, and the upstream is closed on the way out.
Connect(r) ==
    /\ conn[r].phase = "connecting" /\ conn[r].kind # "http"
    /\ IF conn[r].client = "gone" /\ conn[r].kind # "worker"
         THEN /\ Update(r, [phase |-> "done", up |-> "closed"]) /\ Leave(r)
         ELSE /\ Update(r, [phase |-> "relaying", up |-> "open", c2r |-> "run", r2c |-> "run",
                            client |-> IF conn[r].client = "gone" THEN "gone" ELSE "open"])
              /\ UNCHANGED <<active, gauge>>

Relaying(r) == conn[r].phase = "relaying"

RunnersEnds == {"ended", "broken", "lost"}
UpstreamOver(r) == conn[r].up \in RunnersEnds \cup {"closed"}

(***************************************************************************)
(* client_to_runner.                                                        *)
(***************************************************************************)
ToRunner(r) ==
    /\ Relaying(r) /\ conn[r].c2r = "run" /\ conn[r].cframe
    /\ IF conn[r].up = "open"
         THEN Update(r, [cframe |-> FALSE])
         ELSE Update(r, [cframe |-> FALSE, c2r |-> "failed"])   \* ConnectionClosed
    /\ UNCHANGED <<active, gauge>>

\* The disconnect message: after the client's frames, also when the relay
\* itself closed the client.  "control" passes the close code on, and the
\* websockets library refuses some of them.
SeesDisconnect(r) ==
    /\ Relaying(r) /\ conn[r].c2r = "run" /\ ~conn[r].cframe
    /\ conn[r].client \in {"gone", "closed"}
    /\ \E end \in {"done"} \cup (IF conn[r].kind = "control" THEN {"failed"} ELSE {}) :
          Update(r, [c2r |-> end,
                     up |-> IF conn[r].up = "open" /\ end = "done" THEN "closed"
                                                                   ELSE conn[r].up])
    /\ UNCHANGED <<active, gauge>>

(***************************************************************************)
(* runner_to_client.  recv gives the frames that arrived before the close.  *)
(***************************************************************************)
ToClient(r) ==
    /\ Relaying(r) /\ conn[r].r2c = "run" /\ conn[r].rframe
    /\ \/ conn[r].client = "open" /\ Update(r, [rframe |-> FALSE])
       \* Sending to a client that is gone: ignored, RuntimeError or
       \* WebSocketDisconnect; "vnc" ends the task quietly on the second.
       \/ /\ conn[r].client # "open"
          /\ \E end \in {"run", "failed"} \cup (IF conn[r].kind = "vnc" THEN {"done"} ELSE {}) :
                Update(r, [rframe |-> FALSE, r2c |-> end])
    /\ UNCHANGED <<active, gauge>>

\* Fault: the worker's forwarder has no finally block.
SeesCloseQuietly(r) ==
    /\ Relaying(r) /\ conn[r].r2c = "run" /\ ~conn[r].rframe
    /\ UpstreamOver(r)
    /\ Update(r, [r2c |-> "done"])
    /\ UNCHANGED <<active, gauge>>

\* The upstream is closed, by the runner or by the other task.  "vnc" only
\* leaves the loop.
VncSeesClose(r) == conn[r].kind = "vnc" /\ Update(r, [r2c |-> "done"])

\* "worker" closes the client whatever happened.
WorkerSeesClose(r) ==
    /\ conn[r].kind = "worker"
    /\ CloseClient(r, "normal",
                   [r2c |-> IF conn[r].up \in {"broken", "lost"} THEN "failed" ELSE "done"])

\* "control" passes the runner's error code on; after a normal close the
\* iteration over the upstream ends without the exception its handler waits for.
\* A lost connection has code 1006, which must not be sent: close raises, and has
\* already set application_state to DISCONNECTED.
ControlSeesClose(r) ==
    /\ conn[r].kind = "control"
    /\ CASE conn[r].up = "broken" -> CloseClient(r, "error", [r2c |-> "failed"])
         [] conn[r].up = "lost"   -> Update(r, [r2c |-> "refused"])
         [] OTHER                 -> Update(r, [r2c |-> "done"])

SeesClose(r) ==
    /\ Relaying(r) /\ conn[r].r2c = "run" /\ ~conn[r].rframe
    /\ UpstreamOver(r)
    /\ VncSeesClose(r) \/ WorkerSeesClose(r) \/ ControlSeesClose(r)
    /\ UNCHANGED <<active, gauge>>

(***************************************************************************)
(* Only "vnc" bounds its waits: 30 s for a frame (ws_idle_timeout), 15 s for *)
(* a send (ws_send_timeout).                                                 *)
(***************************************************************************)
ClientIdle(r) ==
    /\ Relaying(r) /\ conn[r].kind = "vnc" /\ conn[r].c2r = "run"
    /\ ~conn[r].cframe /\ conn[r].client = "open"
    /\ Update(r, [c2r |-> "late"])
    /\ UNCHANGED <<active, gauge>>

RunnerIdle(r) ==
    /\ Relaying(r) /\ conn[r].kind = "vnc" /\ conn[r].r2c = "run"
    /\ ~conn[r].rframe /\ conn[r].up = "open"
    /\ Update(r, [r2c |-> "late"])
    /\ UNCHANGED <<active, gauge>>

SendStalls(r) ==
    /\ Relaying(r) /\ conn[r].kind = "vnc"
    /\ \/ conn[r].c2r = "run" /\ conn[r].cframe /\ conn[r].up = "open"
          /\ Update(r, [c2r |-> "late"])
       \/ conn[r].r2c = "run" /\ conn[r].rframe /\ Update(r, [r2c |-> "late"])
    /\ UNCHANGED <<active, gauge>>

(***************************************************************************)
(* The wait for the two tasks (TaskGroup, or asyncio.wait FIRST_EXCEPTION):  *)
(* over when one raised or both returned.  A task still running is           *)
(* cancelled, and the upstream is closed on the way out.                     *)
(***************************************************************************)
Raised == {"late", "failed", "refused"}
Halted(t) == IF t = "run" THEN "cancelled" ELSE t

Join(r) ==
    /\ Relaying(r)
    /\ \/ conn[r].c2r \in Raised \/ conn[r].r2c \in Raised
       \/ conn[r].c2r = "done" /\ conn[r].r2c = "done"
    /\ Update(r, [phase |-> "unwinding", up |-> "closed",
                  c2r |-> Halted(conn[r].c2r), r2c |-> Halted(conn[r].r2c)])
    /\ UNCHANGED <<active, gauge>>

\* "vnc": except* unwraps a RelayTimeoutError and its handler closes with 1011.
\* Any other exception is still in its ExceptionGroup, which no handler of
\* forward_websocket matches.
Escapes(r) == conn[r].kind = "vnc" /\ "failed" \in {conn[r].c2r, conn[r].r2c}

\* The router closes the client only if application_state is not DISCONNECTED,
\* which it is once a close was attempted.
Muted(r) == conn[r].r2c = "refused"

\* Fault: the router does not handle the relay's error.
FarewellForgotten(r) == {"nothing"}

Farewell(r) ==
    IF {conn[r].c2r, conn[r].r2c} \cap Raised = {} \/ Escapes(r) \/ Muted(r) THEN {"nothing"}
    ELSE IF conn[r].kind = "worker" THEN {"normal", "error"} ELSE {"error"}

Unwind(r) ==
    /\ conn[r].phase = "unwinding"
    /\ \E code \in Farewell(r) :
          IF code = "nothing" THEN Update(r, [phase |-> "done"])
                              ELSE CloseClient(r, code, [phase |-> "done"])
    /\ Leave(r)

(***************************************************************************)
(* The two peers.                                                           *)
(***************************************************************************)
ClientSends(r) ==
    /\ Relaying(r) /\ conn[r].client = "open" /\ ~conn[r].cframe
    /\ Update(r, [cframe |-> TRUE]) /\ UNCHANGED <<active, gauge>>

ClientLeaves(r) ==
    /\ conn[r].client \in {"waiting", "open"} /\ conn[r].phase # "done"
    /\ Update(r, [client |-> "gone"]) /\ UNCHANGED <<active, gauge>>

RunnerSends(r) ==
    /\ Relaying(r) /\ conn[r].up = "open" /\ ~conn[r].rframe
    /\ Update(r, [rframe |-> TRUE]) /\ UNCHANGED <<active, gauge>>

RunnerCloses(r) ==
    /\ Relaying(r) /\ conn[r].up = "open"
    /\ \E how \in RunnersEnds : Update(r, [up |-> how])
    /\ UNCHANGED <<active, gauge>>

Relay(r) ==
    \/ Refuse(r) \/ Admit(r) \/ Forward(r) \/ ConnectFails(r) \/ Connect(r)
    \/ ToRunner(r) \/ SeesDisconnect(r) \/ ToClient(r) \/ SeesClose(r)
    \/ Join(r) \/ Unwind(r)

Peers(r) == ClientSends(r) \/ ClientLeaves(r) \/ RunnerSends(r) \/ RunnerCloses(r)

Next == \E r \in Relays :
           \/ Relay(r) \/ Peers(r)
           \/ ClientIdle(r) \/ RunnerIdle(r) \/ SendStalls(r)

(***************************************************************************)
(* The event loop runs every ready task and the clock reaches the idle      *)
(* timeout of a client that stays silent.  Peers owe nothing.               *)
(***************************************************************************)
Fairness == \A r \in Relays :
    /\ WF_vars(Refuse(r) \/ Admit(r)) /\ WF_vars(Forward(r) \/ ConnectFails(r) \/ Connect(r))
    /\ WF_vars(ToRunner(r) \/ SeesDisconnect(r)) /\ WF_vars(ToClient(r) \/ SeesClose(r))
    /\ WF_vars(Join(r)) /\ WF_vars(Unwind(r)) /\ WF_vars(ClientIdle(r))

Spec == Init /\ [][Next]_vars /\ Fairness

-----------------------------------------------------------------------------

Live(r) == conn[r].phase \in {"connecting", "relaying", "unwinding"}

\* The registry counts exactly the connections under way, and exports no gauge
\* for a finished channel.
CountsExact ==
    \A ch \in Channels :
        /\ active[ch] = Cardinality({r \in Relays : Tracked(r) /\ Channel(r) = ch /\ Live(r)})
        /\ gauge[ch] = active[ch]

\* A relay that ended - by a refusal, a failed handshake, a timeout, an escaping
\* exception, either peer - holds nothing: its connection to the runner is
\* closed, no task of it is left, and ConnectionRegistry has forgotten it.
EndedHoldsNothing ==
    /\ \A r \in Relays : conn[r].phase = "done" =>
          conn[r].up \in {"none", "closed"} /\ "run" \notin {conn[r].c2r, conn[r].r2c}
    /\ CountsExact

\* Every ending tells a client that is still there, with two exceptions.  On the
\* VNC gateway a frame sent after the runner closed raises ConnectionClosed in a
\* task, and no handler of forward_websocket matches the group around it
\* (proxy.py's docstring promises an orderly close for any failure).  On the
\* gateway's channel a runner lost without a close frame makes the relay close its
\* client with a code that cannot be sent, and the router then takes it for closed.
ToldUnlessEscaped ==
    \A r \in Relays : conn[r].phase = "done" =>
        \/ conn[r].client \in {"gone", "closed"}
        \/ conn[r].kind = "vnc" /\ Escapes(r)
        \/ conn[r].kind = "control" /\ Muted(r)

\* When the runner closes, the client is closed: on the worker's channel at once,
\* on the VNC gateway - unless the exception escapes - when it has been silent for
\* ws_idle_timeout or sends, on the gateway's channel if the close had an error
\* code.  (After a normal close that channel leaves a silent client waiting for
\* ever, and after a lost connection it ends without closing it.)
RunnerCloseReachesClient ==
    \A r \in Relays :
        Relaying(r) /\ conn[r].up \in (IF conn[r].kind = "control" THEN {"broken"}
                                                                 ELSE RunnersEnds)
            ~> conn[r].client # "open" \/ Escapes(r)

=============================================================================
