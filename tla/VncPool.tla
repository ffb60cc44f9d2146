------------------------------ MODULE VncPool ------------------------------
(***************************************************************************)
(* The runner's VNC pipelines (services/runner/app/vnc.py).                *)
(*                                                                         *)
(* A pipeline is a display and two ports, taken from three deques, and     *)
(* three helper processes started in turn: Xvfb, x11vnc and websockify.    *)
(* allocate() gives everything back when a step of it raises; release()    *)
(* kills the helpers and returns the triple.  A caller is a task that is   *)
(* inside allocate() or release(), or holds a pipeline between the two.    *)
(*                                                                         *)
(* Abstracted: command lines and URLs.  An Xvfb killed by SIGKILL cannot   *)
(* remove its socket file; the next one on the display replaces the file   *)
(* when it opens its own socket.                                           *)
(***************************************************************************)
EXTENDS Naturals, Sequences, SequencesExt

CONSTANTS
    Callers,                         \* the tasks that allocate pipelines
    NumDisplays, NumPorts, NumWsPorts \* sizes of the configured ranges

ASSUME VncPoolAssumption ==
    /\ NumDisplays \in Nat
    /\ NumPorts \in Nat
    /\ NumWsPorts \in Nat

Displays == 1 .. NumDisplays
Ports == 1 .. NumPorts
WsPorts == 1 .. NumWsPorts
Slots == [display : Displays, port : Ports, ws : WsPorts]
NoSlot == [display |-> 0, port |-> 0, ws |-> 0]

\* The helpers in the order they are started.
Xvfb == 1
X11vnc == 2
Websockify == 3
Kinds == {Xvfb, X11vnc, Websockify}

VARIABLES
    displayPool,   \* the deque of free displays
    portPool,      \* ... of free VNC ports
    wsPool,        \* ... of free websocket ports
    active,        \* _active: the triples given out
    slotOf,        \* the triple a caller works on
    pc,            \* where a caller is
    started,       \* how many helpers are in the caller's list of processes
    running,       \* helper processes that run: <<caller, kind>>
    deafened,      \* callers a log reader of which has died of an overlong line
    socket,        \* displays with a socket file
    opened,        \* callers whose Xvfb has opened its socket
    stranded       \* history: triples whose allocation failed in the clean-up

poolVars == <<displayPool, portPool, wsPool, active>>
processVars == <<started, running, deafened, socket, opened>>
vars == <<poolVars, processVars, slotOf, pc, stranded>>

Numbers(n) == [i \in 1 .. n |-> i]

Init ==
    /\ displayPool = Numbers(NumDisplays)
    /\ portPool = Numbers(NumPorts)
    /\ wsPool = Numbers(NumWsPorts)
    /\ active = {}
    /\ slotOf = [c \in Callers |-> NoSlot]
    /\ pc = [c \in Callers |-> "idle"]
    /\ started = [c \in Callers |-> 0]
    /\ running = {}
    /\ deafened = {}
    /\ socket = {}
    /\ opened = {}
    /\ stranded = {}

Goto(c, place) == pc' = [pc EXCEPT ![c] = place]
DisplayOf(c) == slotOf[c].display

Available == displayPool # <<>> /\ portPool # <<>> /\ wsPool # <<>>

\* _VncResourcePool.acquire; a caller is refused when a deque is empty.
Acquire(c) ==
    /\ pc[c] = "idle"
    /\ Available
    /\ LET slot == [display |-> Head(displayPool), port |-> Head(portPool),
                    ws |-> Head(wsPool)]
       IN /\ slotOf' = [slotOf EXCEPT ![c] = slot]
          /\ active' = active \cup {slot}
    /\ displayPool' = Tail(displayPool)
    /\ portPool' = Tail(portPool)
    /\ wsPool' = Tail(wsPool)
    /\ Goto(c, "xvfb")
    /\ UNCHANGED <<processVars, stranded>>

\* The places at which allocate() starts a helper, and which.
Starts(place) ==
    IF place = "xvfb" THEN Xvfb ELSE IF place = "x11vnc" THEN X11vnc ELSE Websockify

\* ... and where it goes next: x11vnc is not waited for.
AfterStart(place) ==
    IF place = "xvfb" THEN "socket" ELSE IF place = "x11vnc" THEN "websockify" ELSE "port"

\* _spawn_process
SpawnProcess(c) ==
    /\ pc[c] \in {"xvfb", "x11vnc", "websockify"}
    /\ started' = [started EXCEPT ![c] = Starts(pc[c])]
    /\ running' = running \cup {<<c, Starts(pc[c])>>}
    /\ Goto(c, AfterStart(pc[c]))
    /\ UNCHANGED <<poolVars, slotOf, deafened, socket, opened, stranded>>

\* The program cannot be executed: allocate() begins to clean up.
SpawnFails(c) ==
    /\ pc[c] \in {"xvfb", "x11vnc", "websockify"}
    /\ Goto(c, "undo")
    /\ UNCHANGED <<poolVars, slotOf, processVars, stranded>>

\* _wait_for_display_socket: the socket file exists, whoever made it.
SocketSeen(c) ==
    /\ pc[c] = "socket"
    /\ DisplayOf(c) \in socket
    /\ Goto(c, "x11vnc")
    /\ UNCHANGED <<poolVars, slotOf, processVars, stranded>>

\* _wait_for_port: websockify accepts a connection, the pipeline is complete.
PortOpen(c) ==
    /\ pc[c] = "port"
    /\ <<c, Websockify>> \in running
    /\ Goto(c, "held")
    /\ UNCHANGED <<poolVars, slotOf, processVars, stranded>>

\* A helper has exited, or the start-up timeout has passed: VncError.
WaitFails(c) ==
    /\ \/ pc[c] = "socket" /\ DisplayOf(c) \notin socket
       \/ pc[c] = "port"
    /\ Goto(c, "undo")
    /\ UNCHANGED <<poolVars, slotOf, processVars, stranded>>

\* release(): the session ends.
Release(c) ==
    /\ pc[c] = "held"
    /\ Goto(c, "close")
    /\ UNCHANGED <<poolVars, slotOf, processVars, stranded>>

\* _terminate_processes kills the helpers, the last first, and waits for each.
Kill(c) ==
    /\ pc[c] \in {"undo", "close"}
    /\ started[c] > 0
    /\ running' = running \ {<<c, started[c]>>}
    /\ started' = [started EXCEPT ![c] = @ - 1]
    /\ opened' = IF started[c] = Xvfb THEN opened \ {c} ELSE opened
    /\ UNCHANGED <<poolVars, slotOf, pc, deafened, socket, stranded>>

Forget(c) ==
    /\ slotOf' = [slotOf EXCEPT ![c] = NoSlot]
    /\ deafened' = deafened \ {c}
    /\ Goto(c, "idle")
    /\ UNCHANGED <<started, running, socket, opened>>

\* Fault: the websocket port is not given back.
ReturnedIncomplete(c) ==
    /\ active' = active \ {slotOf[c]}
    /\ displayPool' = Append(displayPool, DisplayOf(c))
    /\ portPool' = Append(portPool, slotOf[c].port)
    /\ UNCHANGED wsPool

\* _VncResourcePool.release
Returned(c) ==
    IF slotOf[c] \in active
    THEN /\ active' = active \ {slotOf[c]}
         /\ displayPool' = Append(displayPool, DisplayOf(c))
         /\ portPool' = Append(portPool, slotOf[c].port)
         /\ wsPool' = Append(wsPool, slotOf[c].ws)
    ELSE UNCHANGED poolVars

\* Fault: allocate() gives the triple back before it kills the helpers.
UndoneEarly(c) ==
    /\ pc[c] = "undo"
    /\ Returned(c)
    /\ Forget(c)
    /\ UNCHANGED stranded

\* The helpers are dead and their log readers too: allocate() returns the triple.
Undone(c) ==
    /\ pc[c] = "undo" /\ started[c] = 0
    /\ c \notin deafened
    /\ Returned(c)
    /\ Forget(c)
    /\ UNCHANGED stranded

\* A log reader that died raises again when the clean-up awaits it: allocate()
\* leaves without returning the triple.
UndoRaises(c) ==
    /\ pc[c] = "undo" /\ started[c] = 0
    /\ c \in deafened
    /\ stranded' = stranded \cup {slotOf[c]}
    /\ Forget(c)
    /\ UNCHANGED poolVars

\* close() returns the triple in a finally, raise or not.
Closed(c) ==
    /\ pc[c] = "close" /\ started[c] = 0
    /\ Returned(c)
    /\ Forget(c)
    /\ UNCHANGED stranded

-----------------------------------------------------------------------------
(* What the helpers do by themselves. *)

\* Xvfb opens its socket, in place of a file it finds.
XvfbOpens(c) ==
    /\ <<c, Xvfb>> \in running
    /\ opened' = opened \cup {c}
    /\ socket' = socket \cup {DisplayOf(c)}
    /\ UNCHANGED <<poolVars, slotOf, pc, started, running, deafened, stranded>>

\* A helper exits; an Xvfb that exits by itself removes its socket file.
HelperExits(c, k) ==
    /\ <<c, k>> \in running
    /\ running' = running \ {<<c, k>>}
    /\ opened' = IF k = Xvfb THEN opened \ {c} ELSE opened
    /\ socket' = IF k = Xvfb /\ c \in opened THEN socket \ {DisplayOf(c)} ELSE socket
    /\ UNCHANGED <<poolVars, slotOf, pc, started, deafened, stranded>>

\* A line longer than the stream's limit kills the task that reads it.
ReaderDies(c) ==
    /\ \E k \in Kinds : <<c, k>> \in running
    /\ deafened' = deafened \cup {c}
    /\ UNCHANGED <<poolVars, slotOf, pc, started, running, socket, opened, stranded>>

Allocate(c) ==
    \/ Acquire(c)
    \/ SpawnProcess(c)
    \/ SpawnFails(c)
    \/ SocketSeen(c)
    \/ PortOpen(c)
    \/ WaitFails(c)
    \/ Undone(c)
    \/ UndoRaises(c)

Next ==
    \/ \E c \in Callers : Allocate(c) \/ Release(c) \/ Kill(c) \/ Closed(c)
    \/ \E c \in Callers : XvfbOpens(c) \/ ReaderDies(c)
    \/ \E c \in Callers, k \in Kinds : HelperExits(c, k)

Spec == Init /\ [][Next]_vars

-----------------------------------------------------------------------------
(***************************************************************************)
(* Properties.                                                             *)
(***************************************************************************)

\* The types of the pool's fields and of a caller's place in a method.
TypeOK ==
    /\ displayPool \in Seq(Displays) /\ portPool \in Seq(Ports) /\ wsPool \in Seq(WsPorts)
    /\ active \subseteq Slots
    /\ slotOf \in [Callers -> Slots \cup {NoSlot}]
    /\ pc \in [Callers -> {"idle", "xvfb", "socket", "x11vnc", "websockify", "port",
                            "held", "undo", "close"}]
    /\ started \in [Callers -> 0 .. 3]
    /\ running \subseteq Callers \X Kinds
    /\ deafened \subseteq Callers
    /\ socket \subseteq Displays
    /\ opened \subseteq Callers
    /\ stranded \subseteq Slots

\* Every display and port is free, once, or part of one triple given out,
\* although the deques may have different lengths and triples come back in
\* another order than they left.
Conserved ==
    /\ \A a, b \in active :
          a # b => a.display # b.display /\ a.port # b.port /\ a.ws # b.ws
    /\ IsInjective(displayPool) /\ IsInjective(portPool) /\ IsInjective(wsPool)
    /\ ToSet(displayPool) = Displays \ {s.display : s \in active}
    /\ ToSet(portPool) = Ports \ {s.port : s \in active}
    /\ ToSet(wsPool) = WsPorts \ {s.ws : s \in active}

\* A triple given out is some caller's, or was lost by a clean-up that raised;
\* and whatever step failed, no helper runs on a display that is free for the
\* next allocation, or outlives the call that had started it.
PipelinesHaveOwners ==
    /\ \A s \in active : s \in stranded \/ \E c \in Callers : slotOf[c] = s
    /\ \A c \in Callers, k \in Kinds :
          <<c, k>> \in running => slotOf[c] \in active /\ k <= started[c]
=============================================================================
