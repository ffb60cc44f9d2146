--------------------------- MODULE VncPoolProofs ---------------------------
(***************************************************************************)
(* The safety properties of the VNC pipelines hold for ranges of any sizes *)
(* and any number of callers.                                              *)
(*                                                                         *)
(* Conserved needs that what a caller gives back is not free already, and  *)
(* PipelinesHaveOwners that a caller which forgets its triple has no       *)
(* helper left: both follow from where a caller is in its method.          *)
(***************************************************************************)
EXTENDS VncPool, TLAPS

\* A caller has a triple exactly while it is inside a method or between the two;
\* the triple has been given out, and to nobody else.
Holding ==
    /\ \A c \in Callers : slotOf[c] = NoSlot <=> pc[c] = "idle"
    /\ \A c \in Callers : slotOf[c] # NoSlot => slotOf[c] \in active
    /\ \A c, d \in Callers : c # d /\ slotOf[c] # NoSlot => slotOf[c] # slotOf[d]

\* How many helpers have been started follows from the place in allocate(); the
\* clean-ups may be anywhere on their way down.
Progress ==
    \A c \in Callers :
        /\ pc[c] \in {"idle", "xvfb"} => started[c] = 0
        /\ pc[c] \in {"socket", "x11vnc"} => started[c] = Xvfb
        /\ pc[c] = "websockify" => started[c] = X11vnc

IInv ==
    /\ TypeOK
    /\ Conserved
    /\ PipelinesHaveOwners
    /\ Holding
    /\ Progress

-----------------------------------------------------------------------------
\* popleft() takes the first number out of a deque without repetitions.
LEMMA TakeFirst ==
    ASSUME NEW S, NEW q \in Seq(S), q # <<>>, IsInjective(q)
    PROVE  /\ Head(q) \in S /\ Head(q) \in ToSet(q)
           /\ Tail(q) \in Seq(S)
           /\ IsInjective(Tail(q))
           /\ ToSet(Tail(q)) = ToSet(q) \ {Head(q)}
<1>1. /\ Len(q) \in Nat /\ DOMAIN q = 1 .. Len(q) /\ 1 \in DOMAIN q
      /\ Head(q) = q[1] /\ Head(q) \in S
    OBVIOUS
<1>2. Tail(q) \in Seq(S) /\ DOMAIN Tail(q) = 1 .. Len(q) - 1
    OBVIOUS
<1>3. \A i \in DOMAIN Tail(q) : i + 1 \in DOMAIN q /\ Tail(q)[i] = q[i + 1]
    BY <1>1, <1>2
<1>4. IsInjective(Tail(q))
    BY <1>1, <1>2, <1>3 DEF IsInjective
<1>5. ToSet(Tail(q)) = ToSet(q) \ {Head(q)}
  <2>1. ASSUME NEW e \in ToSet(Tail(q))
        PROVE  e \in ToSet(q) /\ e # Head(q)
    <3>1. PICK i \in DOMAIN Tail(q) : e = Tail(q)[i]
        BY <2>1 DEF ToSet
    <3>2. i + 1 \in DOMAIN q /\ e = q[i + 1] /\ i + 1 # 1
        BY <1>2, <1>3, <3>1
    <3>. QED
        BY <1>1, <3>2 DEF ToSet, IsInjective
  <2>2. ASSUME NEW e \in ToSet(q), e # Head(q)
        PROVE  e \in ToSet(Tail(q))
    <3>1. PICK i \in DOMAIN q : e = q[i]
        BY <2>2 DEF ToSet
    <3>2. i - 1 \in DOMAIN Tail(q) /\ e = Tail(q)[i - 1]
        BY <1>1, <1>2, <1>3, <2>2, <3>1
    <3>. QED
        BY <3>2 DEF ToSet
  <2>. QED
      BY <2>1, <2>2
<1>. QED
    BY <1>1, <1>2, <1>4, <1>5 DEF ToSet

\* append() puts a number back behind the others.
LEMMA GiveBack ==
    ASSUME NEW S, NEW q \in Seq(S), NEW n \in S, IsInjective(q), n \notin ToSet(q)
    PROVE  /\ Append(q, n) \in Seq(S)
           /\ IsInjective(Append(q, n))
           /\ ToSet(Append(q, n)) = ToSet(q) \cup {n}
<1>1. Len(q) \in Nat /\ DOMAIN q = 1 .. Len(q)
    OBVIOUS
<1>2. Append(q, n) \in Seq(S) /\ DOMAIN Append(q, n) = 1 .. Len(q) + 1
    OBVIOUS
<1>3. /\ \A i \in DOMAIN q : i \in DOMAIN Append(q, n) /\ Append(q, n)[i] = q[i]
      /\ Len(q) + 1 \in DOMAIN Append(q, n) /\ Append(q, n)[Len(q) + 1] = n
      /\ \A i \in DOMAIN Append(q, n) : i \in DOMAIN q \/ i = Len(q) + 1
    BY <1>1, <1>2
<1>4. IsInjective(Append(q, n))
    BY <1>1, <1>2, <1>3 DEF IsInjective, ToSet
<1>5. ToSet(Append(q, n)) = ToSet(q) \cup {n}
    BY <1>1, <1>2, <1>3 DEF ToSet
<1>. QED
    BY <1>2, <1>4, <1>5

\* Each deque begins with every number of its range, once.
LEMMA NumbersProperties ==
    ASSUME NEW n \in Nat
    PROVE  /\ Numbers(n) \in Seq(1 .. n)
           /\ IsInjective(Numbers(n))
           /\ ToSet(Numbers(n)) = 1 .. n
    BY DEF Numbers, IsInjective, ToSet

\* The triple of nobody is no triple: numbers begin at 1.
LEMMA NoSlotNotGiven == NoSlot \notin Slots
    BY DEF NoSlot, Slots, Displays

-----------------------------------------------------------------------------
\* The deques are full, and nobody has a pipeline.
LEMMA InitIInv == Init => IInv
<1> SUFFICES ASSUME Init PROVE IInv
    OBVIOUS
<1>1. TypeOK
    BY VncPoolAssumption, NumbersProperties DEF TypeOK, Init, Displays, Ports, WsPorts
<1>2. Conserved
    BY VncPoolAssumption, NumbersProperties DEF Conserved, Init, Displays, Ports, WsPorts
<1>3. PipelinesHaveOwners /\ Holding /\ Progress
    BY DEF PipelinesHaveOwners, Holding, Progress, Init
<1>. QED
    BY <1>1, <1>2, <1>3 DEF IInv

\* The triple that is taken was not given out, and its numbers are not free any more.
LEMMA AcquirePreserves ==
    ASSUME IInv, NEW c \in Callers, Acquire(c)
    PROVE  IInv'
<1> USE DEF IInv
<1> DEFINE slot == [display |-> Head(displayPool), port |-> Head(portPool),
                    ws |-> Head(wsPool)]
<1>1. /\ active' = active \cup {slot}
      /\ slotOf' = [slotOf EXCEPT ![c] = slot]
      /\ displayPool' = Tail(displayPool)
      /\ portPool' = Tail(portPool)
      /\ wsPool' = Tail(wsPool)
      /\ pc' = [pc EXCEPT ![c] = "xvfb"]
      /\ UNCHANGED <<started, running, deafened, socket, opened, stranded>>
    BY DEF Acquire, Goto, processVars
<1>2. /\ Head(displayPool) \in Displays /\ Head(displayPool) \in ToSet(displayPool)
      /\ Tail(displayPool) \in Seq(Displays) /\ IsInjective(Tail(displayPool))
      /\ ToSet(Tail(displayPool)) = ToSet(displayPool) \ {Head(displayPool)}
    BY TakeFirst DEF TypeOK, Conserved, Acquire, Available
<1>3. /\ Head(portPool) \in Ports /\ Head(portPool) \in ToSet(portPool)
      /\ Tail(portPool) \in Seq(Ports) /\ IsInjective(Tail(portPool))
      /\ ToSet(Tail(portPool)) = ToSet(portPool) \ {Head(portPool)}
    BY TakeFirst DEF TypeOK, Conserved, Acquire, Available
<1>4. /\ Head(wsPool) \in WsPorts /\ Head(wsPool) \in ToSet(wsPool)
      /\ Tail(wsPool) \in Seq(WsPorts) /\ IsInjective(Tail(wsPool))
      /\ ToSet(Tail(wsPool)) = ToSet(wsPool) \ {Head(wsPool)}
    BY TakeFirst DEF TypeOK, Conserved, Acquire, Available
<1>5. /\ slot \in Slots
      /\ slot # NoSlot
      /\ \A a \in active : a.display # slot.display /\ a.port # slot.port /\ a.ws # slot.ws
      /\ slot \notin active
  <2>1. slot \in Slots
      BY <1>2, <1>3, <1>4 DEF Slots
  <2>2. slot.display # 0
      BY <1>2 DEF Displays
  <2>3. \A a \in active : a.display # slot.display /\ a.port # slot.port /\ a.ws # slot.ws
      BY <1>2, <1>3, <1>4 DEF Conserved
  <2>. QED
      BY <2>1, <2>2, <2>3 DEF NoSlot
<1> HIDE DEF slot
<1>6. TypeOK'
    BY <1>1, <1>2, <1>3, <1>4, <1>5 DEF TypeOK
<1>7. Conserved'
  <2>1. \A a, b \in active' :
            a # b => a.display # b.display /\ a.port # b.port /\ a.ws # b.ws
      BY <1>1, <1>5 DEF Conserved
  <2>2. ToSet(displayPool') = Displays \ {s.display : s \in active'}
    <3>1. {s.display : s \in active'} = {s.display : s \in active} \cup {slot.display}
        BY <1>1
    <3>2. slot.display = Head(displayPool)
        BY DEF slot
    <3>. QED
        BY <1>1, <1>2, <3>1, <3>2 DEF Conserved
  <2>3. ToSet(portPool') = Ports \ {s.port : s \in active'}
    <3>1. {s.port : s \in active'} = {s.port : s \in active} \cup {slot.port}
        BY <1>1
    <3>2. slot.port = Head(portPool)
        BY DEF slot
    <3>. QED
        BY <1>1, <1>3, <3>1, <3>2 DEF Conserved
  <2>4. ToSet(wsPool') = WsPorts \ {s.ws : s \in active'}
    <3>1. {s.ws : s \in active'} = {s.ws : s \in active} \cup {slot.ws}
        BY <1>1
    <3>2. slot.ws = Head(wsPool)
        BY DEF slot
    <3>. QED
        BY <1>1, <1>4, <3>1, <3>2 DEF Conserved
  <2>. QED
      BY <1>1, <1>2, <1>3, <1>4, <2>1, <2>2, <2>3, <2>4 DEF Conserved
<1>8. Holding'
    BY <1>1, <1>5 DEF Holding, TypeOK
<1>9. PipelinesHaveOwners'
  <2>1. slotOf[c] = NoSlot /\ slotOf'[c] = slot /\ slot \in active'
      BY <1>1 DEF Holding, TypeOK, Acquire
  <2>2. \A d \in Callers \ {c} : slotOf'[d] = slotOf[d]
      BY <1>1
  <2>3. \A s \in active' : s \in stranded' \/ \E d \in Callers : slotOf'[d] = s
    <3>1. ASSUME NEW s \in active, s \notin stranded
          PROVE  \E d \in Callers : slotOf'[d] = s
      <4>1. PICK d \in Callers : slotOf[d] = s
          BY <3>1 DEF PipelinesHaveOwners
      <4>2. d # c
          BY <2>1, <4>1, NoSlotNotGiven DEF TypeOK
      <4>. QED
          BY <2>2, <4>1, <4>2
    <3>. QED
        BY <1>1, <2>1, <3>1
  <2>4. \A d \in Callers, k \in Kinds :
            <<d, k>> \in running' => slotOf'[d] \in active' /\ k <= started'[d]
      BY <1>1, <2>1, <2>2 DEF PipelinesHaveOwners
  <2>. QED
      BY <2>3, <2>4 DEF PipelinesHaveOwners
<1>10. Progress'
    BY <1>1 DEF Progress, Acquire
<1>. QED
    BY <1>6, <1>7, <1>8, <1>9, <1>10

\* A helper is started above those that run already.
LEMMA SpawnProcessPreserves ==
    ASSUME IInv, NEW c \in Callers, SpawnProcess(c)
    PROVE  IInv'
<1> USE DEF IInv
<1>1. Conserved'
    BY DEF Conserved, SpawnProcess, poolVars
<1>2. TypeOK'
    BY DEF TypeOK, SpawnProcess, Goto, Starts, AfterStart, Xvfb, X11vnc, Websockify,
        Kinds, poolVars
<1>3. PipelinesHaveOwners'
    BY DEF PipelinesHaveOwners, TypeOK, Holding, Progress, SpawnProcess, Starts, Xvfb,
        X11vnc, Websockify, Kinds, poolVars
<1>4. Holding'
    BY DEF Holding, SpawnProcess, Goto, AfterStart, poolVars
<1>5. Progress'
    BY DEF Progress, TypeOK, SpawnProcess, Goto, Starts, AfterStart
<1>. QED
    BY <1>1, <1>2, <1>3, <1>4, <1>5

\* Whatever has been started by then, the clean-up may begin.
LEMMA SpawnFailsPreserves ==
    ASSUME IInv, NEW c \in Callers, SpawnFails(c)
    PROVE  IInv'
<1> USE DEF IInv
<1>1. (Conserved /\ PipelinesHaveOwners)'
    BY DEF Conserved, PipelinesHaveOwners, SpawnFails, poolVars, processVars
<1>2. TypeOK'
    BY DEF TypeOK, SpawnFails, Goto, poolVars, processVars
<1>3. Holding'
    BY DEF Holding, SpawnFails, Goto, poolVars
<1>4. Progress'
    BY DEF Progress, SpawnFails, Goto, processVars
<1>. QED
    BY <1>1, <1>2, <1>3, <1>4

\* Nothing is started while the display is waited for.
LEMMA SocketSeenPreserves ==
    ASSUME IInv, NEW c \in Callers, SocketSeen(c)
    PROVE  IInv'
<1> USE DEF IInv
<1>1. (Conserved /\ PipelinesHaveOwners)'
    BY DEF Conserved, PipelinesHaveOwners, SocketSeen, poolVars, processVars
<1>2. TypeOK'
    BY DEF TypeOK, SocketSeen, Goto, poolVars, processVars
<1>3. Holding'
    BY DEF Holding, SocketSeen, Goto, poolVars
<1>4. Progress'
    BY DEF Progress, SocketSeen, Goto, processVars
<1>. QED
    BY <1>1, <1>2, <1>3, <1>4

\* A complete pipeline keeps its triple.
LEMMA PortOpenPreserves ==
    ASSUME IInv, NEW c \in Callers, PortOpen(c)
    PROVE  IInv'
<1> USE DEF IInv
<1>1. (Conserved /\ PipelinesHaveOwners)'
    BY DEF Conserved, PipelinesHaveOwners, PortOpen, poolVars, processVars
<1>2. TypeOK'
    BY DEF TypeOK, PortOpen, Goto, poolVars, processVars
<1>3. Holding'
    BY DEF Holding, PortOpen, Goto, poolVars
<1>4. Progress'
    BY DEF Progress, PortOpen, Goto, processVars
<1>. QED
    BY <1>1, <1>2, <1>3, <1>4

\* Giving up a wait keeps the triple for the clean-up.
LEMMA WaitFailsPreserves ==
    ASSUME IInv, NEW c \in Callers, WaitFails(c)
    PROVE  IInv'
<1> USE DEF IInv
<1>1. (Conserved /\ PipelinesHaveOwners)'
    BY DEF Conserved, PipelinesHaveOwners, WaitFails, poolVars, processVars
<1>2. TypeOK'
    BY DEF TypeOK, WaitFails, Goto, poolVars, processVars
<1>3. Holding'
    BY DEF Holding, WaitFails, Goto, poolVars
<1>4. Progress'
    BY DEF Progress, WaitFails, Goto, processVars
<1>. QED
    BY <1>1, <1>2, <1>3, <1>4

\* close() begins with the triple of its session.
LEMMA ReleasePreserves ==
    ASSUME IInv, NEW c \in Callers, Release(c)
    PROVE  IInv'
<1> USE DEF IInv
<1>1. (Conserved /\ PipelinesHaveOwners)'
    BY DEF Conserved, PipelinesHaveOwners, Release, poolVars, processVars
<1>2. TypeOK'
    BY DEF TypeOK, Release, Goto, poolVars, processVars
<1>3. Holding'
    BY DEF Holding, Release, Goto, poolVars
<1>4. Progress'
    BY DEF Progress, Release, Goto, processVars
<1>. QED
    BY <1>1, <1>2, <1>3, <1>4

\* The helper that is killed is the last one started.
LEMMA KillPreserves ==
    ASSUME IInv, NEW c \in Callers, Kill(c)
    PROVE  IInv'
<1> USE DEF IInv
<1>1. (Conserved /\ Holding)'
    BY DEF Conserved, Holding, Kill, poolVars
<1>2. TypeOK'
    BY DEF TypeOK, Kill, poolVars
<1>3. PipelinesHaveOwners'
  <2>1. ASSUME NEW d \in Callers, NEW k \in Kinds, <<d, k>> \in running'
        PROVE  slotOf'[d] \in active' /\ k <= started'[d]
    <3>1. <<d, k>> \in running /\ (d = c => k # started[c])
        BY <2>1 DEF Kill
    <3>2. slotOf[d] \in active /\ k <= started[d]
        BY <3>1 DEF PipelinesHaveOwners
    <3>3. k \in Int /\ started[d] \in Int
        BY DEF TypeOK, Kinds, Xvfb
    <3>4. started'[d] = IF d = c THEN started[c] - 1 ELSE started[d]
        BY DEF Kill, TypeOK
    <3>. QED
        BY <3>1, <3>2, <3>3, <3>4 DEF Kill, poolVars
  <2>. QED
      BY <2>1 DEF PipelinesHaveOwners, Kill, poolVars
<1>4. Progress'
    BY DEF Progress, Kill
<1>. QED
    BY <1>1, <1>2, <1>3, <1>4

\* A caller that gives its triple back puts three numbers in the deques that were in
\* none, and no other caller has the triple.
LEMMA ReturnedPreserves ==
    ASSUME IInv, NEW c \in Callers, pc[c] \in {"undo", "close"}, started[c] = 0,
           Returned(c), Forget(c), UNCHANGED stranded
    PROVE  IInv'
<1> USE DEF IInv
<1> DEFINE slot == slotOf[c]
<1>1. slot \in active /\ slot \in Slots
    BY DEF Holding, TypeOK
<1>2. /\ active' = active \ {slot}
      /\ displayPool' = Append(displayPool, slot.display)
      /\ portPool' = Append(portPool, slot.port)
      /\ wsPool' = Append(wsPool, slot.ws)
      /\ slotOf' = [slotOf EXCEPT ![c] = NoSlot]
      /\ pc' = [pc EXCEPT ![c] = "idle"]
      /\ deafened' = deafened \ {c}
      /\ UNCHANGED <<started, running, socket, opened, stranded>>
    BY <1>1 DEF Returned, Forget, Goto, DisplayOf
<1>3. /\ slot.display \in Displays /\ slot.display \notin ToSet(displayPool)
      /\ slot.port \in Ports /\ slot.port \notin ToSet(portPool)
      /\ slot.ws \in WsPorts /\ slot.ws \notin ToSet(wsPool)
    BY <1>1 DEF Conserved, Slots
<1>4. /\ displayPool' \in Seq(Displays) /\ IsInjective(displayPool')
      /\ ToSet(displayPool') = ToSet(displayPool) \cup {slot.display}
    BY <1>2, <1>3, GiveBack DEF TypeOK, Conserved
<1>5. /\ portPool' \in Seq(Ports) /\ IsInjective(portPool')
      /\ ToSet(portPool') = ToSet(portPool) \cup {slot.port}
    BY <1>2, <1>3, GiveBack DEF TypeOK, Conserved
<1>6. /\ wsPool' \in Seq(WsPorts) /\ IsInjective(wsPool')
      /\ ToSet(wsPool') = ToSet(wsPool) \cup {slot.ws}
    BY <1>2, <1>3, GiveBack DEF TypeOK, Conserved
<1>7. \A a \in active' : a.display # slot.display /\ a.port # slot.port /\ a.ws # slot.ws
    BY <1>1, <1>2 DEF Conserved
<1> HIDE DEF slot
<1>8. TypeOK'
    BY <1>2, <1>4, <1>5, <1>6 DEF TypeOK
<1>9. Conserved'
  <2>1. \A a, b \in active' :
            a # b => a.display # b.display /\ a.port # b.port /\ a.ws # b.ws
      BY <1>2 DEF Conserved
  <2>2. ToSet(displayPool') = Displays \ {s.display : s \in active'}
      BY <1>2, <1>3, <1>4, <1>7 DEF Conserved
  <2>3. ToSet(portPool') = Ports \ {s.port : s \in active'}
      BY <1>2, <1>3, <1>5, <1>7 DEF Conserved
  <2>4. ToSet(wsPool') = WsPorts \ {s.ws : s \in active'}
      BY <1>2, <1>3, <1>6, <1>7 DEF Conserved
  <2>. QED
      BY <1>4, <1>5, <1>6, <2>1, <2>2, <2>3, <2>4 DEF Conserved
<1>10. Holding'
    BY <1>2 DEF Holding, TypeOK, slot
<1>11. PipelinesHaveOwners'
  <2>1. \A k \in Kinds : <<c, k>> \notin running
    <3>1. \A k \in Kinds : ~(k <= 0)
        BY DEF Kinds, Xvfb, X11vnc, Websockify
    <3>. QED
        BY <3>1 DEF PipelinesHaveOwners
  <2>2. \A d \in Callers \ {c} : /\ slotOf'[d] = slotOf[d]
                                 /\ slotOf[d] \in active => slotOf[d] \in active'
      BY <1>1, <1>2 DEF Holding, slot
  <2>. QED
      BY <1>1, <1>2, <2>1, <2>2 DEF PipelinesHaveOwners, slot
<1>12. Progress'
    BY <1>2 DEF Progress
<1>. QED
    BY <1>8, <1>9, <1>10, <1>11, <1>12

\* A clean-up that raises strands its triple, and leaves no helper either.
LEMMA UndoRaisesPreserves ==
    ASSUME IInv, NEW c \in Callers, UndoRaises(c)
    PROVE  IInv'
<1> USE DEF IInv
<1>1. Conserved'
    BY DEF Conserved, UndoRaises, poolVars
<1>2. TypeOK'
    BY DEF TypeOK, Holding, UndoRaises, Forget, Goto, poolVars
<1>3. PipelinesHaveOwners'
    BY DEF PipelinesHaveOwners, UndoRaises, Forget, Kinds, Xvfb, X11vnc, Websockify,
        poolVars
<1>4. Holding'
    BY DEF Holding, TypeOK, UndoRaises, Forget, Goto, poolVars
<1>5. Progress'
    BY DEF Progress, UndoRaises, Forget, Goto
<1>. QED
    BY <1>1, <1>2, <1>3, <1>4, <1>5

\* A socket file appears for the display of a triple.
LEMMA XvfbOpensPreserves ==
    ASSUME IInv, NEW c \in Callers, XvfbOpens(c)
    PROVE  IInv'
<1> USE DEF IInv
<1>1. (Conserved /\ PipelinesHaveOwners /\ Holding /\ Progress)'
    BY DEF Conserved, PipelinesHaveOwners, Holding, Progress, XvfbOpens, poolVars
<1>2. TypeOK'
    BY DEF TypeOK, PipelinesHaveOwners, Slots, XvfbOpens, DisplayOf, poolVars
<1>. QED
    BY <1>1, <1>2

\* A helper that exits by itself is still in the list of processes.
LEMMA HelperExitsPreserves ==
    ASSUME IInv, NEW c \in Callers, NEW k \in Kinds, HelperExits(c, k)
    PROVE  IInv'
<1> USE DEF IInv
<1>1. (Conserved /\ Holding /\ Progress)'
    BY DEF Conserved, Holding, Progress, HelperExits, poolVars
<1>2. TypeOK'
    BY DEF TypeOK, HelperExits, poolVars
<1>3. PipelinesHaveOwners'
    BY DEF PipelinesHaveOwners, HelperExits, poolVars
<1>. QED
    BY <1>1, <1>2, <1>3

\* The death of a log reader changes nothing the pool knows of.
LEMMA ReaderDiesPreserves ==
    ASSUME IInv, NEW c \in Callers, ReaderDies(c)
    PROVE  IInv'
<1> USE DEF IInv
<1>1. (Conserved /\ PipelinesHaveOwners /\ Holding /\ Progress)'
    BY DEF Conserved, PipelinesHaveOwners, Holding, Progress, ReaderDies, poolVars
<1>2. TypeOK'
    BY DEF TypeOK, ReaderDies, poolVars
<1>. QED
    BY <1>1, <1>2

-----------------------------------------------------------------------------
\* Every step preserves the invariant.
LEMMA NextIInv == IInv /\ [Next]_vars => IInv'
<1> SUFFICES ASSUME IInv, [Next]_vars PROVE IInv'
    OBVIOUS
<1>1. CASE \E c \in Callers : Allocate(c)
  <2>1. PICK c \in Callers : Allocate(c)
      BY <1>1
  <2>2. CASE Acquire(c)
      BY <2>2, AcquirePreserves
  <2>3. CASE SpawnProcess(c) \/ SpawnFails(c)
      BY <2>3, SpawnProcessPreserves, SpawnFailsPreserves
  <2>4. CASE SocketSeen(c) \/ PortOpen(c) \/ WaitFails(c)
      BY <2>4, SocketSeenPreserves, PortOpenPreserves, WaitFailsPreserves
  <2>5. CASE Undone(c)
      BY <2>5, ReturnedPreserves DEF Undone
  <2>6. CASE UndoRaises(c)
      BY <2>6, UndoRaisesPreserves
  <2>. QED
      BY <2>1, <2>2, <2>3, <2>4, <2>5, <2>6 DEF Allocate
<1>2. CASE \E c \in Callers : Release(c) \/ Kill(c)
    BY <1>2, ReleasePreserves, KillPreserves
<1>3. CASE \E c \in Callers : Closed(c)
    BY <1>3, ReturnedPreserves DEF Closed
<1>4. CASE \E c \in Callers : XvfbOpens(c) \/ ReaderDies(c)
    BY <1>4, XvfbOpensPreserves, ReaderDiesPreserves
<1>5. CASE \E c \in Callers, k \in Kinds : HelperExits(c, k)
    BY <1>5, HelperExitsPreserves
<1>6. CASE UNCHANGED vars
  <2>1. (TypeOK /\ Conserved /\ PipelinesHaveOwners)'
      BY <1>6 DEF IInv, TypeOK, Conserved, PipelinesHaveOwners, vars, poolVars,
          processVars
  <2>2. (Holding /\ Progress)'
      BY <1>6 DEF IInv, Holding, Progress, vars, poolVars, processVars
  <2>. QED
      BY <2>1, <2>2 DEF IInv
<1>. QED
    BY <1>1, <1>2, <1>3, <1>4, <1>5, <1>6 DEF Next

\* The invariant holds in every reachable state.
THEOREM Invariance == Spec => []IInv
<1>. QED
    BY InitIInv, NextIInv, PTL DEF Spec

\* The deques, the triples given out and the callers keep their types.
THEOREM TypeCorrect == Spec => []TypeOK
<1>1. IInv => TypeOK
    BY DEF IInv
<1>. QED
    BY <1>1, Invariance, PTL

\* _VncResourcePool neither loses nor duplicates a display or a port: each is free,
\* once, or part of exactly one triple given out.
THEOREM NumbersAreConserved == Spec => []Conserved
<1>1. IInv => Conserved
    BY DEF IInv
<1>. QED
    BY <1>1, Invariance, PTL

\* Whatever step of allocate() or close() fails, no helper process runs on a display
\* that is free, and every triple has a caller unless a clean-up raised.
THEOREM PipelinesAreOwned == Spec => []PipelinesHaveOwners
<1>1. IInv => PipelinesHaveOwners
    BY DEF IInv
<1>. QED
    BY <1>1, Invariance, PTL
=============================================================================
