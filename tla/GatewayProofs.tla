--------------------------- MODULE GatewayProofs ---------------------------
(***************************************************************************)
(* The safety properties of the gateway hold for all numbers of runners,   *)
(* sessions and requests.                                                  *)
(*                                                                         *)
(* BindingsHaveSessions is inductive.  OrphansAreKnown is not: a rejected  *)
(* creation takes the session's runner away, so the session must not have  *)
(* been listed by then, and that needs that nobody else is about it.       *)
(***************************************************************************)
EXTENDS Gateway, TLAPS

\* A session without a runner has never been heard of: it is not listed, is on no
\* runner, is not on its way to one, and no request is about it.
Unheard ==
    \A s \in Sessions :
        owner[s] = NoRunner =>
            /\ s \notin listed
            /\ remote[s] = "none"
            /\ s \notin late
            /\ \A t \in Tasks : about[t] # s

\* A session the creation of which waits for the runner is that request's alone.
Creating ==
    \A t \in Tasks :
        (pc[t] = "sent" /\ req[t] = "create") =>
            /\ about[t] \notin listed
            /\ remote[about[t]] = "none"
            /\ about[t] \notin late
            /\ \A u \in Tasks \ {t} : about[u] # about[t]

\* A request under way is a command about a session.
UnderWay == \A t \in Tasks : pc[t] # "idle" => about[t] \in Sessions /\ req[t] \in Requests

\* Runners wait to be purged only between refresh() and the purge; the first refresh()
\* finds none that has left.
PurgeDue ==
    /\ loop # "probe" => gone = {}
    /\ loop = "start" => known = {}

IInv ==
    /\ TypeOK
    /\ BindingsHaveSessions
    /\ OrphansAreKnown
    /\ Unheard
    /\ Creating
    /\ UnderWay
    /\ PurgeDue

-----------------------------------------------------------------------------
\* The gateway starts with nothing listed, and no request under way.
LEMMA InitIInv == Init => IInv
<1> SUFFICES ASSUME Init PROVE IInv
    OBVIOUS
<1>1. TypeOK
    BY GatewayAssumption DEF TypeOK, Init, Forms, Requests
<1>2. BindingsHaveSessions /\ OrphansAreKnown /\ Creating /\ UnderWay /\ PurgeDue
    BY DEF BindingsHaveSessions, OrphansAreKnown, Creating, UnderWay, PurgeDue, Init
<1>3. Unheard
    BY GatewayAssumption DEF Unheard, Init
<1>. QED
    BY <1>1, <1>2, <1>3 DEF IInv

\* A creation names a session nobody has heard of, and a registered runner.
LEMMA CallCreatePreserves ==
    ASSUME IInv, NEW t \in Tasks, NEW s \in Sessions, CallCreate(t, s)
    PROVE  IInv'
<1> USE DEF IInv, historyVars
<1>1. (BindingsHaveSessions /\ PurgeDue)'
    BY DEF BindingsHaveSessions, PurgeDue, CallCreate, loopVars
<1>2. TypeOK'
    BY DEF TypeOK, Requests, CallCreate, Send, loopVars, worldVars
<1>3. OrphansAreKnown'
    BY DEF OrphansAreKnown, CallCreate, loopVars
<1>4. Unheard'
    BY GatewayAssumption DEF TypeOK, Unheard, CallCreate, Send, worldVars
<1>5. Creating'
    BY DEF TypeOK, Creating, Unheard, CallCreate, Send, worldVars
<1>6. UnderWay'
    BY DEF TypeOK, UnderWay, Requests, CallCreate, Send
<1>. QED
    BY <1>1, <1>2, <1>3, <1>4, <1>5, <1>6 DEF IInv

\* A command is about a listed session, which no creation waits for.
LEMMA CallCommandPreserves ==
    ASSUME IInv, NEW t \in Tasks, NEW q \in Requests \ {"create"}, NEW s \in Sessions,
           CallCommand(t, q, s)
    PROVE  IInv'
<1> USE DEF IInv, historyVars
<1>1. (BindingsHaveSessions /\ OrphansAreKnown /\ PurgeDue)'
    BY DEF BindingsHaveSessions, OrphansAreKnown, PurgeDue, CallCommand, registryVars,
        loopVars
<1>2. TypeOK'
    BY DEF TypeOK, CallCommand, Send, registryVars, loopVars, worldVars
<1>3. Unheard'
    BY DEF Unheard, CallCommand, Send, registryVars, worldVars
<1>4. Creating'
    BY DEF TypeOK, Creating, CallCommand, Send, registryVars, worldVars
<1>5. UnderWay'
    BY DEF TypeOK, UnderWay, CallCommand, Send
<1>. QED
    BY <1>1, <1>2, <1>3, <1>4, <1>5 DEF IInv

\* What a runner does is about a session that has a runner.
LEMMA RunnerHandlesPreserves ==
    ASSUME IInv, NEW t \in Tasks, RunnerHandles(t)
    PROVE  IInv'
<1> USE DEF IInv, historyVars
<1>1. (BindingsHaveSessions /\ OrphansAreKnown /\ PurgeDue)'
    BY DEF BindingsHaveSessions, OrphansAreKnown, PurgeDue, RunnerHandles, registryVars,
        loopVars
<1>2. TypeOK'
    BY DEF TypeOK, UnderWay, Forms, RunnerHandles, Effect, registryVars, loopVars
<1>3. Unheard'
    BY DEF Unheard, RunnerHandles, registryVars
<1>4. Creating'
    BY DEF TypeOK, Creating, RunnerHandles, registryVars
<1>5. UnderWay'
    BY DEF UnderWay, RunnerHandles
<1>. QED
    BY <1>1, <1>2, <1>3, <1>4, <1>5 DEF IInv

\* A late creation is of a session no creation waits for any more.
LEMMA RunnerCreatesLatePreserves ==
    ASSUME IInv, NEW s \in Sessions, RunnerCreatesLate(s)
    PROVE  IInv'
<1> USE DEF IInv, historyVars
<1>1. (BindingsHaveSessions /\ OrphansAreKnown /\ UnderWay /\ PurgeDue)'
    BY DEF BindingsHaveSessions, OrphansAreKnown, UnderWay, PurgeDue, RunnerCreatesLate,
        registryVars, loopVars, taskVars
<1>2. TypeOK'
    BY DEF TypeOK, Forms, RunnerCreatesLate, registryVars, loopVars, taskVars
<1>3. Unheard'
    BY DEF Unheard, RunnerCreatesLate, registryVars, taskVars
<1>4. Creating'
    BY DEF Creating, RunnerCreatesLate, registryVars, taskVars
<1>. QED
    BY <1>1, <1>2, <1>3, <1>4 DEF IInv

\* A stored session has its runner, or is known to have strayed.
LEMMA AnsweredPreserves ==
    ASSUME IInv, NEW t \in Tasks, Answered(t)
    PROVE  IInv'
<1> USE DEF IInv, historyVars
<1>1. PurgeDue'
    BY DEF PurgeDue, Answered, loopVars
<1>2. TypeOK'
    BY DEF TypeOK, UnderWay, Answered, Assign, Store, Finish, loopVars, worldVars
<1>3. BindingsHaveSessions'
    BY DEF BindingsHaveSessions, Answered, Assign, Store
<1>4. OrphansAreKnown'
    BY DEF OrphansAreKnown, Answered, Store, loopVars
<1>5. Unheard'
    BY GatewayAssumption DEF Unheard, Answered, Store, Finish, worldVars
<1>6. Creating'
    BY GatewayAssumption DEF UnderWay, Creating, Answered, Store, Finish, worldVars
<1>7. UnderWay'
    BY DEF TypeOK, UnderWay, Answered, Finish
<1>. QED
    BY <1>1, <1>2, <1>3, <1>4, <1>5, <1>6, <1>7 DEF IInv

\* A deletion takes the binding with the session.
LEMMA DeletedPreserves ==
    ASSUME IInv, NEW t \in Tasks, Deleted(t)
    PROVE  IInv'
<1> USE DEF IInv, historyVars
<1>1. PurgeDue'
    BY DEF PurgeDue, Deleted, loopVars
<1>2. TypeOK'
    BY DEF TypeOK, Deleted, Unlist, Finish, loopVars, worldVars
<1>3. BindingsHaveSessions'
    BY DEF BindingsHaveSessions, Deleted, Unlist
<1>4. OrphansAreKnown'
    BY DEF OrphansAreKnown, Deleted, Unlist, loopVars
<1>5. Unheard'
    BY GatewayAssumption DEF Unheard, Deleted, Unlist, Finish, worldVars
<1>6. Creating'
    BY GatewayAssumption DEF UnderWay, Creating, Deleted, Unlist, Finish, worldVars
<1>7. UnderWay'
    BY DEF TypeOK, UnderWay, Deleted, Finish
<1>. QED
    BY <1>1, <1>2, <1>3, <1>4, <1>5, <1>6, <1>7 DEF IInv

\* A deletion that fails keeps the session; its binding goes with the answer.
LEMMA DeletedInPartPreserves ==
    ASSUME IInv, NEW t \in Tasks, DeletedInPart(t)
    PROVE  IInv'
<1> USE DEF IInv, historyVars
<1>1. PurgeDue'
    BY DEF PurgeDue, DeletedInPart, loopVars
<1>2. TypeOK'
    BY DEF TypeOK, DeletedInPart, Finish, loopVars, worldVars
<1>3. BindingsHaveSessions'
    BY DEF BindingsHaveSessions, DeletedInPart
<1>4. OrphansAreKnown'
    BY DEF OrphansAreKnown, DeletedInPart, loopVars
<1>5. Unheard'
    BY GatewayAssumption DEF Unheard, DeletedInPart, Finish, worldVars
<1>6. Creating'
    BY GatewayAssumption DEF UnderWay, Creating, DeletedInPart, Finish, worldVars
<1>7. UnderWay'
    BY DEF TypeOK, UnderWay, DeletedInPart, Finish
<1>. QED
    BY <1>1, <1>2, <1>3, <1>4, <1>5, <1>6, <1>7 DEF IInv

\* A rejected creation leaves a session nobody has heard of.
LEMMA RejectedPreserves ==
    ASSUME IInv, NEW t \in Tasks, Rejected(t)
    PROVE  IInv'
<1> USE DEF IInv, historyVars
<1>1. (BindingsHaveSessions /\ PurgeDue)'
    BY DEF BindingsHaveSessions, PurgeDue, Rejected, loopVars
<1>2. TypeOK'
    BY DEF TypeOK, Rejected, Finish, loopVars, worldVars
<1>3. OrphansAreKnown'
    BY DEF Creating, OrphansAreKnown, Rejected, loopVars
<1>4. Unheard'
    BY GatewayAssumption DEF TypeOK, Creating, Unheard, Rejected, Finish, worldVars
<1>5. Creating'
    BY GatewayAssumption DEF TypeOK, UnderWay, Creating, Rejected, Finish, worldVars
<1>6. UnderWay'
    BY DEF TypeOK, UnderWay, Rejected, Finish
<1>. QED
    BY <1>1, <1>2, <1>3, <1>4, <1>5, <1>6 DEF IInv

\* A creation given up is at most on its way to its runner.
LEMMA TimesOutPreserves ==
    ASSUME IInv, NEW t \in Tasks, TimesOut(t)
    PROVE  IInv'
<1> USE DEF IInv, historyVars
<1>1. (BindingsHaveSessions /\ OrphansAreKnown /\ PurgeDue)'
    BY DEF BindingsHaveSessions, OrphansAreKnown, PurgeDue, TimesOut, registryVars,
        loopVars
<1>2. TypeOK'
    BY DEF TypeOK, UnderWay, TimesOut, Abandon, Finish, registryVars, loopVars
<1>3. Unheard'
    BY GatewayAssumption DEF Unheard, TimesOut, Abandon, Finish, registryVars
<1>4. Creating'
    BY GatewayAssumption DEF TypeOK, UnderWay, Creating, TimesOut, Abandon, Finish,
        registryVars
<1>5. UnderWay'
    BY DEF TypeOK, UnderWay, TimesOut, Finish
<1>. QED
    BY <1>1, <1>2, <1>3, <1>4, <1>5 DEF IInv

\* Only sessions that are on a runner are registered.
LEMMA RegisterPreserves ==
    ASSUME IInv, NEW s \in Sessions, Register(s)
    PROVE  IInv'
<1> USE DEF IInv, historyVars
<1>1. (UnderWay /\ PurgeDue)'
    BY DEF UnderWay, PurgeDue, Register, loopVars, taskVars
<1>2. TypeOK'
    BY DEF TypeOK, Register, Assign, Store, loopVars, taskVars, worldVars
<1>3. BindingsHaveSessions'
    BY DEF BindingsHaveSessions, Register, Assign, Store
<1>4. OrphansAreKnown'
    BY DEF OrphansAreKnown, Register, Store, loopVars
<1>5. Unheard'
    BY DEF Unheard, Register, Store, taskVars, worldVars
<1>6. Creating'
    BY DEF Creating, Register, Store, taskVars, worldVars
<1>. QED
    BY <1>1, <1>2, <1>3, <1>4, <1>5, <1>6 DEF IInv

\* A registration that fails leaves a binding, and is known to have failed.
LEMMA RegisterInPartPreserves ==
    ASSUME IInv, NEW s \in Sessions, RegisterInPart(s)
    PROVE  IInv'
<1> USE DEF IInv
<1>1. (UnderWay /\ PurgeDue /\ OrphansAreKnown)'
    BY DEF UnderWay, PurgeDue, OrphansAreKnown, RegisterInPart, loopVars, taskVars
<1>2. TypeOK'
    BY DEF TypeOK, RegisterInPart, Assign, loopVars, taskVars, worldVars
<1>3. BindingsHaveSessions'
    BY DEF BindingsHaveSessions, RegisterInPart, Assign
<1>4. Unheard'
    BY DEF Unheard, RegisterInPart, taskVars, worldVars
<1>5. Creating'
    BY DEF Creating, RegisterInPart, taskVars, worldVars
<1>. QED
    BY <1>1, <1>2, <1>3, <1>4, <1>5 DEF IInv

\* A forgotten session loses its binding too.
LEMMA ForgetPreserves ==
    ASSUME IInv, NEW s \in Sessions, Forget(s)
    PROVE  IInv'
<1> USE DEF IInv, historyVars
<1>1. (UnderWay /\ PurgeDue)'
    BY DEF UnderWay, PurgeDue, Forget, loopVars, taskVars
<1>2. TypeOK'
    BY DEF TypeOK, Forget, Unlist, loopVars, taskVars, worldVars
<1>3. BindingsHaveSessions'
    BY DEF BindingsHaveSessions, Forget, Unlist
<1>4. OrphansAreKnown'
    BY DEF OrphansAreKnown, Forget, Unlist, loopVars
<1>5. Unheard'
    BY DEF Unheard, Forget, Unlist, taskVars, worldVars
<1>6. Creating'
    BY DEF Creating, Forget, Unlist, taskVars, worldVars
<1>. QED
    BY <1>1, <1>2, <1>3, <1>4, <1>5, <1>6 DEF IInv

\* A runner that leaves the registry is due to be purged.
LEMMA DiscoverPreserves ==
    ASSUME IInv, Discover
    PROVE  IInv'
<1> USE DEF IInv, historyVars
<1>1. (Unheard /\ Creating /\ UnderWay)'
    BY DEF Unheard, Creating, UnderWay, Discover, taskVars, worldVars
<1>2. TypeOK'
    BY DEF TypeOK, Discover, Removed, taskVars, worldVars
<1>3. BindingsHaveSessions'
    BY DEF BindingsHaveSessions, Discover
<1>4. OrphansAreKnown'
    BY DEF PurgeDue, OrphansAreKnown, Discover
<1>5. PurgeDue'
    BY DEF PurgeDue, Discover, Removed
<1>. QED
    BY <1>1, <1>2, <1>3, <1>4, <1>5 DEF IInv

\* Start-up lists the sessions of registered runners only.
LEMMA RestorePreserves ==
    ASSUME IInv, NEW r \in Runners, Restore(r)
    PROVE  IInv'
<1> USE DEF IInv, historyVars
<1>1. (UnderWay /\ PurgeDue)'
    BY DEF UnderWay, PurgeDue, Restore, taskVars
<1>2. TypeOK'
    BY DEF TypeOK, Restore, taskVars, worldVars
<1>3. BindingsHaveSessions'
    BY DEF BindingsHaveSessions, Restore
<1>4. OrphansAreKnown'
    BY DEF TypeOK, OrphansAreKnown, Restore
<1>5. Unheard'
    BY DEF Unheard, Restore, taskVars, worldVars
<1>6. Creating'
    BY DEF Creating, Restore, taskVars, worldVars
<1>. QED
    BY <1>1, <1>2, <1>3, <1>4, <1>5, <1>6 DEF IInv

\* The end of start-up finds nothing to purge.
LEMMA RestoredPreserves ==
    ASSUME IInv, Restored
    PROVE  IInv'
<1> USE DEF IInv, historyVars
<1>1. (BindingsHaveSessions /\ OrphansAreKnown /\ Unheard /\ Creating /\ UnderWay)'
    BY DEF BindingsHaveSessions, OrphansAreKnown, Unheard, Creating, UnderWay, Restored,
        registryVars, taskVars, worldVars
<1>2. TypeOK'
    BY DEF TypeOK, Restored, registryVars, taskVars, worldVars
<1>3. PurgeDue'
    BY DEF PurgeDue, Restored
<1>. QED
    BY <1>1, <1>2, <1>3 DEF IInv

\* Sessions a skipped purge would have dropped have strayed.
LEMMA ProbeRaisesPreserves ==
    ASSUME IInv, ProbeRaises
    PROVE  IInv'
<1> USE DEF IInv, historyVars
<1>1. (BindingsHaveSessions /\ Unheard /\ Creating /\ UnderWay)'
    BY DEF BindingsHaveSessions, Unheard, Creating, UnderWay, ProbeRaises, registryVars,
        taskVars, worldVars
<1>2. TypeOK'
    BY DEF TypeOK, ProbeRaises, registryVars, taskVars, worldVars
<1>3. OrphansAreKnown'
    BY DEF OrphansAreKnown, ProbeRaises, registryVars
<1>4. PurgeDue'
    BY DEF PurgeDue, ProbeRaises
<1>. QED
    BY <1>1, <1>2, <1>3, <1>4 DEF IInv

\* The purge drops the sessions of every runner that has left.
LEMMA PurgePreserves ==
    ASSUME IInv, Purge
    PROVE  IInv'
<1> USE DEF IInv, historyVars
<1>1. UnderWay'
    BY DEF UnderWay, Purge, taskVars
<1>2. TypeOK'
    BY DEF TypeOK, Purge, Unlist, taskVars, worldVars
<1>3. BindingsHaveSessions'
    BY DEF BindingsHaveSessions, Purge, Unlist
<1>4. OrphansAreKnown'
    BY DEF OrphansAreKnown, Purge, Unlist
<1>5. Unheard'
    BY DEF Unheard, Purge, Unlist, taskVars, worldVars
<1>6. Creating'
    BY DEF Creating, Purge, Unlist, taskVars, worldVars
<1>7. PurgeDue'
    BY DEF PurgeDue, Purge
<1>. QED
    BY <1>1, <1>2, <1>3, <1>4, <1>5, <1>6, <1>7 DEF IInv

\* Only a session that is on a runner ends.
LEMMA SessionEndsPreserves ==
    ASSUME IInv, NEW s \in Sessions, SessionEnds(s)
    PROVE  IInv'
<1> USE DEF IInv, historyVars
<1>1. (BindingsHaveSessions /\ OrphansAreKnown /\ UnderWay /\ PurgeDue)'
    BY DEF BindingsHaveSessions, OrphansAreKnown, UnderWay, PurgeDue, SessionEnds,
        registryVars, loopVars, taskVars
<1>2. TypeOK'
    BY DEF TypeOK, Forms, SessionEnds, registryVars, loopVars, taskVars
<1>3. Unheard'
    BY DEF Unheard, SessionEnds, registryVars, taskVars
<1>4. Creating'
    BY DEF Creating, SessionEnds, registryVars, taskVars
<1>. QED
    BY <1>1, <1>2, <1>3, <1>4 DEF IInv

\* A restarted runner only forgets sessions.
LEMMA RunnerRestartsPreserves ==
    ASSUME IInv, NEW r \in Runners, RunnerRestarts(r)
    PROVE  IInv'
<1> USE DEF IInv, historyVars
<1>1. (BindingsHaveSessions /\ OrphansAreKnown /\ UnderWay /\ PurgeDue)'
    BY DEF BindingsHaveSessions, OrphansAreKnown, UnderWay, PurgeDue, RunnerRestarts,
        registryVars, loopVars, taskVars
<1>2. TypeOK'
    BY DEF TypeOK, RunnerRestarts, registryVars, loopVars, taskVars
<1>3. Unheard'
    BY DEF Unheard, RunnerRestarts, registryVars, taskVars
<1>4. Creating'
    BY DEF UnderWay, Creating, RunnerRestarts, registryVars, taskVars
<1>. QED
    BY <1>1, <1>2, <1>3, <1>4 DEF IInv

\* After a restart nothing is listed or bound, and no request is under way.
LEMMA GatewayRestartsPreserves ==
    ASSUME IInv, GatewayRestarts
    PROVE  IInv'
<1> USE DEF IInv, historyVars
<1>1. TypeOK'
    BY GatewayAssumption DEF TypeOK, UnderWay, GatewayRestarts, Unlist, Abandon
<1>2. BindingsHaveSessions'
    BY DEF BindingsHaveSessions, GatewayRestarts
<1>3. OrphansAreKnown'
    BY DEF TypeOK, OrphansAreKnown, GatewayRestarts, Unlist
<1>4. Unheard'
    BY GatewayAssumption DEF Unheard, GatewayRestarts, Unlist, Abandon
<1>5. Creating'
    BY DEF Creating, GatewayRestarts
<1>6. UnderWay'
    BY DEF UnderWay, GatewayRestarts
<1>7. PurgeDue'
    BY DEF PurgeDue, GatewayRestarts
<1>. QED
    BY <1>1, <1>2, <1>3, <1>4, <1>5, <1>6, <1>7 DEF IInv

-----------------------------------------------------------------------------
\* Every step preserves the invariant.
LEMMA NextIInv == IInv /\ [Next]_vars => IInv'
<1> SUFFICES ASSUME IInv, [Next]_vars PROVE IInv'
    OBVIOUS
<1>1. CASE \E t \in Tasks : Serve(t)
    BY <1>1, CallCreatePreserves, CallCommandPreserves, RunnerHandlesPreserves,
        AnsweredPreserves, DeletedPreserves, DeletedInPartPreserves, RejectedPreserves,
        TimesOutPreserves DEF Serve
<1>2. CASE \E s \in Sessions : Register(s) \/ RegisterInPart(s) \/ Forget(s)
    BY <1>2, RegisterPreserves, RegisterInPartPreserves, ForgetPreserves
<1>3. CASE \E s \in late : RunnerCreatesLate(s)
    BY <1>3, RunnerCreatesLatePreserves DEF IInv, TypeOK
<1>4. CASE Discover \/ (\E r \in Runners : Restore(r)) \/ Restored
    BY <1>4, DiscoverPreserves, RestorePreserves, RestoredPreserves
<1>5. CASE ProbeRaises \/ Purge
    BY <1>5, ProbeRaisesPreserves, PurgePreserves
<1>6. CASE Environment
  <2>1. CASE /\ \E r \in Runners : RunnerComes(r) \/ RunnerGoes(r)
             /\ UNCHANGED <<registryVars, loopVars, taskVars, remote, late, historyVars>>
    <3>1. TypeOK'
        BY <2>1 DEF IInv, TypeOK, RunnerComes, RunnerGoes, historyVars, registryVars,
            loopVars, taskVars
    <3>2. (BindingsHaveSessions /\ OrphansAreKnown /\ Unheard)'
        BY <2>1 DEF IInv, BindingsHaveSessions, OrphansAreKnown, Unheard, historyVars, registryVars,
            loopVars, taskVars
    <3>3. (Creating /\ UnderWay /\ PurgeDue)'
        BY <2>1 DEF IInv, Creating, UnderWay, PurgeDue, registryVars, loopVars, taskVars
    <3>. QED
        BY <3>1, <3>2, <3>3 DEF IInv
  <2>2. CASE \E s \in Sessions : SessionEnds(s)
      BY <2>2, SessionEndsPreserves
  <2>3. CASE \E r \in Runners : RunnerRestarts(r)
      BY <2>3, RunnerRestartsPreserves
  <2>4. CASE GatewayRestarts
      BY <2>4, GatewayRestartsPreserves
  <2>. QED
      BY <1>6, <2>1, <2>2, <2>3, <2>4 DEF Environment
<1>7. CASE UNCHANGED vars
  <2>1. (TypeOK /\ BindingsHaveSessions /\ OrphansAreKnown)'
      BY <1>7 DEF IInv, TypeOK, BindingsHaveSessions, OrphansAreKnown, vars, historyVars,
          registryVars,
          loopVars, taskVars, worldVars
  <2>2. (Unheard /\ Creating /\ UnderWay /\ PurgeDue)'
      BY <1>7 DEF IInv, Unheard, Creating, UnderWay, PurgeDue, vars, registryVars, loopVars,
          taskVars, worldVars
  <2>. QED
      BY <2>1, <2>2 DEF IInv
<1>. QED
    BY <1>1, <1>2, <1>3, <1>4, <1>5, <1>6, <1>7 DEF Next

\* The invariant holds in every reachable state.
THEOREM Invariance == Spec => []IInv
<1>. QED
    BY InitIInv, NextIInv, PTL DEF Spec

\* The registries, the loop and the requests keep their types.
THEOREM TypeCorrect == Spec => []TypeOK
<1>1. IInv => TypeOK
    BY DEF IInv
<1>. QED
    BY <1>1, Invariance, PTL

\* No websocket binding outlives its session, in whatever order deletions, answers,
\* removals of runners and purges come, and whichever of them raises half-way: only a
\* registration that fails leaves a binding without one.
THEOREM NoBindingOutlivesItsSession == Spec => []BindingsHaveSessions
<1>1. IInv => BindingsHaveSessions
    BY DEF IInv
<1>. QED
    BY <1>1, Invariance, PTL

\* A session whose runner has left the registry is due to be purged, or was stored
\* after the runner had left, or a probe that raised has skipped its purge.
THEOREM OrphansAreExplained == Spec => []OrphansAreKnown
<1>1. IInv => OrphansAreKnown
    BY DEF IInv
<1>. QED
    BY <1>1, Invariance, PTL
=============================================================================
