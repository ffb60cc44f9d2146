------------------------ MODULE RunnerRegistryProofs ------------------------
(***************************************************************************)
(* The rotation is a rotation and its turns are fair, for any number of    *)
(* runners.                                                                *)
(*                                                                         *)
(* TurnsAreFair needs to know that a runner which waits while another has  *)
(* been selected comes before that one in the order the cursor will go     *)
(* through (WaitersLead).  What a refresh does to the order is an          *)
(* induction over its places (OrdersExtend), and what a series of removals *)
(* does to the cursor one over the removals (RemovalsMoveTheCursor): both  *)
(* rest on the least number of a set.                                      *)
(***************************************************************************)
EXTENDS RunnerRegistry, WellFoundedInduction, FiniteSetTheorems, TLAPS

\* Going through the rotation from the cursor, place i is reached before place j.
Sooner(i, j) ==
    IF i > cursor THEN j <= cursor \/ i < j ELSE j <= cursor /\ i < j

\* Who waits since r was selected can be had, and its turn comes before r's.
WaitersLead ==
    \A r \in Runners : \A x \in waiting[r] :
        /\ healthy[x] /\ admits[x] = "any"
        /\ \E i, j \in DOMAIN order : order[i] = x /\ order[j] = r /\ Sooner(i, j)

IInv == TypeOK /\ TurnsAreFair /\ WaitersLead

-----------------------------------------------------------------------------
(* Numbers. *)

\* A set of numbers has a least one.
LEMMA LeastNumber ==
    ASSUME NEW T \in SUBSET Nat, T # {}
    PROVE  \E n \in T : \A m \in T : n <= m
<1>1. \E x \in T : \A y \in T : ~(<<y, x>> \in OpToRel(<, Nat))
    BY WFMin, NatLessThanWellFounded, Zenon
<1>2. \E x \in T : \A y \in T : ~(y < x)
    BY <1>1, Zenon DEF OpToRel
<1>. QED
    BY <1>2

\* Min is the least number of a set.
LEMMA MinIsLeast ==
    ASSUME NEW T \in SUBSET Nat, T # {}
    PROVE  Min(T) \in T /\ \A m \in T : Min(T) <= m
<1>. QED
    BY LeastNumber DEF Min

\* The modulus of a number less than twice the divisor.
LEMMA Modulo ==
    ASSUME NEW n \in Nat \ {0}, NEW x \in 0 .. 2 * n - 1
    PROVE  x % n = IF x < n THEN x ELSE x - n
    OBVIOUS

\* The cursor after k calls of remove() on a registry of n runners, each of which
\* takes it modulo the number of runners left or 1, is CursorAfter: where it was if
\* that place is still there, and 0 if not.
THEOREM RemovalsMoveTheCursor ==
    ASSUME NEW n \in Nat, NEW k \in 0 .. n, NEW at \in [0 .. k -> Nat],
           at[0] \in 0 .. AtLeastOne(n) - 1,
           \A i \in 1 .. k : at[i] = at[i - 1] % AtLeastOne(n - i)
    PROVE  at[k] = IF at[0] < n - k THEN at[0] ELSE 0
<1> DEFINE Right(i) == at[i] = IF at[0] < n - i THEN at[0] ELSE 0
           T == {i \in 0 .. k : ~Right(i)}
<1>1. SUFFICES T = {}
    OBVIOUS
<1>2. SUFFICES ASSUME T # {} PROVE FALSE
    OBVIOUS
<1>3. PICK i \in T : \A j \in T : i <= j
  <2>1. T \in SUBSET Nat
      OBVIOUS
  <2> HIDE DEF T
  <2>. QED
      BY <1>2, <2>1, LeastNumber
<1>4. i # 0
    BY DEF AtLeastOne
<1>5. i - 1 \in 0 .. k /\ Right(i - 1)
    BY <1>3, <1>4
<1>6. at[i] = at[i - 1] % AtLeastOne(n - i)
    BY <1>4
<1>7. n - i \in Nat /\ at[i - 1] \in Nat /\ at[i - 1] <= n - i
    BY <1>5
<1>8. CASE n - i = 0
    BY <1>5, <1>6, <1>7, <1>8, Modulo DEF AtLeastOne
<1>9. CASE n - i # 0
  <2>1. n - i \in Nat \ {0} /\ at[i - 1] \in 0 .. 2 * (n - i) - 1
      BY <1>7, <1>9
  <2>2. at[i - 1] % (n - i) = IF at[i - 1] < n - i THEN at[i - 1] ELSE at[i - 1] - (n - i)
      BY <2>1, Modulo
  <2>. QED
      BY <1>5, <1>6, <1>7, <1>9, <2>2 DEF AtLeastOne
<1>. QED
    BY <1>8, <1>9

\* The k-th place from the cursor on.
LEMMA Rotates ==
    ASSUME TypeOK, NEW k \in 0 .. Len(order) - 1
    PROVE  Rotation(k) = IF cursor + k < Len(order) THEN cursor + k
                                                    ELSE cursor + k - Len(order)
<1>1. Len(order) \in Nat \ {0} /\ cursor \in 0 .. Len(order) - 1
    BY DEF TypeOK, AtLeastOne
<1>. QED
    BY <1>1, Modulo DEF Rotation

-----------------------------------------------------------------------------
(* The order after a refresh. *)

\* It has the members, each once.
LEMMA OrdersEnumerate ==
    ASSUME RunnerRegistryAssumption, NEW members \in SUBSET Runners,
           NEW next \in Orders(members)
    PROVE  /\ next \in Seq(Runners) /\ DOMAIN next = 1 .. Len(next)
           /\ IsInjective(next)
           /\ ToSet(next) = members
<1>1. Cardinality(members) \in Nat
    BY FS_Subset, FS_CardinalityType DEF RunnerRegistryAssumption
<1>2. /\ next \in [1 .. Cardinality(members) -> members]
      /\ IsInjective(next)
      /\ \A x \in members : \E i \in 1 .. Cardinality(members) : next[i] = x
    BY DEF Orders, Enumerations, Bijection, Injection, Surjection
<1>3. next \in Seq(Runners) /\ DOMAIN next = 1 .. Len(next)
    BY <1>1, <1>2
<1>. QED
    BY <1>2, <1>3 DEF ToSet

\* As long as nobody is removed everybody keeps its place: the least place that did
\* not would have to be taken by a runner from a lesser one.
LEMMA OrdersExtend ==
    ASSUME RunnerRegistryAssumption, TypeOK, NEW members \in SUBSET Runners,
           Registered \subseteq members, NEW next \in Orders(members)
    PROVE  Len(order) <= Len(next) /\ \A l \in 1 .. Len(order) : next[l] = order[l]
<1> DEFINE Kept(l) == l \in DOMAIN next /\ next[l] = order[l]
           T == {l \in 1 .. Len(order) : ~Kept(l)}
<1>1. /\ next \in Seq(Runners) /\ DOMAIN next = 1 .. Len(next)
      /\ IsInjective(next)
      /\ ToSet(next) = members
    BY OrdersEnumerate
<1>2. /\ Len(order) \in Nat /\ Len(next) \in Nat /\ DOMAIN order = 1 .. Len(order)
      /\ IsInjective(order)
    BY <1>1 DEF TypeOK
<1>3. ASSUME T # {} PROVE FALSE
  <2>1. PICK l \in T : \A m \in T : l <= m
    <3>1. T \in SUBSET Nat
        OBVIOUS
    <3> HIDE DEF T
    <3>. QED
        BY <1>3, <3>1, LeastNumber
  <2>2. PICK j \in DOMAIN next : next[j] = order[l]
      BY <1>1, <1>2 DEF Registered, ToSet
  <2>3. CASE j = l
      BY <2>2, <2>3
  <2>4. CASE j < l
    <3>1. Kept(j) /\ j \in DOMAIN order
        BY <1>1, <1>2, <2>1, <2>4
    <3>. QED
        BY <1>2, <2>2, <2>4, <3>1 DEF IsInjective
  <2>5. CASE l < j
    <3>1. l \in DOMAIN next /\ l \in DOMAIN order
        BY <1>1, <1>2, <2>5
    <3>2. PICK k \in 1 .. l - 1 : next[l] = order[k]
        BY <2>2, <2>5, <3>1 DEF Orders
    <3>3. Kept(k)
        BY <1>2, <2>1
    <3>. QED
        BY <1>1, <1>2, <3>1, <3>2, <3>3 DEF IsInjective
  <2>. QED
      BY <1>1, <1>2, <2>3, <2>4, <2>5
<1>4. \A l \in 1 .. Len(order) : Kept(l)
    BY <1>3
<1>5. Len(order) <= Len(next)
    BY <1>1, <1>2, <1>4
<1>. QED
    BY <1>4, <1>5

-----------------------------------------------------------------------------
(* The steps. *)

\* The registry starts with the configured runners and nobody waiting.
LEMMA InitIInv == Init => IInv
<1> SUFFICES ASSUME Init PROVE IInv
    OBVIOUS
<1>1. Cardinality(Configured) \in Nat
    BY RunnerRegistryAssumption, FS_Subset, FS_CardinalityType
<1>2. /\ order \in [1 .. Cardinality(Configured) -> Configured]
      /\ IsInjective(order)
    BY DEF Init, Enumerations, Bijection, Injection
<1>3. order \in Seq(Runners) /\ Len(order) \in Nat
    BY <1>1, <1>2, RunnerRegistryAssumption
<1>4. cursor \in 0 .. AtLeastOne(Len(order)) - 1
    BY <1>3 DEF Init, AtLeastOne
<1>5. /\ healthy \in [Runners -> BOOLEAN] /\ admits \in [Runners -> Kinds]
      /\ waiting \in [Runners -> SUBSET Runners]
    BY DEF Init, Kinds
<1>6. known \subseteq Registered /\ probing \in Seq(Runners)
      /\ serving \in BOOLEAN /\ overtaken \subseteq Runners
  <2>1. known = {} /\ probing = <<>> /\ serving = FALSE /\ overtaken = {}
      BY DEF Init
  <2>2. <<>> \in Seq(Runners)
      OBVIOUS
  <2>. QED
      BY <2>1, <2>2, Zenon
<1>7. TypeOK
    BY <1>2, <1>3, <1>4, <1>5, <1>6 DEF TypeOK
<1>. QED
    BY <1>7 DEF Init, IInv, TurnsAreFair, WaitersLead

\* Whom any request could have had and who was not chosen comes after the chosen one.
LEMMA ChosenIsFirst ==
    ASSUME TypeOK, NEW vnc \in BOOLEAN, NEW strict \in BOOLEAN,
           Acceptable(vnc, strict) # {}, NEW p, p = Rotation(Min(Acceptable(vnc, strict))) + 1
    PROVE  /\ p \in DOMAIN order /\ Rotation(Min(Acceptable(vnc, strict))) = p - 1
           /\ \A i \in DOMAIN order :
                 healthy[order[i]] /\ admits[order[i]] = "any" => i = p \/ ~Sooner(i, p)
<1> DEFINE n == Len(order)
           m == Min(Acceptable(vnc, strict))
<1>1. Acceptable(vnc, strict) \in SUBSET Nat
    BY DEF Acceptable, TypeOK
<1>2. m \in Acceptable(vnc, strict) /\ \A k \in Acceptable(vnc, strict) : m <= k
    BY <1>1, MinIsLeast
<1>3. m \in 0 .. n - 1 /\ n \in Nat \ {0} /\ cursor \in 0 .. n - 1 /\ DOMAIN order = 1 .. n
    BY <1>2 DEF Acceptable, TypeOK, AtLeastOne
<1>4. p = (IF cursor + m < n THEN cursor + m ELSE cursor + m - n) + 1
    BY <1>3, Rotates
<1>5. ASSUME NEW i \in DOMAIN order, healthy[order[i]], admits[order[i]] = "any"
      PROVE  i = p \/ ~Sooner(i, p)
  <2> DEFINE k == IF i > cursor THEN i - 1 - cursor ELSE i - 1 - cursor + n
  <2>1. k \in 0 .. n - 1
      BY <1>3
  <2>2. Rotation(k) = i - 1
    <3>1. Rotation(k) = IF cursor + k < n THEN cursor + k ELSE cursor + k - n
        BY <2>1, Rotates
    <3>. QED
        BY <1>3, <3>1
  <2>3. k \in Acceptable(vnc, strict)
      BY <1>5, <2>1, <2>2, <1>3 DEF Acceptable, Admitting
  <2>4. m <= k
      BY <1>2, <2>3
  <2>. QED
      BY <1>3, <1>4, <2>4 DEF Sooner
<1>6. Rotation(m) = p - 1 /\ p \in DOMAIN order
  <2>1. Rotation(m) = IF cursor + m < n THEN cursor + m ELSE cursor + m - n
      BY <1>3, Rotates
  <2>2. p \in 1 .. n
      BY <1>3, <1>4
  <2> HIDE DEF m, n
  <2>. QED
      BY <1>3, <1>4, <2>1, <2>2
<1>. QED
    BY <1>5, <1>6

\* A selection turns the rotation: the chosen runner is the last from now on.
LEMMA SelectNextPreserves ==
    ASSUME IInv, NEW vnc \in BOOLEAN, SelectNext(vnc)
    PROVE  IInv'
<1> DEFINE strict == Acceptable(vnc, TRUE) # {}
           n == Len(order)
           index == Rotation(Min(Acceptable(vnc, strict)))
<1>1. PICK p \in DOMAIN order :
        /\ index = p - 1 /\ p = index + 1
        /\ \A i \in DOMAIN order :
              healthy[order[i]] /\ admits[order[i]] = "any" => i = p \/ ~Sooner(i, p)
    BY ChosenIsFirst DEF SelectNext, IInv
<1> DEFINE r == order[p]
<1>2. /\ cursor' = Advance(index) /\ Taken(r)
      /\ order' = order /\ healthy' = healthy /\ admits' = admits
      /\ known' = known /\ probing' = probing /\ serving' = serving
    BY <1>1 DEF SelectNext
<1> HIDE DEF index
<1>3. n \in Nat \ {0} /\ cursor \in 0 .. n - 1 /\ DOMAIN order = 1 .. n /\ p \in 1 .. n
    BY <1>1 DEF IInv, TypeOK, AtLeastOne
<1>4. cursor' = IF p = n THEN 0 ELSE p
  <2>1. cursor' = p % n
      BY <1>1, <1>2 DEF Advance
  <2>2. p \in 0 .. 2 * n - 1
      BY <1>3
  <2>3. p % n = IF p < n THEN p ELSE p - n
      BY <1>3, <2>2, Modulo
  <2>. QED
      BY <1>3, <2>1, <2>3
<1>5. r \in Runners /\ r \in Registered
    BY <1>1, <1>3 DEF IInv, TypeOK, Registered, ToSet
<1>6. waiting[r] = {}
  <2> SUFFICES ASSUME NEW x \in waiting[r] PROVE FALSE
      OBVIOUS
  <2>1. PICK i, j \in DOMAIN order : order[i] = x /\ order[j] = r /\ Sooner(i, j)
      BY <1>5 DEF IInv, WaitersLead
  <2>2. j = p
      BY <1>1, <2>1 DEF IInv, TypeOK, IsInjective
  <2>3. healthy[x] /\ admits[x] = "any"
      BY <1>5 DEF IInv, WaitersLead
  <2>4. i = p
      BY <1>1, <2>1, <2>2, <2>3
  <2>. QED
      BY <1>3, <2>1, <2>2, <2>4 DEF Sooner
<1>7. TurnsAreFair'
    BY <1>2, <1>6 DEF Taken, IInv, TurnsAreFair
<1>8. TypeOK'
  <2>1. cursor' \in 0 .. AtLeastOne(Len(order')) - 1
      BY <1>2, <1>3, <1>4 DEF AtLeastOne
  <2>2. Registered \subseteq Runners
      BY DEF IInv, TypeOK, Registered, ToSet
  <2>3. waiting' \in [Runners -> SUBSET Runners] /\ overtaken' \subseteq Runners
      BY <1>2, <1>6, <2>2 DEF Taken, IInv, TypeOK
  <2>. QED
      BY <1>2, <2>1, <2>3 DEF IInv, TypeOK, Registered
<1>9. ASSUME NEW q \in Runners, NEW x \in waiting'[q]
      PROVE  /\ healthy'[x] /\ admits'[x] = "any"
             /\ \E i, j \in DOMAIN order' : order'[i] = x /\ order'[j] = q /\ Sooner(i, j)'
  <2>1. CASE q = r
    <3>1. x \in Registered \ {r} /\ healthy[x] /\ admits[x] = "any"
        BY <1>2, <1>9, <2>1 DEF Taken
    <3>2. PICK i \in DOMAIN order : order[i] = x
        BY <3>1 DEF Registered, ToSet
    <3>3. Sooner(i, p)'
        BY <1>3, <1>4, <3>1, <3>2 DEF Sooner
    <3>. QED
        BY <1>1, <1>2, <2>1, <3>1, <3>2, <3>3
  <2>2. CASE q # r
    <3>1. x \in waiting[q] \ {r}
        BY <1>2, <1>9, <2>2 DEF Taken
    <3>2. PICK i, j \in DOMAIN order : order[i] = x /\ order[j] = q /\ Sooner(i, j)
        BY <3>1 DEF IInv, WaitersLead
    <3>3. healthy[x] /\ admits[x] = "any"
        BY <3>1 DEF IInv, WaitersLead
    <3>4. i # p /\ j # p /\ ~Sooner(i, p)
        BY <1>1, <2>2, <3>1, <3>2, <3>3
    <3>5. Sooner(i, j)'
        BY <1>3, <1>4, <3>2, <3>4 DEF Sooner
    <3>. QED
        BY <1>2, <3>2, <3>3, <3>5
  <2>. QED
      BY <2>1, <2>2
<1>. QED
    BY <1>7, <1>8, <1>9 DEF IInv, WaitersLead

\* Snapshots change, and whoever cannot be had any more waits no longer.
LEMMA StillLead ==
    ASSUME IInv, DOMAIN order \subseteq DOMAIN order',
           \A i \in DOMAIN order : order'[i] = order[i], cursor' = cursor,
           waiting' = [r \in Runners |-> StillWaiting(r)]
    PROVE  WaitersLead'
<1> SUFFICES ASSUME NEW r \in Runners, NEW x \in waiting'[r]
             PROVE  /\ healthy'[x] /\ admits'[x] = "any"
                    /\ \E i, j \in DOMAIN order' :
                          order'[i] = x /\ order'[j] = r /\ Sooner(i, j)'
    BY DEF WaitersLead
<1>1. x \in waiting[r] /\ healthy'[x] /\ admits'[x] = "any"
    BY DEF StillWaiting
<1>2. PICK i, j \in DOMAIN order : order[i] = x /\ order[j] = r /\ Sooner(i, j)
    BY <1>1 DEF IInv, WaitersLead
<1>. QED
    BY <1>1, <1>2 DEF Sooner

\* A refresh keeps everybody's place, or begins the turns anew.
LEMMA RefreshPreserves ==
    ASSUME IInv, Refresh, serving' \in BOOLEAN, probing' \in Seq(Runners) \/ probing' = order'
    PROVE  IInv'
<1>1. PICK present \in SUBSET Runners :
        LET removed == known \ present IN
        \E well \in [present -> BOOLEAN], kind \in [present -> Kinds] :
            /\ order' \in Orders((Registered \cup present) \ removed)
            /\ cursor' = CursorAfter
            /\ healthy' = [r \in Runners |-> IF r \in present THEN well[r] ELSE healthy[r]]
            /\ admits' = [r \in Runners |-> IF r \in present THEN kind[r] ELSE admits[r]]
            /\ known' = present
            /\ waiting' = [r \in Runners |-> IF removed # {} THEN {} ELSE StillWaiting(r)]
            /\ UNCHANGED overtaken
    BY DEF Refresh
<1> DEFINE removed == known \ present
           members == (Registered \cup present) \ removed
<1>2. /\ order' \in Orders(members) /\ cursor' = CursorAfter /\ known' = present
      /\ waiting' = [r \in Runners |-> IF removed # {} THEN {} ELSE StillWaiting(r)]
      /\ UNCHANGED overtaken
    BY <1>1
<1>3. healthy' \in [Runners -> BOOLEAN] /\ admits' \in [Runners -> Kinds]
    BY <1>1 DEF IInv, TypeOK
<1>4. members \in SUBSET Runners
    BY DEF IInv, TypeOK, Registered, ToSet
<1>5. /\ order' \in Seq(Runners) /\ DOMAIN order' = 1 .. Len(order')
      /\ IsInjective(order')
      /\ ToSet(order') = members
    BY <1>2, <1>4, OrdersEnumerate, RunnerRegistryAssumption
<1>6. cursor \in 0 .. AtLeastOne(Len(order)) - 1 /\ Len(order) \in Nat
      /\ DOMAIN order = 1 .. Len(order) /\ Len(order') \in Nat
    BY <1>5 DEF IInv, TypeOK
<1>7. cursor' \in 0 .. AtLeastOne(Len(order')) - 1
    BY <1>2, <1>6 DEF CursorAfter, AtLeastOne
<1>8. waiting' \in [Runners -> SUBSET Runners]
    BY <1>2 DEF IInv, TypeOK, StillWaiting
<1>9. TypeOK'
    BY <1>2, <1>3, <1>5, <1>7, <1>8 DEF IInv, TypeOK, Registered
<1>10. WaitersLead'
  <2>1. CASE removed # {}
      BY <1>2, <2>1 DEF WaitersLead
  <2>2. CASE removed = {}
    <3>1. Registered \subseteq members
        BY <2>2
    <3>2. Len(order) <= Len(order') /\ \A l \in 1 .. Len(order) : order'[l] = order[l]
        BY <1>2, <1>4, <3>1, OrdersExtend, RunnerRegistryAssumption DEF IInv
    <3>3. cursor' = cursor
        BY <1>2, <1>6, <3>2 DEF CursorAfter, AtLeastOne
    <3>. QED
        BY <1>2, <1>5, <1>6, <2>2, <3>2, <3>3, StillLead
  <2>. QED
      BY <2>1, <2>2
<1>. QED
    BY <1>2, <1>9, <1>10 DEF IInv, TurnsAreFair

\* A probe records one runner's health.
LEMMA ProbePreserves ==
    ASSUME IInv, NEW up \in BOOLEAN, NEW kind \in Kinds, Probe(up, kind)
    PROVE  IInv'
<1>1. WaitersLead'
    BY StillLead DEF Probe
<1>2. Head(probing) \in Runners /\ Tail(probing) \in Seq(Runners)
    BY DEF Probe, IInv, TypeOK
<1>3. TypeOK'
    BY <1>2 DEF Probe, IInv, TypeOK, Registered, StillWaiting
<1>. QED
    BY <1>1, <1>3 DEF Probe, IInv, TurnsAreFair

\* Every step preserves the invariant.
LEMMA NextIInv == IInv /\ [Next]_vars => IInv'
<1> SUFFICES ASSUME IInv, [Next]_vars PROVE IInv'
    OBVIOUS
<1>1. CASE \E vnc \in BOOLEAN : SelectNext(vnc)
    BY <1>1, SelectNextPreserves
<1>2. CASE StartUp
    BY <1>2, RefreshPreserves DEF StartUp, IInv, TypeOK
<1>3. CASE Iterate
    BY <1>3, RefreshPreserves DEF Iterate, IInv, TypeOK
<1>4. CASE \E up \in BOOLEAN, kind \in Kinds : Probe(up, kind)
    BY <1>4, ProbePreserves
<1>5. CASE ProbeRaises
  <2>1. WaitersLead'
      BY <1>5 DEF ProbeRaises, turnVars, IInv, WaitersLead, Sooner
  <2>. QED
      BY <1>5, <2>1 DEF ProbeRaises, turnVars, IInv, TypeOK, Registered, TurnsAreFair
<1>6. CASE UNCHANGED vars
  <2>1. WaitersLead'
      BY <1>6 DEF vars, turnVars, IInv, WaitersLead, Sooner
  <2>. QED
      BY <1>6, <2>1 DEF vars, turnVars, IInv, TypeOK, Registered, TurnsAreFair
<1>. QED
    BY <1>1, <1>2, <1>3, <1>4, <1>5, <1>6 DEF Next

\* The invariant holds in every reachable state.
THEOREM Invariance == Spec => []IInv
<1>. QED
    BY InitIInv, NextIInv, PTL DEF Spec

-----------------------------------------------------------------------------
\* The order has no runner twice and the cursor stays inside it, whatever runners
\* leave or join in front of it, at it or behind it.
THEOREM TypeCorrect == Spec => []TypeOK
<1>1. IInv => TypeOK
    BY DEF IInv
<1>. QED
    BY <1>1, Invariance, PTL

\* select_next() chooses no runner twice while another that any request could have
\* had all the time has not been chosen, however requests, joins and probes mix.
THEOREM TurnsAreAlwaysFair == Spec => []TurnsAreFair
<1>1. IInv => TurnsAreFair
    BY DEF IInv
<1>. QED
    BY <1>1, Invariance, PTL
=============================================================================
