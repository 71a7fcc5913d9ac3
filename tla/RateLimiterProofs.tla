------------------------- MODULE RateLimiterProofs -------------------------
(***************************************************************************)
(* Proofs about RateLimiter, for every number of addresses and attempts    *)
(* and every limit and window.                                             *)
(*                                                                         *)
(* The entries of an address are attempts the running process let through, *)
(* at most Limit of them, and every such attempt of the window that ends   *)
(* now is among them.  So that window is bounded, and so was every earlier *)
(* one: an attempt that is let through now lies in none of them, and what  *)
(* earlier processes let through does not change.                          *)
(***************************************************************************)
EXTENDS LimiterRefinement, FiniteSetTheorems, TLAPS

\* The entries are attempts this process let through.
EntriesAdmitted ==
    \A k \in Keys : visits[k] \subseteq {a \in Admitted(k) : life[a] = restarts}

\* What was let through in the window that ends now is entered.
WindowEntered == \A k \in Keys : InWindow(k, now, restarts) \subseteq visits[k]

NoneInFuture == \A a \in Attempts : at[a] <= now /\ life[a] <= restarts

LimiterInv ==
    /\ TypeOK /\ EntriesAdmitted /\ WindowEntered /\ NoneInFuture
    /\ VisitsBounded /\ WindowBounded

----------------------------------------------------------------------------
\* Sets of attempts are finite, and a part has no more elements.
LEMMA Smaller ==
    ASSUME NEW S \in SUBSET Attempts, NEW T \in SUBSET S
    PROVE  /\ IsFiniteSet(S) /\ Cardinality(S) \in Nat
           /\ IsFiniteSet(T) /\ Cardinality(T) \in Nat
           /\ Cardinality(T) <= Cardinality(S)
<1>1. IsFiniteSet(S)
    BY FS_Subset, ConstantsAssumption
<1>2. IsFiniteSet(T) /\ Cardinality(T) <= Cardinality(S)
    BY <1>1, FS_Subset
<1> QED
    BY <1>1, <1>2, FS_CardinalityType

LEMMA InitLimiter == Init => LimiterInv
<1> SUFFICES ASSUME Init PROVE LimiterInv
    OBVIOUS
<1>1. TypeOK /\ EntriesAdmitted /\ NoneInFuture
    BY ConstantsAssumption DEF Init, TypeOK, EntriesAdmitted, NoneInFuture
<1>2. \A k \in Keys, t \in Nat, n \in Nat : InWindow(k, t, n) = {}
    BY DEF Init, InWindow, Admitted
<1>3. WindowEntered
    BY <1>2 DEF WindowEntered, Init
<1>4. VisitsBounded /\ WindowBounded
    BY <1>2, FS_EmptySet, ConstantsAssumption DEF VisitsBounded, WindowBounded, Init
<1> QED
    BY <1>1, <1>3, <1>4 DEF LimiterInv

\* Adding an element to fewer than Limit leaves at most Limit.
LEMMA OneMore ==
    ASSUME NEW S, IsFiniteSet(S), NEW e, ~(Cardinality(S) >= Limit)
    PROVE  Cardinality(S \cup {e}) <= Limit
<1>1. Cardinality(S) \in Nat
    BY FS_CardinalityType
<1>2. Cardinality(S \cup {e}) \in {Cardinality(S), Cardinality(S) + 1}
    BY FS_AddElement
<1> QED
    BY <1>1, <1>2, ConstantsAssumption

LEMMA AdmitKeeps == ASSUME LimiterInv, NEW a \in Attempts, Admit(a) PROVE LimiterInv'
<1> DEFINE k == by[a]
<1> USE DEF LimiterInv
<1>1. TypeOK' /\ NoneInFuture'
    <2>1. now \in 0..MaxTime /\ k \in Keys /\ Kept(k) \cup {a} \in SUBSET Attempts
        BY DEF TypeOK, Kept
    <2> QED
        BY <2>1, ConstantsAssumption DEF TypeOK, NoneInFuture, Admit
<1>2. k \in Keys /\ now \in Nat /\ restarts \in Nat /\ Kept(k) \in SUBSET Attempts
    BY ConstantsAssumption DEF TypeOK, Kept
<1>3. /\ visits'[k] = Kept(k) \cup {a}
      /\ \A j \in Keys \ {k} : visits'[j] = visits[j]
      /\ at'[a] = now /\ result'[a] = "true" /\ result[a] = "none" /\ life'[a] = restarts
      /\ \A b \in Attempts \ {a} :
            at'[b] = at[b] /\ result'[b] = result[b] /\ life'[b] = life[b]
      /\ by' = by /\ now' = now /\ restarts' = restarts
    BY <1>2 DEF Admit, TypeOK
<1>4. \A j \in Keys : Admitted(j)' = IF j = k THEN Admitted(j) \cup {a} ELSE Admitted(j)
    BY <1>3 DEF Admitted
<1>5. EntriesAdmitted'
    BY <1>2, <1>3, <1>4 DEF EntriesAdmitted, Kept, Admitted
<1>6. WindowEntered'
    <2> SUFFICES ASSUME NEW j \in Keys, NEW b \in InWindow(j, now, restarts)', b # a
                 PROVE  b \in visits'[j]
        BY <1>3, <1>4 DEF WindowEntered, InWindow, Admitted
    <2>1. b \in InWindow(j, now, restarts) /\ at[b] + Window > now
        BY <1>3, <1>4 DEF InWindow, Admitted
    <2>2. b \in visits[j]
        BY <2>1 DEF WindowEntered
    <2> QED
        BY <2>1, <2>2, <1>2, <1>3 DEF Kept
<1>7. VisitsBounded'
    <2>1. IsFiniteSet(Kept(k)) /\ ~(Cardinality(Kept(k)) >= Limit)
        BY <1>2, Smaller DEF Admit, Full
    <2>2. Cardinality(Kept(k) \cup {a}) <= Limit
        BY <2>1, OneMore
    <2>3. Cardinality(visits'[k]) <= Limit
        BY <1>3, <2>2
    <2> QED
        BY <2>3, <1>3 DEF VisitsBounded
<1>8. WindowBounded'
    <2> SUFFICES ASSUME NEW j \in Keys, NEW t \in 0..now, NEW n \in 0..restarts
                 PROVE  Cardinality(InWindow(j, t, n)') <= Limit
        BY <1>3 DEF WindowBounded, InWindow, Admitted
    <2>1. CASE t < now \/ n # restarts
        <3>1. InWindow(j, t, n)' = InWindow(j, t, n)
            BY <2>1, <1>2, <1>3, <1>4 DEF InWindow, Admitted
        <3> QED
            BY <3>1 DEF WindowBounded
    <2>2. CASE t = now /\ n = restarts
        <3>1. InWindow(j, t, n)' \in SUBSET visits'[j] /\ visits'[j] \in SUBSET Attempts
            BY <1>1, <1>3, <1>6, <2>2 DEF WindowEntered, TypeOK, InWindow
        <3>2. /\ Cardinality(visits'[j]) \in Nat /\ Cardinality(InWindow(j, t, n)') \in Nat
              /\ Cardinality(InWindow(j, t, n)') <= Cardinality(visits'[j])
            BY <3>1, Smaller
        <3>3. Cardinality(visits'[j]) <= Limit
            BY <1>7 DEF VisitsBounded
        <3> QED
            BY <3>2, <3>3, ConstantsAssumption
    <2> QED
        BY <2>1, <2>2, <1>2
<1> QED
    BY <1>1, <1>5, <1>6, <1>7, <1>8

LEMMA RefuseKeeps == ASSUME LimiterInv, NEW a \in Attempts, Refuse(a) PROVE LimiterInv'
<1> DEFINE k == by[a]
<1> USE DEF LimiterInv
<1>1. TypeOK' /\ NoneInFuture'
    <2>1. now \in 0..MaxTime /\ k \in Keys /\ Kept(k) \in SUBSET Attempts
        BY DEF TypeOK, Kept
    <2> QED
        BY <2>1, ConstantsAssumption DEF TypeOK, NoneInFuture, Refuse
<1>2. k \in Keys /\ now \in Nat /\ restarts \in Nat /\ Kept(k) \in SUBSET visits[k] /\ visits[k] \in SUBSET Attempts
    BY ConstantsAssumption DEF TypeOK, Kept
<1>3. /\ visits'[k] = Kept(k)
      /\ \A j \in Keys \ {k} : visits'[j] = visits[j]
      /\ result'[a] = "false" /\ result[a] = "none"
      /\ \A b \in Attempts \ {a} :
            at'[b] = at[b] /\ result'[b] = result[b] /\ life'[b] = life[b]
      /\ by' = by /\ now' = now /\ restarts' = restarts
    BY <1>2 DEF Refuse, TypeOK
<1>4. \A j \in Keys, t \in Nat, n \in Nat :
        Admitted(j)' = Admitted(j) /\ InWindow(j, t, n)' = InWindow(j, t, n)
    BY <1>3 DEF Admitted, InWindow
<1>5. EntriesAdmitted'
    BY <1>2, <1>3, <1>4 DEF EntriesAdmitted, Admitted
<1>6. WindowEntered'
    <2> SUFFICES ASSUME NEW j \in Keys, NEW b \in InWindow(j, now, restarts)
                 PROVE  b \in visits'[j]
        BY <1>3 DEF WindowEntered, InWindow, Admitted
    <2>1. b \in visits[j] /\ at[b] + Window > now
        BY DEF WindowEntered, InWindow
    <2> QED
        BY <2>1, <1>2, <1>3 DEF Kept
<1>7. VisitsBounded'
    <2>1. /\ Cardinality(visits[k]) \in Nat /\ Cardinality(Kept(k)) \in Nat
          /\ Cardinality(Kept(k)) <= Cardinality(visits[k])
        BY <1>2, Smaller
    <2>2. Cardinality(visits'[k]) <= Limit
        BY <2>1, <1>2, <1>3, ConstantsAssumption DEF VisitsBounded
    <2> QED
        BY <2>2, <1>3 DEF VisitsBounded
<1>8. WindowBounded'
    <2> SUFFICES ASSUME NEW j \in Keys, NEW t \in 0..now, NEW n \in 0..restarts
                 PROVE  Cardinality(InWindow(j, t, n)') <= Limit
        BY <1>3 DEF WindowBounded, InWindow, Admitted
    <2> QED
        BY <1>2, <1>4 DEF WindowBounded
<1> QED
    BY <1>1, <1>5, <1>6, <1>7, <1>8

\* When the clock goes on, the window that ends then holds nothing that the
\* window before it did not.
LEMMA TickKeeps == ASSUME LimiterInv, Tick PROVE LimiterInv'
<1> USE DEF LimiterInv
<1>1. /\ now \in Nat /\ now' = now + 1 /\ visits' = visits /\ by' = by /\ at' = at
      /\ result' = result /\ restarts \in Nat /\ restarts' = restarts /\ life' = life
    BY ConstantsAssumption DEF TypeOK, Tick
<1>2. TypeOK' /\ NoneInFuture'
    <2>1. \A b \in Attempts : at[b] \in Nat
        BY ConstantsAssumption DEF TypeOK
    <2> QED
        BY <1>1, <2>1, ConstantsAssumption DEF TypeOK, NoneInFuture, Tick
<1>3. \A j \in Keys, t \in Nat, n \in Nat :
        Admitted(j)' = Admitted(j) /\ InWindow(j, t, n)' = InWindow(j, t, n)
    BY <1>1 DEF Admitted, InWindow
<1>4. EntriesAdmitted' /\ VisitsBounded'
    BY <1>1, <1>3 DEF EntriesAdmitted, VisitsBounded
<1>5. \A j \in Keys : InWindow(j, now + 1, restarts) \in SUBSET visits[j]
    <2> SUFFICES ASSUME NEW j \in Keys, NEW b \in InWindow(j, now + 1, restarts)
                 PROVE  b \in visits[j]
        OBVIOUS
    <2>1. b \in Attempts /\ at[b] \in Nat /\ at[b] + Window > now + 1
        BY ConstantsAssumption DEF InWindow, Admitted, TypeOK
    <2>2. b \in InWindow(j, now, restarts)
        BY <1>1, <2>1, ConstantsAssumption DEF InWindow, NoneInFuture
    <2> QED
        BY <2>2 DEF WindowEntered
<1>6. WindowEntered'
    BY <1>1, <1>5 DEF WindowEntered, InWindow, Admitted
<1>7. WindowBounded'
    <2> SUFFICES ASSUME NEW j \in Keys, NEW t \in 0..(now + 1), NEW n \in 0..restarts
                 PROVE  Cardinality(InWindow(j, t, n)) <= Limit
        BY <1>1 DEF WindowBounded, InWindow, Admitted
    <2>1. CASE t \in 0..now
        BY <2>1 DEF WindowBounded
    <2>2. CASE t = now + 1 /\ n = restarts
        <3>1. visits[j] \in SUBSET Attempts /\ InWindow(j, t, n) \in SUBSET visits[j]
            BY <2>2, <1>5 DEF TypeOK
        <3>2. /\ Cardinality(visits[j]) \in Nat /\ Cardinality(InWindow(j, t, n)) \in Nat
              /\ Cardinality(InWindow(j, t, n)) <= Cardinality(visits[j])
            BY <3>1, Smaller
        <3> QED
            BY <3>2, ConstantsAssumption DEF VisitsBounded
    <2>3. CASE t = now + 1 /\ n # restarts
        \* the window of an earlier process shrinks
        <3>1. /\ InWindow(j, t, n) \in SUBSET InWindow(j, now, n)
              /\ InWindow(j, now, n) \in SUBSET Attempts
            <4> SUFFICES ASSUME NEW b \in InWindow(j, t, n) PROVE b \in InWindow(j, now, n)
                BY DEF InWindow, Admitted
            <4>1. b \in Attempts /\ at[b] \in Nat /\ at[b] + Window > now + 1
                BY <2>3, ConstantsAssumption DEF InWindow, Admitted, TypeOK
            <4> QED
                BY <1>1, <4>1, ConstantsAssumption DEF InWindow, NoneInFuture
        <3>2. /\ Cardinality(InWindow(j, now, n)) \in Nat /\ Cardinality(InWindow(j, t, n)) \in Nat
              /\ Cardinality(InWindow(j, t, n)) <= Cardinality(InWindow(j, now, n))
            BY <3>1, Smaller
        <3>3. Cardinality(InWindow(j, now, n)) <= Limit
            BY <1>1 DEF WindowBounded
        <3> QED
            BY <3>2, <3>3, ConstantsAssumption
    <2> QED
        BY <1>1, <2>1, <2>2, <2>3
<1> QED
    BY <1>2, <1>4, <1>6, <1>7

\* A restart empties the entries, and no attempt is of the new process yet.
LEMMA RestartKeeps == ASSUME LimiterInv, Restart PROVE LimiterInv'
<1> USE DEF LimiterInv
<1>1. /\ restarts \in Nat /\ restarts' = restarts + 1 /\ visits' = [k \in Keys |-> {}]
      /\ now' = now /\ by' = by /\ at' = at /\ result' = result /\ life' = life
      /\ now \in Nat
    BY ConstantsAssumption DEF TypeOK, Restart
<1>2. \A a \in Attempts : life[a] \in Nat /\ life[a] <= restarts
    BY ConstantsAssumption DEF TypeOK, NoneInFuture
<1>3. TypeOK' /\ NoneInFuture'
    BY <1>1, <1>2, ConstantsAssumption DEF TypeOK, NoneInFuture, Restart
<1>4. \A k \in Keys, t \in Nat : InWindow(k, t, restarts + 1) = {}
    BY <1>1, <1>2 DEF InWindow, Admitted
<1>5. EntriesAdmitted' /\ WindowEntered'
    BY <1>1, <1>4 DEF EntriesAdmitted, WindowEntered, InWindow, Admitted
<1>6. VisitsBounded'
    BY <1>1, FS_EmptySet, ConstantsAssumption DEF VisitsBounded
<1>7. WindowBounded'
    <2> SUFFICES ASSUME NEW k \in Keys, NEW t \in 0..now, NEW n \in 0..(restarts + 1)
                 PROVE  Cardinality(InWindow(k, t, n)) <= Limit
        BY <1>1 DEF WindowBounded, InWindow, Admitted
    <2>1. CASE n \in 0..restarts
        BY <2>1 DEF WindowBounded
    <2>2. CASE n = restarts + 1
        BY <2>2, <1>1, <1>4, FS_EmptySet, ConstantsAssumption
    <2> QED
        BY <1>1, <2>1, <2>2
<1> QED
    BY <1>3, <1>5, <1>6, <1>7

LEMMA NextLimiter == LimiterInv /\ [Next]_vars => LimiterInv'
<1> SUFFICES ASSUME LimiterInv, [Next]_vars PROVE LimiterInv'
    OBVIOUS
<1>1. CASE Tick
    BY <1>1, TickKeeps
<1>2. ASSUME NEW a \in Attempts, Admit(a) PROVE LimiterInv'
    BY <1>2, AdmitKeeps
<1>3. ASSUME NEW a \in Attempts, Refuse(a) PROVE LimiterInv'
    BY <1>3, RefuseKeeps
<1>4. CASE Restart
    BY <1>4, RestartKeeps
<1>5. CASE UNCHANGED vars
    BY <1>5 DEF vars, LimiterInv, TypeOK, EntriesAdmitted, WindowEntered, NoneInFuture,
                VisitsBounded, WindowBounded, InWindow, Admitted
<1> QED
    BY <1>1, <1>2, <1>3, <1>4, <1>5 DEF Next

\* The invariant holds throughout.
THEOREM LimiterInvariant == Spec => []LimiterInv
<1> QED
    BY InitLimiter, NextLimiter, PTL DEF Spec

----------------------------------------------------------------------------
\* The variables keep their types (middleware/auth.go, RateLimiter).
THEOREM TypesHold == Spec => []TypeOK
<1>1. LimiterInv => TypeOK
    BY DEF LimiterInv
<1> QED
    BY <1>1, LimiterInvariant, PTL

\* However attempts bunch, no window sees more of an address than the limit
\* (middleware/auth.go, Allow).
THEOREM LimitHolds == Spec => []WindowBounded
<1>1. LimiterInv => WindowBounded
    BY DEF LimiterInv
<1> QED
    BY <1>1, LimiterInvariant, PTL

\* The entries of an address never outgrow the limit (middleware/auth.go,
\* Allow).
THEOREM MemoryHolds == Spec => []VisitsBounded
<1>1. LimiterInv => VisitsBounded
    BY DEF LimiterInv
<1> QED
    BY <1>1, LimiterInvariant, PTL

\* An attempt is refused only when the limit was let through in its window
\* (middleware/auth.go, Allow).
THEOREM RefusalJust == Spec => RefusedOnlyWhenFull
<1> DEFINE Just ==
        \A a \in Attempts :
            result[a] = "none" /\ result'[a] = "false"
                => Cardinality(InWindow(by[a], now, restarts)) >= Limit
<1>1. LimiterInv /\ [Next]_vars => [Just]_vars
    <2> SUFFICES ASSUME LimiterInv, [Next]_vars,
                        NEW a \in Attempts, result[a] = "none", result'[a] = "false"
                 PROVE  Cardinality(InWindow(by[a], now, restarts)) >= Limit
        OBVIOUS
    <2>1. Refuse(a)
        BY DEF Next, Tick, Restart, Admit, Refuse, vars, LimiterInv, TypeOK
    <2>2. /\ Kept(by[a]) \in SUBSET InWindow(by[a], now, restarts)
          /\ InWindow(by[a], now, restarts) \in SUBSET Attempts
        BY DEF Kept, InWindow, Admitted, LimiterInv, EntriesAdmitted, NoneInFuture, TypeOK
    <2>3. /\ Cardinality(Kept(by[a])) \in Nat
          /\ Cardinality(InWindow(by[a], now, restarts)) \in Nat
          /\ Cardinality(Kept(by[a])) <= Cardinality(InWindow(by[a], now, restarts))
        BY <2>2, Smaller
    <2> QED
        BY <2>1, <2>3, ConstantsAssumption DEF Refuse, Full
<1> QED
    BY <1>1, LimiterInvariant, PTL DEF Spec, RefusedOnlyWhenFull

----------------------------------------------------------------------------
(* The limiter implements SlidingWindow.                                   *)

\* What Allow keeps of its entries is what the whole log has in the window.
LEMMA PruningIsExact ==
    ASSUME LimiterInv, NEW k \in Keys
    PROVE  Kept(k) = W!Recent(k) /\ (Full(k) <=> W!Recent(k) \in Enough)
<1>1. W!Recent(k) = InWindow(k, now, restarts)
    BY DEF W!Recent, logBar, InWindow, Admitted, LimiterInv, NoneInFuture
<1>2. Kept(k) \subseteq InWindow(k, now, restarts)
    BY DEF Kept, InWindow, Admitted, LimiterInv, EntriesAdmitted, NoneInFuture
<1>3. InWindow(k, now, restarts) \subseteq Kept(k)
    BY DEF Kept, InWindow, LimiterInv, WindowEntered
<1>4. Kept(k) = W!Recent(k) /\ Kept(k) \in SUBSET Attempts
    BY <1>1, <1>2, <1>3 DEF InWindow, Admitted
<1> QED
    BY <1>4 DEF Full, Enough

LEMMA InitIsInit == Init => W!Init
BY DEF Init, W!Init, logBar

\* An answer of Allow is one of the abstract limiter.
LEMMA AnswerIsAllow ==
    ASSUME LimiterInv, NEW a \in Attempts, Admit(a) \/ Refuse(a)
    PROVE  W!Allow(a)
<1> DEFINE k == by[a]
<1>1. k \in Keys /\ result \in [Attempts -> {"none", "true", "false"}]
      /\ life \in [Attempts -> 0..MaxRestarts]
    BY DEF LimiterInv, TypeOK
<1>2. Full(k) <=> W!Recent(k) \in Enough
    BY <1>1, PruningIsExact
<1>3. CASE Admit(a)
    <2>1. logBar' = logBar \cup {a}
        BY <1>1, <1>3 DEF Admit, logBar
    <2> QED
        BY <1>2, <1>3, <2>1 DEF Admit, W!Allow
<1>4. CASE Refuse(a)
    <2>1. logBar' = logBar
        BY <1>1, <1>4 DEF Refuse, logBar
    <2> QED
        BY <1>2, <1>4, <2>1 DEF Refuse, W!Allow
<1> QED
    BY <1>3, <1>4

\* A new process has answered nothing yet.
LEMMA RestartIsRestart == ASSUME LimiterInv, Restart PROVE W!Restart
<1>1. \A a \in Attempts : life[a] \in Nat /\ life[a] <= restarts
    BY ConstantsAssumption DEF LimiterInv, TypeOK, NoneInFuture
<1>2. restarts \in Nat /\ restarts' = restarts + 1
    BY ConstantsAssumption DEF LimiterInv, TypeOK, Restart
<1>3. logBar' = {}
    BY <1>1, <1>2 DEF logBar, Restart
<1> QED
    BY <1>3 DEF Restart, W!Restart

\* The limiter that prunes answers every attempt as one that keeps the whole
\* history of its process would (middleware/auth.go, Allow).
THEOREM LimiterExact == Spec => LimiterIsExact
<1>1. LimiterInv /\ [Next]_vars => [W!Next]_(W!vars)
    <2> SUFFICES ASSUME LimiterInv, [Next]_vars PROVE [W!Next]_(W!vars)
        OBVIOUS
    <2>1. ASSUME NEW a \in Attempts, Admit(a) \/ Refuse(a) PROVE W!Next
        BY <2>1, AnswerIsAllow DEF W!Next
    <2>2. CASE Restart
        BY <2>2, RestartIsRestart DEF W!Next
    <2>3. CASE Tick
        BY <2>3 DEF Tick, W!Next, W!Tick, logBar
    <2>4. CASE UNCHANGED vars
        BY <2>4 DEF vars, W!vars, logBar
    <2> QED
        BY <2>1, <2>2, <2>3, <2>4 DEF Next
<1> QED
    BY <1>1, InitIsInit, LimiterInvariant, PTL DEF Spec, LimiterIsExact, W!Spec

============================================================================
