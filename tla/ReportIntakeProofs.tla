-------------------------- MODULE ReportIntakeProofs --------------------------
(* Proofs about ReportIntake. *)
EXTENDS ReportIntake, FiniteSetTheorems, TLAPS

LEMMA StepCases ==
    ASSUME [Next]_vars
    PROVE  \/ \E p \in Requests :
                \/ \E k \in Keys : Begin(p, k)
                \/ Lookup(p) \/ Incr(p) \/ Expire(p) \/ TakeCooldown(p) \/ Refund(p)
                \/ Store(p) \/ StoreFails(p) \/ WriteCache(p) \/ Clear(p) \/ Die(p)
           \/ DayEnds
           \/ \E s \in Scopes : CooldownEnds(s)
           \/ \E k \in Keys : Age(k)
           \/ UNCHANGED vars
  BY DEF Next, Request

-----------------------------------------------------------------------------
(* Types                                                                   *)

LEMMA InitTyped == Init => TypeOK
  <1> SUFFICES ASSUME Init PROVE TypeOK
    OBVIOUS
  <1>1. expiring \in BOOLEAN /\ (expiring => day # None)
    BY DEF Init
  <1>2. /\ day \in Int \cup {None} /\ cooldown \in SUBSET Scopes
        /\ holding \in SUBSET Requests /\ accepted \in Nat /\ stray \in Nat
        /\ undone \in SUBSET Scopes
    BY DEF Init
  <1>3. recent \in [Keys -> Nat] /\ since \in [Scopes -> Nat] /\ older \in [Scopes -> SUBSET Requests]
    BY DEF Init
  <1>4. /\ pc \in [Requests -> Steps] /\ key \in [Requests -> Keys \cup {None}]
        /\ \A p \in Requests : key[p] = None <=> pc[p] = "idle"
    BY DEF Init, Steps
  <1>5. faults \in 0..MaxFaults
    BY IntakeAssumption DEF Init
  <1> QED
    BY <1>1, <1>2, <1>3, <1>4, <1>5 DEF TypeOK

LEMMA RequestTyped ==
    ASSUME TypeOK, NEW p \in Requests,
           \/ \E k \in Keys : Begin(p, k)
           \/ Lookup(p) \/ Incr(p) \/ Expire(p) \/ TakeCooldown(p) \/ Refund(p)
           \/ Store(p) \/ StoreFails(p) \/ WriteCache(p) \/ Clear(p) \/ Die(p)
    PROVE  TypeOK'
  <1>c. None \notin Int /\ None \notin Keys /\ MaxFaults \in Nat
    BY IntakeAssumption DEF Keys
  <1>1. ASSUME NEW k \in Keys, Begin(p, k) PROVE TypeOK'
    BY <1>1, <1>c DEF TypeOK, Begin, Steps, redis
  <1>2. CASE Lookup(p)
    BY <1>2, <1>c DEF TypeOK, Lookup, Leave, Goto, Steps, redis
  <1>3. CASE Incr(p)
    BY <1>3, <1>c DEF TypeOK, Incr, Goto, Counted, Steps
  <1>4. CASE Expire(p)
    BY <1>4, <1>c DEF TypeOK, Expire, Goto, HasCounter, Steps
  <1>5. CASE TakeCooldown(p)
    <2>1. Scope(p) \in Scopes
      BY <1>5 DEF TypeOK, TakeCooldown, Scope, Keys
    <2> QED
      BY <1>5, <1>c, <2>1 DEF TypeOK, TakeCooldown, Refused, Goto, Steps
  <1>6. CASE Refund(p)
    BY <1>6, <1>c DEF TypeOK, Refund, Decrement, Counted, Leave, Steps
  <1>7. CASE Store(p)
    <2>1. Scope(p) \in Scopes /\ key[p] \in Keys
      BY <1>7 DEF TypeOK, Store, Scope, Keys
    <2>2. recent' \in [Keys -> Nat] /\ since' \in [Scopes -> Nat]
      BY <1>7, <2>1 DEF TypeOK, Store, Committed
    <2>3. accepted' \in Nat /\ holding' \in SUBSET Requests
      BY <1>7 DEF TypeOK, Store, Committed
    <2>4. /\ pc' \in [Requests -> Steps] /\ key' \in [Requests -> Keys \cup {None}]
          /\ \A q \in Requests : key'[q] = None <=> pc'[q] = "idle"
          /\ older' \in [Scopes -> SUBSET Requests]
      BY <1>7, <1>c, <2>1 DEF TypeOK, Store, Goto, Leave, Steps
    <2> QED
      BY <1>7, <2>2, <2>3, <2>4 DEF TypeOK, Store, redis
  <1>8. CASE StoreFails(p)
    <2>1. Scope(p) \in Scopes /\ key[p] \in Keys
      BY <1>8 DEF TypeOK, StoreFails, Scope, Keys
    <2>2. /\ recent' \in [Keys -> Nat] /\ since' \in [Scopes -> Nat] /\ accepted' \in Nat
          /\ holding' \in SUBSET Requests /\ undone' \in SUBSET Scopes
      BY <1>8, <2>1 DEF TypeOK, StoreFails, Committed
    <2>3. /\ pc' \in [Requests -> Steps] /\ key' \in [Requests -> Keys \cup {None}]
          /\ \A q \in Requests : key'[q] = None <=> pc'[q] = "idle"
          /\ older' \in [Scopes -> SUBSET Requests] /\ faults' \in 0..MaxFaults
      BY <1>8, <1>c, <2>1 DEF TypeOK, StoreFails, Fault, Goto, Steps
    <2> QED
      BY <1>8, <2>2, <2>3 DEF TypeOK, StoreFails, redis
  <1>9. CASE WriteCache(p)
    <2>1. Scope(p) \in Scopes
      BY <1>9 DEF TypeOK, WriteCache, Scope, Keys
    <2> QED
      BY <1>9, <2>1, <1>c DEF TypeOK, WriteCache, Fault, Goto, Leave, Steps, redis
  <1>10. CASE Clear(p)
    BY <1>10, <1>c DEF TypeOK, Clear, Goto, Steps
  <1>11. CASE Die(p)
    BY <1>11, <1>c DEF TypeOK, Die, Fault, Leave, Steps, redis
  <1> QED
    BY <1>1, <1>2, <1>3, <1>4, <1>5, <1>6, <1>7, <1>8, <1>9, <1>10, <1>11

LEMMA NextTyped == TypeOK /\ [Next]_vars => TypeOK'
  <1> SUFFICES ASSUME TypeOK, [Next]_vars PROVE TypeOK'
    OBVIOUS
  <1>1. CASE DayEnds
    BY <1>1 DEF TypeOK, DayEnds, requests
  <1>2. ASSUME NEW s \in Scopes, CooldownEnds(s) PROVE TypeOK'
    BY <1>2 DEF TypeOK, CooldownEnds, requests
  <1>3. ASSUME NEW k \in Keys, Age(k) PROVE TypeOK'
    BY <1>3 DEF TypeOK, Age, redis, requests, ghosts
  <1>4. CASE UNCHANGED vars
    BY <1>4 DEF TypeOK, vars, redis, requests, ghosts
  <1> QED
    BY <1>1, <1>2, <1>3, <1>4, RequestTyped, StepCases

\* Redis, the reports and the requests keep their types, and a counter that
\* does not exist has no time to live.
THEOREM IntakeTypeOK == Spec => []TypeOK
  BY InitTyped, NextTyped, PTL DEF Spec

-----------------------------------------------------------------------------
(* The cap                                                                 *)

\* Requests whose report the counter has let in and that are not stored yet.
Passed == {p \in holding : pc[p] \in {"cooldown", "store"} \/ (pc[p] = "expire" /\ 1 <= MaxPerDay)}

\* Only a counted request holds a slot.
HoldersCounted ==
    \A p \in holding : pc[p] \in {"expire", "cooldown", "store", "clear", "refund"}

\* The counter is never below what is stored and held, but for stray decrements.
Covered == accepted + Cardinality(holding) <= Counted + stray

CapInv ==
    /\ TypeOK
    /\ HoldersCounted
    /\ Covered
    /\ accepted + Cardinality(Passed) <= MaxPerDay + stray

LEMMA Sizes ==
    ASSUME TypeOK
    PROVE  /\ IsFiniteSet(holding) /\ Cardinality(holding) \in Nat
           /\ IsFiniteSet(Passed) /\ Cardinality(Passed) \in Nat
           /\ Counted \in Int
  <1>1. IsFiniteSet(holding)
    BY IntakeAssumption, FS_Subset DEF TypeOK
  <1>2. IsFiniteSet(Passed)
    BY <1>1, FS_Subset DEF Passed
  <1> QED
    BY <1>1, <1>2, FS_CardinalityType DEF TypeOK, Counted

LEMMA InitCap == Init => CapInv
  <1> SUFFICES ASSUME Init PROVE CapInv
    OBVIOUS
  <1>1. TypeOK
    BY InitTyped
  <1>2. holding = {} /\ accepted = 0 /\ stray = 0 /\ Counted = 0
    BY DEF Init, Counted
  <1>3. Passed = {}
    BY <1>2 DEF Passed
  <1> QED
    BY <1>1, <1>2, <1>3, FS_EmptySet, IntakeAssumption DEF CapInv, HoldersCounted, Covered

\* A step that neither counts nor passes a request: the sums only fall.
LEMMA QuietStep ==
    ASSUME CapInv, TypeOK', HoldersCounted',
           holding' \subseteq holding, Passed' \subseteq Passed,
           accepted' = accepted, stray' = stray, Counted' = Counted
    PROVE  CapInv'
  <1>1. Cardinality(holding') <= Cardinality(holding) /\ Cardinality(Passed') <= Cardinality(Passed)
    BY Sizes, FS_Subset DEF CapInv
  <1>2. Cardinality(holding') \in Nat /\ Cardinality(Passed') \in Nat
    BY Sizes, FS_Subset, FS_CardinalityType DEF CapInv
  <1> QED
    BY <1>1, <1>2, Sizes, IntakeAssumption DEF CapInv, Covered, TypeOK

LEMMA IncrCap ==
    ASSUME CapInv, TypeOK', NEW p \in Requests, Incr(p)
    PROVE  CapInv'
  <1>types. /\ pc \in [Requests -> Steps] /\ holding \in SUBSET Requests
            /\ accepted \in Nat /\ stray \in Nat /\ MaxPerDay \in Nat
    BY IntakeAssumption DEF CapInv, TypeOK
  <1>1. /\ pc[p] = "incr" /\ holding' = holding \cup {p} /\ Counted' = Counted + 1
        /\ accepted' = accepted /\ stray' = stray
    BY Sizes, IntakeAssumption DEF CapInv, Incr, Counted
  <1>2. /\ pc' = [pc EXCEPT ![p] = pc'[p]]
        /\ pc'[p] = IF Counted' = 1 THEN "expire" ELSE IF Counted' > MaxPerDay THEN "refund" ELSE "cooldown"
    <2>1. Counted' = day'
      BY Sizes, IntakeAssumption DEF CapInv, Incr, Counted
    <2> QED
      BY <1>types, <2>1 DEF Incr, Goto, OverCap
  <1>3. HoldersCounted'
    BY <1>types, <1>1, <1>2 DEF CapInv, HoldersCounted
  <1>4. p \notin holding
    BY <1>1 DEF CapInv, HoldersCounted
  <1>5. Cardinality(holding') = Cardinality(holding) + 1 /\ IsFiniteSet(holding')
    BY <1>1, <1>4, Sizes, FS_AddElement DEF CapInv
  <1>6. Covered'
    BY <1>1, <1>5, <1>types, Sizes DEF CapInv, Covered
  <1>7. CASE Counted' <= MaxPerDay
    <2>1. Passed' \subseteq holding'
      BY DEF Passed
    <2>2. Cardinality(Passed') <= Cardinality(holding') /\ Cardinality(Passed') \in Nat
      BY <1>5, <2>1, FS_Subset, FS_CardinalityType
    <2>3. accepted' + Cardinality(holding') <= Counted' + stray'
      BY <1>6 DEF Covered
    <2> QED
      BY <1>1, <1>3, <1>5, <1>6, <1>7, <1>types, <2>2, <2>3, Sizes DEF CapInv
  <1>8. CASE Counted' > MaxPerDay
    <2>1. Passed' = Passed
      <3>1. \A q \in holding : pc'[q] = pc[q]
        BY <1>2, <1>4, <1>types
      <3>2. pc'[p] = "refund" \/ (pc'[p] = "expire" /\ ~(1 <= MaxPerDay))
        BY <1>2, <1>8, <1>types, <1>1, Sizes DEF CapInv
      <3> QED
        BY <1>1, <3>1, <3>2 DEF Passed
    <2> QED
      BY <1>1, <1>3, <1>6, <2>1 DEF CapInv
  <1> QED
    BY <1>1, <1>7, <1>8, <1>types, Sizes DEF CapInv

LEMMA StoreCap ==
    ASSUME CapInv, TypeOK', NEW p \in Requests,
           Store(p) \/ (StoreFails(p) /\ Committed(p))
    PROVE  CapInv'
  <1>types. /\ pc \in [Requests -> Steps] /\ holding \in SUBSET Requests
            /\ accepted \in Nat /\ stray \in Nat /\ MaxPerDay \in Nat
    BY IntakeAssumption DEF CapInv, TypeOK
  <1>1. /\ pc[p] = "store" /\ holding' = holding \ {p} /\ Counted' = Counted /\ stray' = stray
        /\ accepted' = IF p \in holding THEN accepted + 1 ELSE accepted
        /\ \A q \in Requests \ {p} : pc'[q] = pc[q]
    BY <1>types DEF Store, StoreFails, Committed, Goto, Leave, Counted, redis
  <1>2. HoldersCounted'
    BY <1>1, <1>types DEF CapInv, HoldersCounted
  <1>3. Passed' = Passed \ {p} /\ (p \in Passed <=> p \in holding)
    BY <1>1, <1>types DEF Passed
  <1>4. /\ Cardinality(holding') = IF p \in holding THEN Cardinality(holding) - 1 ELSE Cardinality(holding)
        /\ Cardinality(Passed') = IF p \in holding THEN Cardinality(Passed) - 1 ELSE Cardinality(Passed)
    BY <1>1, <1>3, Sizes, FS_RemoveElement DEF CapInv
  <1> QED
    BY <1>1, <1>2, <1>4, <1>types, Sizes DEF CapInv, Covered

LEMMA RefundCap ==
    ASSUME CapInv, TypeOK', NEW p \in Requests, Refund(p)
    PROVE  CapInv'
  <1>types. /\ pc \in [Requests -> Steps] /\ holding \in SUBSET Requests
            /\ accepted \in Nat /\ stray \in Nat /\ MaxPerDay \in Nat
    BY IntakeAssumption DEF CapInv, TypeOK
  <1>1. /\ pc[p] = "refund" /\ holding' = holding \ {p} /\ accepted' = accepted
        /\ stray' = IF p \in holding THEN stray ELSE stray + 1
        /\ \A q \in Requests \ {p} : pc'[q] = pc[q]
    BY <1>types DEF Refund, Decrement, Leave
  <1>2. Counted' = Counted - 1
    BY Sizes, IntakeAssumption DEF CapInv, Refund, Decrement, Counted
  <1>3. HoldersCounted'
    BY <1>1, <1>types DEF CapInv, HoldersCounted
  <1>4. Passed' = Passed
    BY <1>1, <1>types DEF Passed
  <1>5. Cardinality(holding') = IF p \in holding THEN Cardinality(holding) - 1 ELSE Cardinality(holding)
    BY <1>1, Sizes, FS_RemoveElement DEF CapInv
  <1> QED
    BY <1>1, <1>2, <1>3, <1>4, <1>5, <1>types, Sizes DEF CapInv, Covered

LEMMA NextCap == CapInv /\ [Next]_vars => CapInv'
  <1> SUFFICES ASSUME CapInv, [Next]_vars PROVE CapInv'
    OBVIOUS
  <1>types. pc \in [Requests -> Steps] /\ holding \in SUBSET Requests /\ MaxPerDay \in Nat /\ HoldersCounted
    BY IntakeAssumption DEF CapInv, TypeOK
  <1>t. TypeOK'
    BY NextTyped DEF CapInv
  <1>1. ASSUME NEW p \in Requests,
               \/ \E k \in Keys : Begin(p, k)
               \/ Lookup(p) \/ (StoreFails(p) /\ ~Committed(p)) \/ WriteCache(p) \/ Clear(p) \/ Die(p)
               \/ Expire(p) \/ TakeCooldown(p)
        PROVE  CapInv'
    <2>1. /\ holding' \subseteq holding /\ accepted' = accepted /\ stray' = stray /\ Counted' = Counted
          /\ \A q \in Requests \ {p} : pc'[q] = pc[q]
      BY <1>1, <1>types DEF Begin, Lookup, StoreFails, WriteCache, Clear, Die, Expire, TakeCooldown,
                            Refused, Goto, Leave, Counted, redis
    <2>2. /\ p \in holding' => pc'[p] \in {"expire", "cooldown", "store", "clear", "refund"}
          /\ p \in Passed' => p \in Passed
      <3>1. p \in holding => pc[p] \in {"expire", "cooldown", "store", "clear", "refund"}
        BY <1>types DEF HoldersCounted
      <3>2. CASE p \notin holding
        BY <2>1, <3>2 DEF Passed
      <3>3. CASE (\E k \in Keys : Begin(p, k)) \/ Lookup(p) \/ WriteCache(p)
        BY <3>1, <3>2, <3>3 DEF Begin, Lookup, WriteCache
      <3>4. CASE Die(p)
        BY <3>4 DEF Die, Passed
      <3>5. CASE StoreFails(p) \/ Clear(p)
        BY <3>5, <1>types DEF StoreFails, Clear, Goto, Passed
      <3>6. CASE Expire(p) /\ p \in holding
        BY <3>6, <1>types DEF Expire, Goto, OverCap, Passed
      <3>7. CASE TakeCooldown(p) /\ p \in holding
        BY <3>7, <1>types DEF TakeCooldown, Refused, Goto, Passed
      <3> QED
        BY <1>1, <3>2, <3>3, <3>4, <3>5, <3>6, <3>7
    <2>3. HoldersCounted'
      BY <2>1, <2>2, <1>types DEF HoldersCounted
    <2>4. Passed' \subseteq Passed
      BY <2>1, <2>2, <1>types DEF Passed
    <2> QED
      BY <1>t, <2>1, <2>3, <2>4, QuietStep
  <1>2. ASSUME NEW p \in Requests, Incr(p) PROVE CapInv'
    BY <1>2, <1>t, IncrCap
  <1>3. ASSUME NEW p \in Requests, Store(p) \/ (StoreFails(p) /\ Committed(p)) PROVE CapInv'
    BY <1>3, <1>t, StoreCap
  <1>4. ASSUME NEW p \in Requests, Refund(p) PROVE CapInv'
    BY <1>4, <1>t, RefundCap
  <1>5. CASE DayEnds
    <2>1. holding' = {} /\ accepted' = 0 /\ stray' = 0 /\ Counted' = 0
      BY <1>5 DEF DayEnds, Counted
    <2>2. Passed' = {}
      BY <2>1 DEF Passed
    <2> QED
      BY <1>t, <1>types, <2>1, <2>2, FS_EmptySet DEF CapInv, HoldersCounted, Covered
  <1>6. ASSUME UNCHANGED <<day, pc, holding, accepted, stray>> PROVE CapInv'
    <2>1. HoldersCounted' /\ Passed' = Passed /\ Counted' = Counted
      BY <1>6, <1>types DEF HoldersCounted, Passed, Counted
    <2> QED
      BY <1>t, <1>6, <2>1, QuietStep
  <1>7. ASSUME NEW s \in Scopes, CooldownEnds(s) PROVE CapInv'
    BY <1>7, <1>6 DEF CooldownEnds, requests
  <1>8. ASSUME NEW k \in Keys, Age(k) PROVE CapInv'
    BY <1>8, <1>6 DEF Age, redis, requests, ghosts
  <1>9. CASE UNCHANGED vars
    BY <1>9, <1>6 DEF vars, redis, requests, ghosts
  <1> QED
    BY <1>1, <1>2, <1>3, <1>4, <1>5, <1>7, <1>8, <1>9, StepCases

\* For any number of concurrent requests: the reports stored while one day
\* counter lives exceed MaxPerDay by the stray decrements at most.
THEOREM CapSafe == Spec => []CapHolds
  <1>1. CapInv => CapHolds
    BY Sizes, IntakeAssumption DEF CapInv, CapHolds, TypeOK
  <1> QED
    BY <1>1, InitCap, NextCap, PTL DEF Spec

-----------------------------------------------------------------------------
(* The marker                                                              *)

\* A request that set the marker of its scope and is not yet rid of it.
Holds(q) == pc[q] \in {"store", "cache", "clear"}

\* While a request holds its scope's marker the marker is there, nobody else
\* holds it, and it outlives every request of the scope now running.
MarkerHeld ==
    \A h, q \in Requests :
        Holds(h) /\ pc[q] # "idle" /\ Scope(q) = Scope(h) =>
            /\ Scope(h) \in cooldown
            /\ q \in older[Scope(h)]
            /\ Holds(q) => q = h

\* A request that set the marker and has not stored its report.
Storing(q) == pc[q] \in {"store", "clear"}

\* A scope where a report was stored keeps the marker of that report.
StoredKeepsMarker ==
    \A s \in Scopes \ undone : since[s] > 0 =>
        /\ since[s] = 1
        /\ s \in cooldown
        /\ \A h \in Requests : Storing(h) => Scope(h) # s

\* A request that saw no duplicate, although one has been stored since, is
\* kept out by the marker of the one that stored it.
LateDuplicateKeptOut ==
    \A q \in Requests :
        pc[q] \in {"incr", "expire", "cooldown"} /\ Scope(q) \notin undone /\ recent[key[q]] > 0 =>
            /\ Scope(q) \in cooldown
            /\ q \in older[Scope(q)]
            /\ \A h \in Requests : Storing(h) => Scope(h) # Scope(q)

\* What is about to be stored is not there.
StoresNew ==
    \A q \in Requests : pc[q] = "store" /\ Scope(q) \notin undone => recent[key[q]] = 0

MarkerInv ==
    /\ TypeOK
    /\ MarkerHeld
    /\ StoredKeepsMarker
    /\ LateDuplicateKeptOut
    /\ StoresNew
    /\ NoDuplicateReports

LEMMA InitMarker == Init => MarkerInv
  <1> SUFFICES ASSUME Init PROVE MarkerInv
    OBVIOUS
  <1>1. TypeOK
    BY InitTyped
  <1>2. /\ \A q \in Requests : pc[q] = "idle"
        /\ \A s \in Scopes : since[s] = 0
        /\ \A k \in Keys : recent[k] = 0
    BY DEF Init
  <1> QED
    BY <1>1, <1>2 DEF MarkerInv, MarkerHeld, StoredKeepsMarker, LateDuplicateKeptOut, StoresNew,
                      NoDuplicateReports, Holds

\* A request is in the scope of its key.
LEMMA Scoped ==
    ASSUME TypeOK, NEW q \in Requests, pc[q] # "idle"
    PROVE  key[q] \in Keys /\ Scope(q) \in Scopes /\ Scope(q) = key[q][1]
  BY DEF TypeOK, Scope, Keys

\* A step of p that leaves Redis' markers, the reports and the other requests
\* alone and makes p neither a holder nor a candidate that missed a report.
LEMMA PlainStep ==
    ASSUME MarkerInv, TypeOK', NEW p \in Requests,
           UNCHANGED <<cooldown, recent, since, undone>>,
           \A q \in Requests \ {p} : pc'[q] = pc[q] /\ key'[q] = key[q],
           \/ pc'[p] = "idle" /\ \A s \in Scopes : older'[s] = older[s] \ {p}
           \/ key'[p] = key[p] /\ older' = older /\ pc[p] # "idle"
              /\ \/ pc'[p] = "refund"
                 \/ pc'[p] \in {"expire", "cooldown"} /\ pc[p] \in {"incr", "expire"}
                 \/ pc'[p] = "incr" /\ recent[key[p]] = 0
                 \/ pc'[p] = "clear" /\ Storing(p)
    PROVE  MarkerInv'
  <1>parts. /\ TypeOK /\ MarkerHeld /\ StoredKeepsMarker /\ LateDuplicateKeptOut /\ StoresNew
            /\ NoDuplicateReports
    BY DEF MarkerInv
  <1>types. pc \in [Requests -> Steps] /\ older \in [Scopes -> SUBSET Requests] /\ since \in [Scopes -> Nat]
    BY <1>parts DEF TypeOK
  <1>0. recent \in [Keys -> Nat]
    BY <1>parts DEF TypeOK
  <1>1. \A q \in Requests : pc'[q] # "idle" =>
            /\ pc[q] # "idle" /\ key'[q] = key[q] /\ Scope(q)' = Scope(q) /\ Scope(q) \in Scopes
            /\ key[q] \in Keys
    BY Scoped, <1>parts DEF Scope
  <1>2. \A q \in Requests : (Holds(q)' => Holds(q)) /\ (Storing(q)' => Storing(q))
    BY <1>types DEF Holds, Storing
  <1>3. \A q \in Requests, s \in Scopes : pc'[q] # "idle" /\ q \in older[s] => q \in older'[s]
    BY <1>types
  <1>4. MarkerHeld'
    <2> SUFFICES ASSUME NEW h \in Requests, NEW q \in Requests,
                        Holds(h)', pc'[q] # "idle", Scope(q)' = Scope(h)'
                 PROVE  /\ Scope(h)' \in cooldown'
                        /\ q \in (older[Scope(h)])'
                        /\ Holds(q)' => q = h
      BY DEF MarkerHeld
    <2>1. pc'[h] # "idle" /\ Holds(h)
      BY <1>2 DEF Holds
    <2>2. Scope(q) = Scope(h) /\ pc[q] # "idle" /\ Scope(h)' = Scope(h) /\ Scope(h) \in Scopes
      BY <2>1, <1>1
    <2>3. Scope(h) \in cooldown /\ q \in older[Scope(h)] /\ (Holds(q) => q = h)
      BY <2>1, <2>2, <1>parts DEF MarkerHeld
    <2> QED
      BY <2>2, <2>3, <1>2, <1>3
  <1>5. StoredKeepsMarker'
    <2>1. \A h \in Requests : Storing(h)' => Storing(h) /\ Scope(h)' = Scope(h)
      BY <1>1, <1>2 DEF Storing
    <2> QED
      BY <2>1, <1>parts DEF StoredKeepsMarker
  <1>6. LateDuplicateKeptOut'
    <2> SUFFICES ASSUME NEW q \in Requests, pc'[q] \in {"incr", "expire", "cooldown"},
                        Scope(q)' \notin undone', (recent[key[q]])' > 0
                 PROVE  /\ Scope(q)' \in cooldown'
                        /\ q \in (older[Scope(q)])'
                        /\ \A h \in Requests : Storing(h)' => Scope(h)' # Scope(q)'
      BY DEF LateDuplicateKeptOut
    <2>1. Scope(q)' = Scope(q) /\ key'[q] = key[q] /\ recent[key[q]] > 0 /\ Scope(q) \in Scopes
      BY <1>1
    <2>2. pc[q] \in {"incr", "expire", "cooldown"}
      BY <2>1
    <2>3. /\ Scope(q) \in cooldown /\ q \in older[Scope(q)]
          /\ \A h \in Requests : Storing(h) => Scope(h) # Scope(q)
      BY <2>1, <2>2, <1>parts DEF LateDuplicateKeptOut
    <2>4. \A h \in Requests : Storing(h)' => Storing(h) /\ Scope(h)' = Scope(h)
      BY <1>1, <1>2 DEF Storing
    <2> QED
      BY <2>1, <2>3, <2>4, <1>3
  <1>7. StoresNew'
    <2>1. \A q \in Requests : pc'[q] = "store" => pc[q] = "store"
      OBVIOUS
    <2> QED
      BY <2>1, <1>1, <1>parts DEF StoresNew
  <1>8. NoDuplicateReports'
    BY <1>parts DEF NoDuplicateReports
  <1> QED
    BY <1>4, <1>5, <1>6, <1>7, <1>8 DEF MarkerInv

LEMMA BeginMarker ==
    ASSUME MarkerInv, TypeOK', NEW p \in Requests, NEW k \in Keys, Begin(p, k)
    PROVE  MarkerInv'
  <1>parts. /\ TypeOK /\ MarkerHeld /\ StoredKeepsMarker /\ LateDuplicateKeptOut /\ StoresNew
            /\ NoDuplicateReports
    BY DEF MarkerInv
  <1>types. /\ pc \in [Requests -> Steps] /\ key \in [Requests -> Keys \cup {None}]
            /\ older \in [Scopes -> SUBSET Requests] /\ k[1] \in Scopes
    BY <1>parts DEF TypeOK, Keys
  <1>1. /\ pc[p] = "idle" /\ pc'[p] = "lookup" /\ key'[p] = k /\ UNCHANGED <<cooldown, recent, since, undone>>
        /\ \A q \in Requests \ {p} : pc'[q] = pc[q] /\ key'[q] = key[q]
        /\ older' = [older EXCEPT ![k[1]] = IF Guarded(k[1]) THEN @ \cup {p} ELSE @]
    BY <1>types DEF Begin, redis
  <1>2. \A q \in Requests : Holds(q)' => Holds(q) /\ q # p /\ Scope(q)' = Scope(q) /\ Scope(q) \in Scopes
    BY <1>1, <1>parts, Scoped DEF Holds, Scope
  <1>9. \A q \in Requests : Storing(q)' => Storing(q) /\ Scope(q)' = Scope(q)
    BY <1>1, <1>2 DEF Holds, Storing
  <1>3. \A q \in Requests, s \in Scopes : q \in older[s] => q \in older'[s]
    BY <1>1, <1>types
  <1>4. MarkerHeld'
    <2> SUFFICES ASSUME NEW h \in Requests, NEW q \in Requests,
                        Holds(h)', pc'[q] # "idle", Scope(q)' = Scope(h)'
                 PROVE  /\ Scope(h)' \in cooldown'
                        /\ q \in (older[Scope(h)])'
                        /\ Holds(q)' => q = h
      BY DEF MarkerHeld
    <2>1. Holds(h) /\ Scope(h)' = Scope(h) /\ Scope(h) \in Scopes /\ pc[h] # "idle"
      BY <1>2 DEF Holds
    <2>2. CASE q # p
      <3>1. pc[q] # "idle" /\ Scope(q) = Scope(h)
        BY <2>1, <2>2, <1>1 DEF Scope
      <3> QED
        BY <2>1, <3>1, <1>1, <1>2, <1>3, <1>parts DEF MarkerHeld
    <2>3. CASE q = p
      <3>1. Scope(h) = k[1] /\ Guarded(k[1])
        BY <2>1, <2>3, <1>1 DEF Scope, Guarded, Holds
      <3>2. Scope(h) \in cooldown
        BY <2>1, <1>parts DEF MarkerHeld
      <3>3. p \in older'[k[1]]
        BY <3>1, <1>1, <1>types
      <3> QED
        BY <2>1, <2>3, <3>1, <3>2, <3>3, <1>1, <1>2
    <2> QED
      BY <2>2, <2>3
  <1>5. StoredKeepsMarker'
    BY <1>1, <1>9, <1>parts DEF StoredKeepsMarker
  <1>6. LateDuplicateKeptOut'
    <2> SUFFICES ASSUME NEW q \in Requests, pc'[q] \in {"incr", "expire", "cooldown"},
                        Scope(q)' \notin undone', (recent[key[q]])' > 0
                 PROVE  /\ Scope(q)' \in cooldown'
                        /\ q \in (older[Scope(q)])'
                        /\ \A h \in Requests : Storing(h)' => Scope(h)' # Scope(q)'
      BY DEF LateDuplicateKeptOut
    <2>1. q # p /\ pc[q] \in {"incr", "expire", "cooldown"} /\ key'[q] = key[q] /\ Scope(q)' = Scope(q)
      BY <1>1 DEF Scope
    <2>2. Scope(q) \in Scopes
      BY <2>1, <1>parts, Scoped
    <2> QED
      BY <2>1, <2>2, <1>1, <1>9, <1>3, <1>parts DEF LateDuplicateKeptOut
  <1>7. StoresNew'
    <2>1. \A q \in Requests : pc'[q] = "store" => pc[q] = "store" /\ key'[q] = key[q]
      BY <1>1
    <2> QED
      BY <2>1, <1>1, <1>parts DEF StoresNew, Scope
  <1>8. NoDuplicateReports'
    BY <1>1, <1>parts DEF NoDuplicateReports
  <1> QED
    BY <1>4, <1>5, <1>6, <1>7, <1>8 DEF MarkerInv

\* The marker is set: nobody held it, and no report of the scope waits for it.
LEMMA TakeMarker ==
    ASSUME MarkerInv, TypeOK', NEW p \in Requests, TakeCooldown(p), Scope(p) \notin cooldown
    PROVE  MarkerInv'
  <1>parts. /\ TypeOK /\ MarkerHeld /\ StoredKeepsMarker /\ LateDuplicateKeptOut /\ StoresNew
            /\ NoDuplicateReports
    BY DEF MarkerInv
  <1>types. /\ pc \in [Requests -> Steps] /\ older \in [Scopes -> SUBSET Requests]
            /\ recent \in [Keys -> Nat] /\ since \in [Scopes -> Nat]
    BY <1>parts DEF TypeOK
  <1>1. /\ pc[p] = "cooldown" /\ pc' = [pc EXCEPT ![p] = "store"] /\ key' = key
        /\ cooldown' = cooldown \cup {Scope(p)} /\ UNCHANGED <<recent, since, undone>>
        /\ older' = [older EXCEPT ![Scope(p)] =
                        {q \in Requests : pc[q] # "idle" /\ Scope(q) = Scope(p)}]
    BY DEF TakeCooldown, Refused, Goto
  <1>2. Scope(p) \in Scopes /\ key[p] \in Keys
    BY <1>1, <1>parts, Scoped
  <1>3. \A q \in Requests : Scope(q)' = Scope(q)
    BY <1>1 DEF Scope
  <1>4. \A q \in Requests : Holds(q) => Scope(q) # Scope(p)
    <2> SUFFICES ASSUME NEW q \in Requests, Holds(q) PROVE Scope(q) \in cooldown
      OBVIOUS
    <2> QED
      BY <1>parts DEF MarkerHeld, Holds
  <1>5. \A q \in Requests : Holds(q)' <=> Holds(q) \/ q = p
    BY <1>1, <1>types DEF Holds
  <1>11. \A q \in Requests : Storing(q)' <=> Storing(q) \/ q = p
    BY <1>1, <1>types DEF Storing
  <1>6. MarkerHeld'
    <2> SUFFICES ASSUME NEW h \in Requests, NEW q \in Requests,
                        Holds(h)', pc'[q] # "idle", Scope(q)' = Scope(h)'
                 PROVE  /\ Scope(h)' \in cooldown'
                        /\ q \in (older[Scope(h)])'
                        /\ Holds(q)' => q = h
      BY DEF MarkerHeld
    <2>1. Scope(q) = Scope(h) /\ pc[q] # "idle" /\ pc[h] # "idle"
      BY <1>1, <1>3, <1>5, <1>types DEF Holds
    <2>2. CASE h = p
      BY <2>1, <2>2, <1>1, <1>2, <1>3, <1>4, <1>5, <1>types
    <2>3. CASE h # p
      <3>1. Holds(h) /\ Scope(h) # Scope(p)
        BY <2>3, <1>4, <1>5
      <3>2. Scope(h) \in cooldown /\ q \in older[Scope(h)] /\ (Holds(q) => q = h)
        BY <3>1, <2>1, <1>parts DEF MarkerHeld
      <3>3. Scope(h) \in Scopes
        BY <2>1, <1>parts, Scoped
      <3> QED
        BY <2>1, <3>1, <3>2, <3>3, <1>1, <1>3, <1>5, <1>types
    <2> QED
      BY <2>2, <2>3
  <1>7. StoredKeepsMarker'
    <2>1. \A s \in Scopes \ undone : since[s] > 0 => s # Scope(p)
      BY <1>parts DEF StoredKeepsMarker
    <2> QED
      BY <2>1, <1>1, <1>3, <1>11, <1>parts DEF StoredKeepsMarker
  <1>8. LateDuplicateKeptOut'
    <2> SUFFICES ASSUME NEW q \in Requests, pc'[q] \in {"incr", "expire", "cooldown"},
                        Scope(q)' \notin undone', (recent[key[q]])' > 0
                 PROVE  /\ Scope(q)' \in cooldown'
                        /\ q \in (older[Scope(q)])'
                        /\ \A h \in Requests : Storing(h)' => Scope(h)' # Scope(q)'
      BY DEF LateDuplicateKeptOut
    <2>1. q # p /\ pc[q] \in {"incr", "expire", "cooldown"} /\ recent[key[q]] > 0
      BY <1>1, <1>types
    <2>2. /\ Scope(q) \in cooldown /\ q \in older[Scope(q)]
          /\ \A h \in Requests : Storing(h) => Scope(h) # Scope(q)
      BY <2>1, <1>1, <1>3, <1>parts DEF LateDuplicateKeptOut
    <2>3. Scope(q) # Scope(p) /\ Scope(q) \in Scopes
      BY <2>1, <2>2, <1>parts, Scoped
    <2> QED
      BY <2>2, <2>3, <1>1, <1>3, <1>11, <1>types
  <1>9. StoresNew'
    <2>1. Scope(p) \notin undone => ~(recent[key[p]] > 0)
      BY <1>1, <1>parts DEF LateDuplicateKeptOut
    <2>2. recent[key[p]] \in Nat
      BY <1>2, <1>types
    <2> QED
      BY <2>1, <2>2, <1>1, <1>3, <1>types, <1>parts DEF StoresNew
  <1>10. NoDuplicateReports'
    BY <1>1, <1>parts DEF NoDuplicateReports
  <1> QED
    BY <1>6, <1>7, <1>8, <1>9, <1>10 DEF MarkerInv

\* A report is stored by the only request that may store in its scope.
LEMMA StoreMarker ==
    ASSUME MarkerInv, TypeOK', NEW p \in Requests, pc[p] = "store", Committed(p),
           cooldown' = cooldown,
           \A q \in Requests \ {p} : pc'[q] = pc[q] /\ key'[q] = key[q],
           \/ pc'[p] = "idle" /\ undone' = undone /\ \A s \in Scopes : older'[s] = older[s] \ {p}
           \/ pc'[p] = "cache" /\ key'[p] = key[p] /\ older' = older /\ undone' = undone
           \/ pc'[p] = "clear" /\ key'[p] = key[p] /\ older' = older /\ undone' = undone \cup {Scope(p)}
    PROVE  MarkerInv'
  <1>parts. /\ TypeOK /\ MarkerHeld /\ StoredKeepsMarker /\ LateDuplicateKeptOut /\ StoresNew
            /\ NoDuplicateReports
    BY DEF MarkerInv
  <1>types. /\ pc \in [Requests -> Steps] /\ older \in [Scopes -> SUBSET Requests]
            /\ recent \in [Keys -> Nat] /\ since \in [Scopes -> Nat]
    BY <1>parts DEF TypeOK
  <1>1. key[p] \in Keys /\ Scope(p) \in Scopes /\ Scope(p) = key[p][1]
    BY <1>parts, Scoped
  <1>2. /\ recent' = [recent EXCEPT ![key[p]] = recent[key[p]] + 1]
        /\ since' = [since EXCEPT ![Scope(p)] = since[Scope(p)] + 1]
        /\ undone \subseteq undone' /\ undone' \subseteq undone \cup {Scope(p)}
    BY DEF Committed
  <1>3. \A q \in Requests : pc'[q] # "idle" =>
            pc[q] # "idle" /\ key'[q] = key[q] /\ Scope(q)' = Scope(q) /\ Scope(q) \in Scopes
    <2>1. \A q \in Requests : pc'[q] # "idle" => pc[q] # "idle" /\ key'[q] = key[q]
      OBVIOUS
    <2> QED
      BY <2>1, <1>parts, Scoped DEF Scope
  <1>4. /\ \A q \in Requests : Holds(q)' => Holds(q)
        /\ \A q \in Requests \ {p} : Storing(q)' => Storing(q)
        /\ Storing(p)' => Scope(p) \in undone'
    BY DEF Holds, Storing
  <1>5. \A q \in Requests : pc[q] # "idle" /\ Scope(q) = Scope(p) => q \in older[Scope(p)] /\ (Holds(q) => q = p)
    BY <1>parts DEF MarkerHeld, Holds
  <1>6. Scope(p) \in cooldown
    BY <1>parts DEF MarkerHeld, Holds
  <1>7. \A q \in Requests, s \in Scopes : pc'[q] # "idle" /\ q \in older[s] => q \in older'[s]
    BY <1>types
  <1>8. \A q \in Requests : Storing(q)' /\ Scope(q)' = Scope(p) => Scope(p) \in undone'
    <2> SUFFICES ASSUME NEW q \in Requests, Storing(q)', Scope(q)' = Scope(p) PROVE Scope(p) \in undone'
      OBVIOUS
    <2>1. pc'[q] # "idle"
      BY DEF Storing
    <2>2. CASE q # p
      <3>1. Holds(q) /\ Scope(q) = Scope(p) /\ pc[q] # "idle"
        BY <2>1, <2>2, <1>3, <1>4 DEF Storing, Holds
      <3> QED
        BY <3>1, <2>2, <1>5
    <2> QED
      BY <2>2, <1>4
  <1>9. MarkerHeld'
    <2> SUFFICES ASSUME NEW h \in Requests, NEW q \in Requests,
                        Holds(h)', pc'[q] # "idle", Scope(q)' = Scope(h)'
                 PROVE  /\ Scope(h)' \in cooldown'
                        /\ q \in (older[Scope(h)])'
                        /\ Holds(q)' => q = h
      BY DEF MarkerHeld
    <2>1. pc'[h] # "idle" /\ Holds(h)
      BY <1>4 DEF Holds
    <2>2. Scope(q) = Scope(h) /\ pc[q] # "idle" /\ Scope(h)' = Scope(h) /\ Scope(h) \in Scopes
      BY <2>1, <1>3
    <2>3. Scope(h) \in cooldown /\ q \in older[Scope(h)] /\ (Holds(q) => q = h)
      BY <2>1, <2>2, <1>parts DEF MarkerHeld
    <2> QED
      BY <2>2, <2>3, <1>4, <1>7
  <1>10. StoredKeepsMarker'
    <2> SUFFICES ASSUME NEW s \in Scopes \ undone', since'[s] > 0
                 PROVE  /\ since'[s] = 1 /\ s \in cooldown'
                        /\ \A h \in Requests : Storing(h)' => Scope(h)' # s
      BY DEF StoredKeepsMarker
    <2>1. CASE s = Scope(p)
      <3>1. ~(since[s] > 0)
        BY <2>1, <1>2, <1>parts DEF StoredKeepsMarker, Storing
      <3>2. since'[s] = 1
        BY <2>1, <3>1, <1>2, <1>types
      <3> QED
        BY <2>1, <3>2, <1>6, <1>8
    <2>2. CASE s # Scope(p)
      <3>1. since[s] > 0 /\ s \notin undone /\ since'[s] = since[s]
        BY <2>2, <1>2, <1>types
      <3>2. since[s] = 1 /\ s \in cooldown /\ \A h \in Requests : Storing(h) => Scope(h) # s
        BY <3>1, <1>parts DEF StoredKeepsMarker
      <3>3. ASSUME NEW h \in Requests, Storing(h)' PROVE Scope(h)' # s
        <4>1. Scope(h)' = Scope(h)
          BY <3>3, <1>3 DEF Storing
        <4> QED
          BY <4>1, <3>2, <3>3, <2>2, <1>4
      <3> QED
        BY <3>1, <3>2, <3>3
    <2> QED
      BY <2>1, <2>2
  <1>11. LateDuplicateKeptOut'
    <2> SUFFICES ASSUME NEW q \in Requests, pc'[q] \in {"incr", "expire", "cooldown"},
                        Scope(q)' \notin undone', (recent[key[q]])' > 0
                 PROVE  /\ Scope(q)' \in cooldown'
                        /\ q \in (older[Scope(q)])'
                        /\ \A h \in Requests : Storing(h)' => Scope(h)' # Scope(q)'
      BY DEF LateDuplicateKeptOut
    <2>1. /\ q # p /\ pc[q] = pc'[q] /\ key'[q] = key[q] /\ Scope(q)' = Scope(q) /\ Scope(q) \in Scopes
          /\ key[q] \in Keys /\ Scope(q) = key[q][1]
      BY <1>3, <1>parts, Scoped
    <2>2. CASE Scope(q) = Scope(p)
      BY <2>1, <2>2, <1>5, <1>6, <1>7, <1>8
    <2>3. CASE Scope(q) # Scope(p)
      <3>1. key[q] # key[p]
        BY <2>1, <2>3, <1>1
      <3>2. recent[key[q]] > 0 /\ Scope(q) \notin undone
        BY <3>1, <2>1, <1>2, <1>types
      <3>3. /\ Scope(q) \in cooldown /\ q \in older[Scope(q)]
            /\ \A h \in Requests : Storing(h) => Scope(h) # Scope(q)
        BY <3>2, <2>1, <1>parts DEF LateDuplicateKeptOut
      <3>4. ASSUME NEW h \in Requests, Storing(h)' PROVE Scope(h)' # Scope(q)
        <4>1. Scope(h)' = Scope(h)
          BY <3>4, <1>3 DEF Storing
        <4> QED
          BY <4>1, <3>3, <3>4, <2>3, <1>4
      <3> QED
        BY <3>3, <3>4, <2>1, <1>7
    <2> QED
      BY <2>2, <2>3
  <1>12. StoresNew'
    <2> SUFFICES ASSUME NEW q \in Requests, pc'[q] = "store", Scope(q)' \notin undone'
                 PROVE  (recent[key[q]])' = 0
      BY DEF StoresNew
    <2>1. q # p /\ pc[q] = "store" /\ key'[q] = key[q] /\ Scope(q)' = Scope(q)
      BY <1>3
    <2>2. Scope(q) # Scope(p)
      BY <2>1, <1>5 DEF Holds
    <2>3. key[q] \in Keys /\ key[q] # key[p]
      BY <2>1, <2>2, <1>1, <1>parts, Scoped
    <2>4. recent[key[q]] = 0
      BY <2>1, <1>2, <1>parts DEF StoresNew
    <2> QED
      BY <2>1, <2>3, <2>4, <1>2, <1>types
  <1>13. NoDuplicateReports'
    <2>1. Scope(p) \notin undone => recent[key[p]] = 0
      BY <1>parts DEF StoresNew
    <2>2. \A k \in Keys : k[1] \notin undone' =>
              k[1] \notin undone /\ recent'[k] = IF k = key[p] THEN recent[k] + 1 ELSE recent[k]
      BY <1>2, <1>types
    <2> QED
      BY <2>1, <2>2, <1>1, <1>2, <1>parts DEF NoDuplicateReports
  <1> QED
    BY <1>9, <1>10, <1>11, <1>12, <1>13 DEF MarkerInv

\* DEL of the marker: its holder has stored nothing, and no other request
\* holds it or relies on it.
LEMMA ClearMarker ==
    ASSUME MarkerInv, TypeOK', NEW p \in Requests, Clear(p)
    PROVE  MarkerInv'
  <1>parts. /\ TypeOK /\ MarkerHeld /\ StoredKeepsMarker /\ LateDuplicateKeptOut /\ StoresNew
            /\ NoDuplicateReports
    BY DEF MarkerInv
  <1>types. pc \in [Requests -> Steps]
    BY <1>parts DEF TypeOK
  <1>1. /\ pc[p] = "clear" /\ pc' = [pc EXCEPT ![p] = "refund"] /\ cooldown' = cooldown \ {Scope(p)}
        /\ UNCHANGED <<key, older, recent, since, undone>>
    BY DEF Clear, Goto
  <1>2. \A q \in Requests : Scope(q)' = Scope(q)
    BY <1>1 DEF Scope
  <1>3. Holds(p) /\ Storing(p)
    BY <1>1 DEF Holds, Storing
  <1>4. \A q \in Requests : (Holds(q)' => Holds(q) /\ q # p) /\ (Storing(q)' => Storing(q))
    BY <1>1, <1>types DEF Holds, Storing
  <1>5. MarkerHeld'
    <2> SUFFICES ASSUME NEW h \in Requests, NEW q \in Requests,
                        Holds(h)', pc'[q] # "idle", Scope(q)' = Scope(h)'
                 PROVE  /\ Scope(h)' \in cooldown'
                        /\ q \in (older[Scope(h)])'
                        /\ Holds(q)' => q = h
      BY DEF MarkerHeld
    <2>1. Holds(h) /\ h # p /\ pc[q] # "idle" /\ Scope(q) = Scope(h)
      BY <1>1, <1>2, <1>4, <1>types
    <2>2. Scope(h) # Scope(p)
      BY <2>1, <1>1, <1>3, <1>parts DEF MarkerHeld
    <2>3. Scope(h) \in cooldown /\ q \in older[Scope(h)] /\ (Holds(q) => q = h)
      BY <2>1, <1>parts DEF MarkerHeld
    <2> QED
      BY <2>2, <2>3, <1>1, <1>2, <1>4
  <1>6. StoredKeepsMarker'
    <2>1. \A s \in Scopes \ undone : since[s] > 0 => s # Scope(p)
      BY <1>3, <1>parts DEF StoredKeepsMarker
    <2> QED
      BY <2>1, <1>1, <1>2, <1>4, <1>parts DEF StoredKeepsMarker
  <1>7. LateDuplicateKeptOut'
    <2> SUFFICES ASSUME NEW q \in Requests, pc'[q] \in {"incr", "expire", "cooldown"},
                        Scope(q)' \notin undone', (recent[key[q]])' > 0
                 PROVE  /\ Scope(q)' \in cooldown'
                        /\ q \in (older[Scope(q)])'
                        /\ \A h \in Requests : Storing(h)' => Scope(h)' # Scope(q)'
      BY DEF LateDuplicateKeptOut
    <2>1. pc[q] \in {"incr", "expire", "cooldown"}
      BY <1>1, <1>types
    <2>2. /\ Scope(q) \in cooldown /\ q \in older[Scope(q)]
          /\ \A h \in Requests : Storing(h) => Scope(h) # Scope(q)
      BY <2>1, <1>1, <1>2, <1>parts DEF LateDuplicateKeptOut
    <2> QED
      BY <2>2, <1>1, <1>2, <1>3, <1>4
  <1>8. StoresNew'
    <2>1. \A q \in Requests : pc'[q] = "store" => pc[q] = "store"
      BY <1>1, <1>types
    <2> QED
      BY <2>1, <1>1, <1>2, <1>parts DEF StoresNew
  <1>9. NoDuplicateReports'
    BY <1>1, <1>parts DEF NoDuplicateReports
  <1> QED
    BY <1>5, <1>6, <1>7, <1>8, <1>9 DEF MarkerInv

\* The cache throws after the commit: from now on the scope is excepted.
LEMMA UndoMarker ==
    ASSUME MarkerInv, TypeOK', NEW p \in Requests, pc[p] = "cache",
           Goto(p, "clear"), undone' = undone \cup {Scope(p)}, UNCHANGED <<cooldown, recent, since>>
    PROVE  MarkerInv'
  <1>parts. /\ TypeOK /\ MarkerHeld /\ StoredKeepsMarker /\ LateDuplicateKeptOut /\ StoresNew
            /\ NoDuplicateReports
    BY DEF MarkerInv
  <1>types. pc \in [Requests -> Steps]
    BY <1>parts DEF TypeOK
  <1>1. pc' = [pc EXCEPT ![p] = "clear"] /\ UNCHANGED <<key, older>>
    BY DEF Goto
  <1>2. \A q \in Requests : Scope(q)' = Scope(q)
    BY <1>1 DEF Scope
  <1>3. \A q \in Requests : (Holds(q)' <=> Holds(q)) /\ (Storing(q)' => Storing(q) \/ q = p)
    BY <1>1, <1>types DEF Holds, Storing
  <1>4. \A q \in Requests : /\ pc'[q] # "idle" => pc[q] # "idle"
                            /\ q # p => pc'[q] = pc[q]
    BY <1>1, <1>types
  <1>5. MarkerHeld'
    BY <1>1, <1>2, <1>3, <1>4, <1>parts DEF MarkerHeld
  <1>6. StoredKeepsMarker'
    <2> SUFFICES ASSUME NEW s \in Scopes \ undone', since'[s] > 0
                 PROVE  /\ since'[s] = 1 /\ s \in cooldown'
                        /\ \A h \in Requests : Storing(h)' => Scope(h)' # s
      BY DEF StoredKeepsMarker
    <2>1. s \notin undone /\ s # Scope(p)
      OBVIOUS
    <2> QED
      BY <2>1, <1>2, <1>3, <1>parts DEF StoredKeepsMarker
  <1>7. LateDuplicateKeptOut'
    <2> SUFFICES ASSUME NEW q \in Requests, pc'[q] \in {"incr", "expire", "cooldown"},
                        Scope(q)' \notin undone', (recent[key[q]])' > 0
                 PROVE  /\ Scope(q)' \in cooldown'
                        /\ q \in (older[Scope(q)])'
                        /\ \A h \in Requests : Storing(h)' => Scope(h)' # Scope(q)'
      BY DEF LateDuplicateKeptOut
    <2>1. q # p /\ pc[q] \in {"incr", "expire", "cooldown"} /\ recent[key[q]] > 0
      BY <1>1, <1>4, <1>types
    <2>2. Scope(q) \notin undone /\ Scope(q) # Scope(p)
      BY <1>2
    <2>3. /\ Scope(q) \in cooldown /\ q \in older[Scope(q)]
          /\ \A h \in Requests : Storing(h) => Scope(h) # Scope(q)
      BY <2>1, <2>2, <1>parts DEF LateDuplicateKeptOut
    <2> QED
      BY <2>2, <2>3, <1>1, <1>2, <1>3
  <1>8. StoresNew'
    <2>1. \A q \in Requests : pc'[q] = "store" => pc[q] = "store"
      BY <1>1, <1>types
    <2>2. \A q \in Requests : Scope(q)' \notin undone' => Scope(q) \notin undone
      BY <1>2
    <2> QED
      BY <2>1, <2>2, <1>1, <1>parts DEF StoresNew
  <1>9. NoDuplicateReports'
    BY <1>1, <1>parts DEF NoDuplicateReports
  <1> QED
    BY <1>5, <1>6, <1>7, <1>8, <1>9 DEF MarkerInv

\* A marker that outlives the requests it guards ends when nobody needs it.
LEMMA EndMarker ==
    ASSUME MarkerInv, TypeOK', ~SlowRequests, NEW s \in Scopes, CooldownEnds(s)
    PROVE  MarkerInv'
  <1>parts. /\ TypeOK /\ MarkerHeld /\ StoredKeepsMarker /\ LateDuplicateKeptOut /\ StoresNew
            /\ NoDuplicateReports
    BY DEF MarkerInv
  <1>1. /\ older[s] = {} /\ cooldown' = cooldown \ {s} /\ since' = [since EXCEPT ![s] = 0]
        /\ UNCHANGED <<pc, key, older, recent, undone>>
    BY DEF CooldownEnds, requests
  <1>2. \A q \in Requests : /\ Scope(q)' = Scope(q)
                            /\ Holds(q)' <=> Holds(q)
                            /\ Storing(q)' <=> Storing(q)
    BY <1>1 DEF Scope, Holds, Storing
  <1>3. MarkerHeld'
    <2> SUFFICES ASSUME NEW h \in Requests, NEW q \in Requests,
                        Holds(h)', pc'[q] # "idle", Scope(q)' = Scope(h)'
                 PROVE  /\ Scope(h)' \in cooldown'
                        /\ q \in (older[Scope(h)])'
                        /\ Holds(q)' => q = h
      BY DEF MarkerHeld
    <2>1. Scope(h) \in cooldown /\ q \in older[Scope(h)] /\ (Holds(q) => q = h)
      BY <1>1, <1>2, <1>parts DEF MarkerHeld
    <2> QED
      BY <2>1, <1>1, <1>2
  <1>4. StoredKeepsMarker'
    <2> SUFFICES ASSUME NEW t \in Scopes \ undone', since'[t] > 0
                 PROVE  /\ since'[t] = 1 /\ t \in cooldown'
                        /\ \A h \in Requests : Storing(h)' => Scope(h)' # t
      BY DEF StoredKeepsMarker
    <2>1. since \in [Scopes -> Nat]
      BY <1>parts DEF TypeOK
    <2>2. t # s /\ since'[t] = since[t]
      BY <2>1, <1>1
    <2> QED
      BY <2>2, <1>1, <1>2, <1>parts DEF StoredKeepsMarker
  <1>5. LateDuplicateKeptOut'
    <2> SUFFICES ASSUME NEW q \in Requests, pc'[q] \in {"incr", "expire", "cooldown"},
                        Scope(q)' \notin undone', (recent[key[q]])' > 0
                 PROVE  /\ Scope(q)' \in cooldown'
                        /\ q \in (older[Scope(q)])'
                        /\ \A h \in Requests : Storing(h)' => Scope(h)' # Scope(q)'
      BY DEF LateDuplicateKeptOut
    <2>1. /\ Scope(q) \in cooldown /\ q \in older[Scope(q)]
          /\ \A h \in Requests : Storing(h) => Scope(h) # Scope(q)
      BY <1>1, <1>2, <1>parts DEF LateDuplicateKeptOut
    <2> QED
      BY <2>1, <1>1, <1>2
  <1>6. StoresNew'
    BY <1>1, <1>2, <1>parts DEF StoresNew
  <1>7. NoDuplicateReports'
    BY <1>1, <1>parts DEF NoDuplicateReports
  <1> QED
    BY <1>3, <1>4, <1>5, <1>6, <1>7 DEF MarkerInv

LEMMA AgeMarker ==
    ASSUME MarkerInv, TypeOK', NEW k \in Keys, Age(k)
    PROVE  MarkerInv'
  <1>parts. /\ TypeOK /\ MarkerHeld /\ StoredKeepsMarker /\ LateDuplicateKeptOut /\ StoresNew
            /\ NoDuplicateReports
    BY DEF MarkerInv
  <1>1. /\ recent[k] > 0 /\ recent' = [recent EXCEPT ![k] = recent[k] - 1]
        /\ UNCHANGED <<cooldown, pc, key, since, undone, older>>
    BY DEF Age, redis, requests, ghosts
  <1>2. \A j \in Keys : /\ recent[j] \in Nat /\ recent'[j] <= recent[j]
                        /\ recent[j] = 0 => recent'[j] = 0
    BY <1>1, <1>parts DEF TypeOK
  <1>3. \A j \in Keys : recent'[j] \in Nat
    BY DEF TypeOK
  <1>4. \A q \in Requests : pc[q] # "idle" => key[q] \in Keys
    BY <1>parts, Scoped
  <1>5. MarkerHeld' /\ StoredKeepsMarker'
    BY <1>1, <1>parts DEF MarkerHeld, StoredKeepsMarker, Holds, Storing, Scope
  <1>6. LateDuplicateKeptOut'
    <2> SUFFICES ASSUME NEW q \in Requests, pc'[q] \in {"incr", "expire", "cooldown"},
                        Scope(q)' \notin undone', (recent[key[q]])' > 0
                 PROVE  /\ Scope(q)' \in cooldown'
                        /\ q \in (older[Scope(q)])'
                        /\ \A h \in Requests : Storing(h)' => Scope(h)' # Scope(q)'
      BY DEF LateDuplicateKeptOut
    <2>1. recent[key[q]] > 0 /\ Scope(q) \notin undone /\ pc[q] \in {"incr", "expire", "cooldown"}
      BY <1>1, <1>2, <1>3, <1>4 DEF Scope
    <2> QED
      BY <2>1, <1>1, <1>parts DEF LateDuplicateKeptOut, Scope, Storing
  <1>7. StoresNew'
    BY <1>1, <1>2, <1>4, <1>parts DEF StoresNew, Scope
  <1>8. NoDuplicateReports'
    BY <1>1, <1>2, <1>3, <1>parts DEF NoDuplicateReports
  <1> QED
    BY <1>5, <1>6, <1>7, <1>8 DEF MarkerInv

LEMMA IdleMarker ==
    ASSUME MarkerInv, TypeOK', UNCHANGED <<cooldown, recent, pc, key, since, undone, older>>
    PROVE  MarkerInv'
  BY DEF MarkerInv, MarkerHeld, StoredKeepsMarker, LateDuplicateKeptOut, StoresNew,
         NoDuplicateReports, Holds, Storing, Scope

LEMMA NextMarker == ~SlowRequests /\ MarkerInv /\ [Next]_vars => MarkerInv'
  <1> SUFFICES ASSUME ~SlowRequests, MarkerInv, [Next]_vars PROVE MarkerInv'
    OBVIOUS
  <1>types. /\ TypeOK /\ pc \in [Requests -> Steps] /\ key \in [Requests -> Keys \cup {None}]
            /\ older \in [Scopes -> SUBSET Requests] /\ recent \in [Keys -> Nat]
    BY DEF MarkerInv, TypeOK
  <1>t. TypeOK'
    BY <1>types, NextTyped
  <1>1. ASSUME NEW p \in Requests, NEW k \in Keys, Begin(p, k) PROVE MarkerInv'
    BY <1>1, <1>t, BeginMarker
  <1>2. ASSUME NEW p \in Requests, Lookup(p) PROVE MarkerInv'
    <2>1. /\ UNCHANGED <<cooldown, recent, since, undone>> /\ pc[p] # "idle"
          /\ \A q \in Requests \ {p} : pc'[q] = pc[q] /\ key'[q] = key[q]
          /\ \/ pc'[p] = "idle" /\ \A s \in Scopes : older'[s] = older[s] \ {p}
             \/ ~(recent[key[p]] > 0) /\ pc'[p] = "incr" /\ key'[p] = key[p] /\ older' = older
      BY <1>2, <1>types DEF Lookup, Leave, Goto, Known, redis
    <2>2. recent[key[p]] \in Nat
      BY <2>1, <1>types, Scoped
    <2> QED
      BY <2>1, <2>2, <1>t, PlainStep
  <1>3. ASSUME NEW p \in Requests, Incr(p) \/ Expire(p) \/ (TakeCooldown(p) /\ Scope(p) \in cooldown)
        PROVE  MarkerInv'
    <2>1. /\ UNCHANGED <<cooldown, recent, since, undone, key, older>> /\ pc[p] # "idle"
          /\ \A q \in Requests \ {p} : pc'[q] = pc[q]
          /\ \/ pc'[p] = "refund"
             \/ pc'[p] \in {"expire", "cooldown"} /\ pc[p] \in {"incr", "expire"}
      BY <1>3, <1>types DEF Incr, Expire, TakeCooldown, Refused, Goto
    <2> QED
      BY <2>1, <1>t, PlainStep
  <1>4. ASSUME NEW p \in Requests, TakeCooldown(p), Scope(p) \notin cooldown PROVE MarkerInv'
    BY <1>4, <1>t, TakeMarker
  <1>5. ASSUME NEW p \in Requests, Refund(p) \/ Die(p) \/ (WriteCache(p) /\ Leave(p) /\ undone' = undone)
        PROVE  MarkerInv'
    <2>1. /\ UNCHANGED <<cooldown, recent, since, undone>>
          /\ \A q \in Requests \ {p} : pc'[q] = pc[q] /\ key'[q] = key[q]
          /\ pc'[p] = "idle" /\ \A s \in Scopes : older'[s] = older[s] \ {p}
      BY <1>5, <1>types DEF Refund, Decrement, Die, WriteCache, Leave, redis
    <2> QED
      BY <2>1, <1>t, PlainStep
  <1>6. ASSUME NEW p \in Requests, Store(p) PROVE MarkerInv'
    <2>1. /\ pc[p] = "store" /\ Committed(p) /\ cooldown' = cooldown /\ undone' = undone
          /\ \A q \in Requests \ {p} : pc'[q] = pc[q] /\ key'[q] = key[q]
          /\ \/ pc'[p] = "idle" /\ \A s \in Scopes : older'[s] = older[s] \ {p}
             \/ pc'[p] = "cache" /\ key'[p] = key[p] /\ older' = older
      BY <1>6, <1>types DEF Store, Leave, Goto, redis
    <2> QED
      BY <2>1, <1>t, StoreMarker
  <1>7. ASSUME NEW p \in Requests, StoreFails(p) PROVE MarkerInv'
    <2>1. /\ pc[p] = "store" /\ cooldown' = cooldown /\ pc'[p] = "clear" /\ UNCHANGED <<key, older>>
          /\ \A q \in Requests \ {p} : pc'[q] = pc[q]
      BY <1>7, <1>types DEF StoreFails, Goto, redis
    <2>2. CASE UNCHANGED <<recent, since, undone>>
      BY <2>1, <2>2, <1>t, PlainStep DEF Storing
    <2>3. CASE Committed(p) /\ undone' = undone \cup {Scope(p)}
      BY <2>1, <2>3, <1>t, StoreMarker
    <2> QED
      BY <1>7, <2>2, <2>3 DEF StoreFails
  <1>8. ASSUME NEW p \in Requests, WriteCache(p) PROVE MarkerInv'
    <2>1. CASE Leave(p) /\ undone' = undone
      BY <1>8, <2>1, <1>5
    <2>2. CASE Goto(p, "clear") /\ undone' = undone \cup {Scope(p)}
      BY <1>8, <2>2, <1>t, UndoMarker DEF WriteCache, redis
    <2> QED
      BY <1>8, <2>1, <2>2 DEF WriteCache
  <1>9. ASSUME NEW p \in Requests, Clear(p) PROVE MarkerInv'
    BY <1>9, <1>t, ClearMarker
  <1>10. CASE DayEnds
    BY <1>10, <1>t, IdleMarker DEF DayEnds, requests
  <1>11. ASSUME NEW s \in Scopes, CooldownEnds(s) PROVE MarkerInv'
    BY <1>11, <1>t, EndMarker
  <1>12. ASSUME NEW k \in Keys, Age(k) PROVE MarkerInv'
    BY <1>12, <1>t, AgeMarker
  <1>13. CASE UNCHANGED vars
    BY <1>13, <1>t, IdleMarker DEF vars, redis, requests, ghosts
  <1> QED
    BY <1>1, <1>2, <1>3, <1>4, <1>5, <1>6, <1>7, <1>8, <1>9, <1>10, <1>11, <1>12, <1>13, StepCases

\* When two requests fit into one cooldown, at most one report per scope is
\* stored until the cooldown has run out, save where slots were given back.
THEOREM SpacedSafe ==
    ASSUME ~SlowRequests
    PROVE  Spec => []ReportsAreSpaced
  <1>1. MarkerInv => ReportsAreSpaced
    <2> SUFFICES ASSUME MarkerInv, NEW s \in Scopes \ undone PROVE since[s] <= 1
      BY DEF ReportsAreSpaced
    <2>1. since[s] \in Nat /\ (since[s] > 0 => since[s] = 1)
      BY DEF MarkerInv, TypeOK, StoredKeepsMarker
    <2> QED
      BY <2>1
  <1>2. MarkerInv /\ [Next]_vars => MarkerInv'
    BY NextMarker
  <1> QED
    BY <1>1, <1>2, InitMarker, PTL DEF Spec

\* Under the same assumption a reporter never has two reports with one dedupe
\* key inside the window.
THEOREM NoDuplicateSafe ==
    ASSUME ~SlowRequests
    PROVE  Spec => []NoDuplicateReports
  <1>1. MarkerInv => NoDuplicateReports
    BY DEF MarkerInv
  <1>2. MarkerInv /\ [Next]_vars => MarkerInv'
    BY NextMarker
  <1> QED
    BY <1>1, <1>2, InitMarker, PTL DEF Spec
=============================================================================
