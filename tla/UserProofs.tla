----------------------------- MODULE UserProofs -----------------------------
(***************************************************************************)
(* Proofs about UserFlags, for every set of flags and processes, all       *)
(* weights and thresholds, and any number of failures, up to its           *)
(* refinement of Reputation; and, in the second part, about UserCache, for *)
(* every set of requests.  The two are of one subject, a user's row, and   *)
(* share nothing but it: UserCache is reached through the instance Cache.  *)
(***************************************************************************)
EXTENDS UserFlags, CacheView, TLAPS

\* With(w, f, n) adds or replaces one weight.
LEMMA WithWeighs ==
    ASSUME NEW w \in Weighings, NEW f \in Flags, NEW n \in 0 .. MaxWeight
    PROVE  /\ With(w, f, n) \in Weighings
           /\ DOMAIN With(w, f, n) = DOMAIN w \cup {f}
  <1>1. PICK S \in SUBSET Flags : w \in [S -> 0 .. MaxWeight]
    BY DEF Weighings
  <1>2. With(w, f, n) \in [S \cup {f} -> 0 .. MaxWeight]
    BY <1>1 DEF With
  <1> QED
    BY <1>1, <1>2 DEF Weighings, With

\* Without(w, f) forgets one.
LEMMA WithoutWeighs ==
    ASSUME NEW w \in Weighings, NEW f
    PROVE  /\ Without(w, f) \in Weighings
           /\ DOMAIN Without(w, f) = DOMAIN w \ {f}
  <1>1. PICK S \in SUBSET Flags : w \in [S -> 0 .. MaxWeight]
    BY DEF Weighings
  <1>2. Without(w, f) \in [S \ {f} -> 0 .. MaxWeight]
    BY <1>1 DEF Without
  <1> QED
    BY <1>1, <1>2 DEF Weighings, Without

LEMMA NoFlagsWeighs == NoFlags \in Weighings /\ DOMAIN NoFlags = {}
  <1>1. NoFlags \in [{} -> 0 .. MaxWeight]
    BY DEF NoFlags
  <1> QED
    BY <1>1 DEF Weighings, NoFlags

LEMMA LevelIsLevel == ASSUME NEW s PROVE LevelFromScore(s) \in Levels
  BY DEF LevelFromScore, Levels


RowsOK ==
    /\ weight \in Weighings
    /\ eff \in Weighings
    /\ DOMAIN eff = DOMAIN weight
    /\ score \in Nat
    /\ level \in Levels
    /\ DOMAIN weight \subseteq born
    /\ born \subseteq Flags
    /\ patched \subseteq born
    /\ drift \in BOOLEAN

LocalOK ==
    /\ userLock \in Procs \cup {None}
    /\ flagLock \in [Flags -> Procs \cup {None}]
    /\ pc \in [Procs -> Steps]
    /\ job \in [Procs -> Jobs]
    /\ tgt \in [Procs -> Flags \cup {None}]
    /\ amt \in [Procs -> 0 .. MaxWeight]
    /\ seen \in [Procs -> Weighings]

\* What a process at a given step is doing.
JobInHand ==
    \A p \in Procs :
        /\ pc[p] \in {"user", "write"} => job[p] \in {"add", "decay"}
        /\ pc[p] \in {"flag", "sum", "store"} =>
              p \in Admins /\ job[p] \in {"delete", "patch", "reason"}
        /\ job[p] \in {"add", "delete", "patch", "reason"} => tgt[p] \in Flags
        /\ job[p] \in {"add", "patch"} => amt[p] \in Weights

\* An edit that has locked its flag still has it.
FlagInHand ==
    \A p \in Procs : pc[p] \in {"sum", "store"} =>
        flagLock[tgt[p]] = p /\ tgt[p] \in DOMAIN weight

Typed == RowsOK /\ LocalOK /\ JobInHand /\ FlagInHand /\ faults \in Nat

LEMMA InitTyped == Init => Typed
  <1> SUFFICES ASSUME Init PROVE Typed
    OBVIOUS
  <1>1. drift \in BOOLEAN
    BY Zenon DEF Init
  <1>2. RowsOK
    BY <1>1, NoFlagsWeighs DEF Init, RowsOK, Levels
  <1>3. LocalOK /\ JobInHand /\ FlagInHand /\ faults \in Nat
    BY UserFlagsAssumption, NoFlagsWeighs
       DEF Init, LocalOK, JobInHand, FlagInHand, Steps, Jobs
  <1> QED
    BY <1>2, <1>3 DEF Typed

\* Ending a transaction keeps the others' locks and values.
LEMMA FinishTyped ==
    ASSUME LocalOK, JobInHand, FlagInHand, NEW p \in Procs, Finish(p)
    PROVE  /\ LocalOK' /\ JobInHand'
           /\ \A q \in Procs : pc'[q] \in {"sum", "store"} =>
                /\ q # p /\ pc[q] \in {"sum", "store"}
                /\ tgt'[q] = tgt[q] /\ flagLock'[tgt'[q]] = q
  <1>1. LocalOK'
    <2>1. userLock' \in Procs \cup {None} /\ flagLock' \in [Flags -> Procs \cup {None}]
      BY DEF Finish, Unlocked, LocalOK
    <2>2. pc' \in [Procs -> Steps] /\ job' \in [Procs -> Jobs]
      BY DEF Finish, Goto, LocalOK, Steps, Jobs
    <2>3. tgt' \in [Procs -> Flags \cup {None}] /\ seen' \in [Procs -> Weighings]
      BY NoFlagsWeighs DEF Finish, LocalOK
    <2>4. amt' \in [Procs -> 0 .. MaxWeight]
      BY UserFlagsAssumption DEF Finish, LocalOK
    <2> QED
      BY <2>1, <2>2, <2>3, <2>4 DEF LocalOK
  <1>2. JobInHand'
    BY DEF Finish, Goto, LocalOK, JobInHand
  <1>3. ASSUME NEW q \in Procs, pc'[q] \in {"sum", "store"}
        PROVE  /\ q # p /\ pc[q] \in {"sum", "store"}
               /\ tgt'[q] = tgt[q] /\ flagLock'[tgt'[q]] = q
    <2>1. q # p /\ pc[q] \in {"sum", "store"} /\ tgt'[q] = tgt[q]
      BY <1>3 DEF Finish, Goto, LocalOK
    <2>2. tgt[q] \in Flags /\ flagLock[tgt[q]] = q
      BY <2>1 DEF JobInHand, FlagInHand
    <2> QED
      BY <2>1, <2>2 DEF Finish, LocalOK
  <1> QED
    BY <1>1, <1>2, <1>3

\* Ending a transaction that wrote nothing.
LEMMA FinishUnchangedTyped ==
    ASSUME Typed, NEW p \in Procs, Finish(p), UNCHANGED rows, faults' \in Nat
    PROVE  Typed'
  <1>1. LocalOK' /\ JobInHand'
    BY FinishTyped DEF Typed
  <1>2. FlagInHand'
    BY FinishTyped DEF Typed, FlagInHand, rows
  <1>3. RowsOK'
    BY DEF Typed, RowsOK, rows
  <1> QED
    BY <1>1, <1>2, <1>3 DEF Typed

\* Each of the Begin actions.
LEMMA StartTyped ==
    ASSUME Typed, NEW p \in Procs, NEW kind \in Jobs, NEW step \in {"user", "flag"},
           NEW f \in Flags \cup {None}, NEW n \in 0 .. MaxWeight, Start(p, kind, step, f, n),
           step = "user" => kind \in {"add", "decay"},
           step = "flag" => p \in Admins /\ kind \in {"delete", "patch", "reason"},
           kind \in {"add", "delete", "patch", "reason"} => f \in Flags,
           kind \in {"add", "patch"} => n \in Weights
    PROVE  Typed'
  <1>1. RowsOK' /\ faults' \in Nat
    BY DEF Typed, Start, RowsOK, rows
  <1>2. LocalOK'
    BY DEF Typed, Start, Goto, LocalOK, locks, Steps
  <1>3. JobInHand'
    BY DEF Typed, Start, Goto, LocalOK, JobInHand
  <1>4. FlagInHand'
    BY DEF Typed, Start, Goto, LocalOK, FlagInHand, locks, rows
  <1> QED
    BY <1>1, <1>2, <1>3, <1>4 DEF Typed

\* A flag's columns after an edit.
LEMMA EditedWeighs ==
    ASSUME Typed, NEW p \in Procs, pc[p] \in {"sum", "store"}, NEW w \in Weighings,
           DOMAIN w = DOMAIN weight
    PROVE  /\ Edited(p, w) \in Weighings
           /\ DOMAIN Edited(p, w) =
                IF job[p] = "delete" THEN DOMAIN weight \ {tgt[p]} ELSE DOMAIN weight
  <1>1. tgt[p] \in Flags /\ job[p] \in {"delete", "patch", "reason"} /\ tgt[p] \in DOMAIN weight
    BY DEF Typed, JobInHand, FlagInHand
  <1>2. amt[p] \in 0 .. MaxWeight
    BY DEF Typed, LocalOK
  <1>3. CASE job[p] = "delete"
    BY <1>3, WithoutWeighs DEF Edited
  <1>4. CASE job[p] = "patch"
    <2>1. Edited(p, w) = With(w, tgt[p], amt[p])
      BY <1>4 DEF Edited
    <2>2. With(w, tgt[p], amt[p]) \in Weighings
      BY <1>1, <1>2, WithWeighs
    <2>3. DOMAIN With(w, tgt[p], amt[p]) = DOMAIN weight
      <3>1. DOMAIN With(w, tgt[p], amt[p]) = DOMAIN w \cup {tgt[p]}
        BY <1>1, <1>2, WithWeighs
      <3> QED
        BY <1>1, <3>1
    <2> QED
      BY <1>4, <2>1, <2>2, <2>3
  <1>5. CASE job[p] = "reason"
    BY <1>5 DEF Edited
  <1> QED
    BY <1>1, <1>3, <1>4, <1>5

\* Every step of Next is one of these.
LEMMA StepCases ==
    ASSUME [Next]_vars
    PROVE  \/ \E p \in Posters, f \in Flags, n \in Weights : BeginAdd(p, f, n)
           \/ \E p \in Admins, f \in Flags :
                \/ BeginDelete(p, f) \/ BeginReason(p, f)
                \/ \E n \in Weights : BeginPatch(p, f, n)
           \/ \E p \in Decayers : BeginDecay(p)
           \/ \E p \in Procs :
                \/ LockUser(p) \/ CommitAdd(p)
                \/ LockFlag(p) \/ FlagGone(p) \/ SumFlags(p) \/ CommitEdit(p) \/ KeyTaken(p)
                \/ ReadFlags(p) \/ SkipDecay(p) \/ CommitDecay(p)
                \/ BreakDeadlock(p) \/ Abort(p)
           \/ UNCHANGED vars
  BY DEF Next, Add, Edit, Decay

\* Writing every row that was read leaves what was written.
LEMMA OverwriteAll ==
    ASSUME NEW w \in Weighings, NEW v \in Weighings, DOMAIN v = DOMAIN w
    PROVE  Overwrite(w, v) = v
  <1>1. v = [g \in DOMAIN v |-> v[g]]
    BY DEF Weighings
  <1> QED
    BY <1>1 DEF Overwrite

LEMMA NextTyped == Typed /\ DecayReadsAreCurrent /\ [Next]_vars => Typed'
  <1> SUFFICES ASSUME Typed, DecayReadsAreCurrent, [Next]_vars PROVE Typed'
    OBVIOUS
  <1>parts. RowsOK /\ LocalOK /\ JobInHand /\ FlagInHand /\ faults \in Nat
    BY DEF Typed
  <1>weights. Weights \subseteq 0 .. MaxWeight /\ 0 \in 0 .. MaxWeight
    BY UserFlagsAssumption DEF Weights
  <1>procs. Posters \subseteq Procs /\ Admins \subseteq Procs /\ Decayers \subseteq Procs
    BY DEF Procs
  <1>1. ASSUME NEW p \in Posters, NEW f \in Flags, NEW n \in Weights, BeginAdd(p, f, n)
        PROVE  Typed'
    BY <1>1, <1>weights, <1>procs, StartTyped DEF BeginAdd, Jobs
  <1>2. ASSUME NEW p \in Admins, NEW f \in Flags, BeginDelete(p, f)
        PROVE  Typed'
    BY <1>2, <1>weights, <1>procs, StartTyped DEF BeginDelete, Jobs
  <1>3. ASSUME NEW p \in Admins, NEW f \in Flags, BeginReason(p, f)
        PROVE  Typed'
    BY <1>3, <1>weights, <1>procs, StartTyped DEF BeginReason, Jobs
  <1>4. ASSUME NEW p \in Admins, NEW f \in Flags, NEW n \in Weights, BeginPatch(p, f, n)
        PROVE  Typed'
    BY <1>4, <1>weights, <1>procs, StartTyped DEF BeginPatch, Jobs
  <1>5. ASSUME NEW p \in Decayers, BeginDecay(p)
        PROVE  Typed'
    BY <1>5, <1>weights, <1>procs, StartTyped DEF BeginDecay, Jobs
  <1>6. ASSUME NEW p \in Procs, LockUser(p)
        PROVE  Typed'
    <2>1. RowsOK' /\ faults' \in Nat
      BY <1>6, <1>parts DEF LockUser, RowsOK, rows
    <2>2. LocalOK' /\ JobInHand' /\ FlagInHand'
      BY <1>6, <1>parts DEF LockUser, Goto, LocalOK, JobInHand, FlagInHand, Steps, rows
    <2> QED
      BY <2>1, <2>2 DEF Typed
  <1>7. ASSUME NEW p \in Procs, CommitAdd(p)
        PROVE  Typed'
    <2>1. tgt[p] \in Flags /\ amt[p] \in 0 .. MaxWeight /\ tgt[p] \notin DOMAIN weight
      BY <1>7, <1>parts DEF CommitAdd, JobInHand, LocalOK, RowsOK
    <2>2. /\ weight' \in Weighings /\ DOMAIN weight' = DOMAIN weight \cup {tgt[p]}
          /\ eff' \in Weighings /\ DOMAIN eff' = DOMAIN eff \cup {tgt[p]}
      BY <1>7, <1>parts, <2>1, WithWeighs DEF CommitAdd, RowsOK
    <2>3. score' \in Nat /\ level' \in Levels
      BY <1>7, <1>parts, <2>1, LevelIsLevel, UserFlagsAssumption DEF CommitAdd, SaveUser, RowsOK
    <2>4. RowsOK'
      BY <1>7, <1>parts, <2>1, <2>2, <2>3 DEF CommitAdd, RowsOK
    <2>5. LocalOK' /\ JobInHand'
      BY <1>7, <1>parts, FinishTyped DEF CommitAdd
    <2>6. FlagInHand'
      BY <1>7, <1>parts, <2>2, FinishTyped DEF CommitAdd, FlagInHand
    <2> QED
      BY <1>7, <1>parts, <2>4, <2>5, <2>6 DEF Typed, CommitAdd
  <1>8. ASSUME NEW p \in Procs, LockFlag(p)
        PROVE  Typed'
    <2>1. RowsOK' /\ faults' \in Nat
      BY <1>8, <1>parts DEF LockFlag, RowsOK, rows
    <2>2. tgt[p] \in Flags /\ tgt[p] \in DOMAIN weight
      BY <1>8, <1>parts DEF LockFlag, JobInHand
    <2>3. LocalOK' /\ JobInHand'
      BY <1>8, <1>parts, <2>2 DEF LockFlag, Goto, LocalOK, JobInHand, Steps
    <2>4. FlagInHand'
      <3> SUFFICES ASSUME NEW q \in Procs, pc'[q] \in {"sum", "store"}
                   PROVE  flagLock'[tgt'[q]] = q /\ tgt'[q] \in DOMAIN weight'
        BY DEF FlagInHand
      <3>1. UNCHANGED <<tgt, weight>>
        BY <1>8 DEF LockFlag, rows
      <3>2. CASE q = p
        BY <1>8, <1>parts, <2>2, <3>1, <3>2 DEF LockFlag, LocalOK
      <3>3. CASE q # p
        <4>1. pc[q] \in {"sum", "store"}
          BY <1>8, <1>parts, <3>3 DEF LockFlag, Goto, LocalOK
        <4>2. flagLock[tgt[q]] = q /\ tgt[q] \in DOMAIN weight /\ tgt[q] \in Flags
          BY <1>parts, <4>1 DEF FlagInHand, JobInHand
        <4>3. q # None /\ flagLock[tgt[p]] = None
          BY <1>8, UserFlagsAssumption DEF LockFlag
        <4> QED
          BY <1>8, <1>parts, <2>2, <3>1, <4>2, <4>3 DEF LockFlag, LocalOK
      <3> QED
        BY <3>2, <3>3
    <2> QED
      BY <2>1, <2>3, <2>4 DEF Typed
  <1>9. ASSUME NEW p \in Procs, FlagGone(p) \/ KeyTaken(p) \/ SkipDecay(p) \/ BreakDeadlock(p)
        PROVE  Typed'
    BY <1>9, <1>parts, FinishUnchangedTyped DEF FlagGone, KeyTaken, SkipDecay, BreakDeadlock
  <1>10. ASSUME NEW p \in Procs, SumFlags(p)
         PROVE  Typed'
    <2>1. Edited(p, eff) \in Weighings
      BY <1>10, <1>parts, EditedWeighs DEF SumFlags, RowsOK
    <2>2. RowsOK' /\ faults' \in Nat
      BY <1>10, <1>parts DEF SumFlags, RowsOK, rows
    <2>3. LocalOK'
      BY <1>10, <1>parts, <2>1 DEF SumFlags, EffectiveWeights, Goto, LocalOK, Steps, locks
    <2>4. JobInHand' /\ FlagInHand'
      BY <1>10, <1>parts DEF SumFlags, Goto, LocalOK, JobInHand, FlagInHand, locks, rows
    <2> QED
      BY <2>2, <2>3, <2>4 DEF Typed
  <1>11. ASSUME NEW p \in Procs, CommitEdit(p)
         PROVE  Typed'
    <2>1. tgt[p] \in Flags /\ tgt[p] \in DOMAIN weight /\ seen[p] \in Weighings
      BY <1>11, <1>parts DEF CommitEdit, JobInHand, FlagInHand, LocalOK
    <2>2. /\ weight' \in Weighings /\ eff' \in Weighings /\ DOMAIN eff' = DOMAIN weight'
          /\ DOMAIN weight' \subseteq DOMAIN weight
          /\ \A f \in DOMAIN weight : f # tgt[p] => f \in DOMAIN weight'
      BY <1>11, <1>parts, EditedWeighs DEF CommitEdit, RowsOK
    <2>3. score' \in Nat /\ level' \in Levels
      BY <1>11, <2>1, LevelIsLevel, TotalAssumption DEF CommitEdit, SaveUser
    <2>4. patched' \subseteq born
      BY <1>11, <1>parts, <2>1 DEF CommitEdit, RowsOK
    <2>5. RowsOK'
      BY <1>11, <1>parts, <2>2, <2>3, <2>4 DEF CommitEdit, RowsOK
    <2>6. LocalOK' /\ JobInHand'
      BY <1>11, <1>parts, FinishTyped DEF CommitEdit
    <2>7. FlagInHand'
      <3> SUFFICES ASSUME NEW q \in Procs, pc'[q] \in {"sum", "store"}
                   PROVE  flagLock'[tgt'[q]] = q /\ tgt'[q] \in DOMAIN weight'
        BY DEF FlagInHand
      <3>1. q # p /\ pc[q] \in {"sum", "store"} /\ tgt'[q] = tgt[q] /\ flagLock'[tgt'[q]] = q
        BY <1>11, <1>parts, FinishTyped DEF CommitEdit
      <3>2. flagLock[tgt[q]] = q /\ flagLock[tgt[p]] = p /\ tgt[q] \in DOMAIN weight
        BY <1>11, <1>parts, <3>1 DEF FlagInHand, CommitEdit
      <3> QED
        BY <2>2, <3>1, <3>2
    <2> QED
      BY <1>11, <1>parts, <2>5, <2>6, <2>7 DEF Typed, CommitEdit
  <1>12. ASSUME NEW p \in Procs, ReadFlags(p)
         PROVE  Typed'
    <2>1. PICK w \in [DOMAIN eff -> 0 .. MaxWeight] : seen' = [seen EXCEPT ![p] = w]
      BY <1>12 DEF ReadFlags
    <2>2. w \in Weighings
      BY <1>parts DEF RowsOK, Weighings
    <2>3. RowsOK' /\ faults' \in Nat
      BY <1>12, <1>parts DEF ReadFlags, RowsOK, rows
    <2>4. LocalOK'
      BY <1>12, <1>parts, <2>1, <2>2 DEF ReadFlags, Goto, LocalOK, Steps, locks
    <2>5. JobInHand' /\ FlagInHand'
      BY <1>12, <1>parts DEF ReadFlags, Goto, LocalOK, JobInHand, FlagInHand, locks, rows
    <2> QED
      BY <2>3, <2>4, <2>5 DEF Typed
  <1>13. ASSUME NEW p \in Procs, CommitDecay(p)
         PROVE  Typed'
    <2>1. seen[p] \in Weighings /\ DOMAIN seen[p] = DOMAIN eff
      BY <1>13, <1>parts DEF LocalOK, CommitDecay, DecayReadsAreCurrent
    <2>2. score' \in Nat /\ level' \in Levels
      BY <1>13, <2>1, LevelIsLevel, TotalAssumption DEF CommitDecay, SaveUser
    <2>6. eff' = seen[p]
      BY <1>13, <1>parts, <2>1, OverwriteAll DEF CommitDecay, RowsOK
    <2>3. RowsOK'
      BY <1>13, <1>parts, <2>1, <2>2, <2>6 DEF CommitDecay, RowsOK
    <2>4. LocalOK' /\ JobInHand'
      BY <1>13, <1>parts, FinishTyped DEF CommitDecay
    <2>5. FlagInHand'
      BY <1>13, <1>parts, FinishTyped DEF CommitDecay, FlagInHand
    <2> QED
      BY <1>13, <1>parts, <2>3, <2>4, <2>5 DEF Typed, CommitDecay
  <1>14. ASSUME NEW p \in Procs, Abort(p)
         PROVE  Typed'
    BY <1>14, <1>parts, FinishUnchangedTyped DEF Abort
  <1>15. CASE UNCHANGED vars
    BY <1>15, <1>parts DEF Typed, vars, RowsOK, LocalOK, JobInHand, FlagInHand,
       rows, locks, local
  <1> QED
    BY <1>1, <1>2, <1>3, <1>4, <1>5, <1>6, <1>7, <1>8, <1>9, <1>10, <1>11, <1>12,
       <1>13, <1>14, <1>15, StepCases

-----------------------------------------------------------------------------
(* The user's row lock: what its holder read stays current.                *)

\* A process past lockUserRowForAggregateUpdate has the lock.
LockHeld == \A p \in Procs : pc[p] \in {"write", "reweigh"} => userLock = p

\* An administrator's override keeps its weight.
LastingKept == \A f \in DOMAIN eff : f \in Lasting => eff[f] = weight[f]

Serial == LockHeld /\ DecayReadsAreCurrent /\ LastingKept

LEMMA InitSerial == Init => Serial
  BY DEF Init, Serial, LockHeld, DecayReadsAreCurrent, LastingKept, NoFlags

\* A process that finishes gives up only its own lock.
LEMMA FinishSerial ==
    ASSUME LocalOK, LockHeld, NEW p \in Procs, Finish(p)
    PROVE  /\ LockHeld'
           /\ \A q \in Procs : pc'[q] = "reweigh" =>
                q # p /\ pc[q] = "reweigh" /\ seen'[q] = seen[q]
  BY DEF Finish, Unlocked, Goto, LocalOK, LockHeld

\* With the row free, or its own, no other process is between read and write.
LEMMA NobodyElse ==
    ASSUME LockHeld, NEW p \in Procs, UserRowFree(p), NEW q \in Procs, q # p
    PROVE  pc[q] \notin {"write", "reweigh"}
  BY UserFlagsAssumption DEF LockHeld, UserRowFree

LEMMA NextSerial == Typed /\ Serial /\ [Next]_vars => Serial'
  <1> SUFFICES ASSUME Typed, Serial, [Next]_vars PROVE Serial'
    OBVIOUS
  <1>parts. LocalOK /\ LockHeld /\ DecayReadsAreCurrent /\ LastingKept
            /\ DOMAIN eff = DOMAIN weight
    BY DEF Typed, RowsOK, Serial
  <1>rows. UNCHANGED rows => LastingKept' /\ UNCHANGED <<weight, eff>>
    BY <1>parts DEF rows, LastingKept
  <1>procs. Posters \subseteq Procs /\ Admins \subseteq Procs /\ Decayers \subseteq Procs
    BY DEF Procs
  <1>start. ASSUME NEW p \in Procs, NEW kind, NEW step \in {"user", "flag"}, NEW f, NEW n,
                   Start(p, kind, step, f, n)
            PROVE  Serial'
    BY <1>start, <1>parts, <1>rows
       DEF Start, Goto, LocalOK, Serial, LockHeld, DecayReadsAreCurrent, Decays, locks
  <1>1. ASSUME NEW p \in Posters, NEW f \in Flags, NEW n \in Weights, BeginAdd(p, f, n)
        PROVE  Serial'
    BY <1>1, <1>start, <1>procs DEF BeginAdd
  <1>2. ASSUME NEW p \in Admins, NEW f \in Flags,
               \/ BeginDelete(p, f) \/ BeginReason(p, f)
               \/ \E n \in Weights : BeginPatch(p, f, n)
        PROVE  Serial'
    BY <1>2, <1>start, <1>procs DEF BeginDelete, BeginReason, BeginPatch
  <1>3. ASSUME NEW p \in Decayers, BeginDecay(p)
        PROVE  Serial'
    BY <1>3, <1>start, <1>procs DEF BeginDecay
  <1>4. ASSUME NEW p \in Procs, LockUser(p)
        PROVE  Serial'
    <2>1. LockHeld'
      BY <1>4, <1>parts, NobodyElse DEF LockUser, Goto, LocalOK, LockHeld
    <2>2. DecayReadsAreCurrent'
      BY <1>4, <1>parts, <1>rows DEF LockUser, Goto, LocalOK, DecayReadsAreCurrent, Decays
    <2> QED
      BY <1>4, <1>rows, <2>1, <2>2 DEF Serial, LockUser
  <1>5. ASSUME NEW p \in Procs, Finish(p), \A q \in Procs \ {p} : pc[q] # "reweigh",
               LastingKept'
        PROVE  Serial'
    BY <1>5, <1>parts, FinishSerial DEF Serial, DecayReadsAreCurrent
  <1>6. ASSUME NEW p \in Procs, Finish(p), UNCHANGED rows
        PROVE  Serial'
    BY <1>6, <1>parts, <1>rows, FinishSerial DEF Serial, DecayReadsAreCurrent, Decays
  <1>7. ASSUME NEW p \in Procs, CommitAdd(p) \/ CommitEdit(p) \/ CommitDecay(p)
        PROVE  Serial'
    <2>1. UserRowFree(p)
      BY <1>7, <1>parts DEF CommitAdd, CommitEdit, CommitDecay, LockHeld, UserRowFree
    <2>2. \A q \in Procs \ {p} : pc[q] # "reweigh"
      BY <1>parts, <2>1, NobodyElse
    <2>3. CASE CommitAdd(p)
      <3>1. eff' = With(eff, tgt[p], amt[p]) /\ weight' = With(weight, tgt[p], amt[p])
        BY <2>3 DEF CommitAdd
      <3>2. LastingKept'
        BY <1>parts, <3>1 DEF LastingKept, With
      <3> QED
        BY <1>5, <2>2, <2>3, <3>2 DEF CommitAdd
    <2>4. CASE CommitEdit(p)
      <3>1. eff' = Edited(p, eff) /\ weight' = Edited(p, weight)
        BY <2>4 DEF CommitEdit
      <3>2. job[p] \in {"delete", "patch", "reason"}
        BY <2>4 DEF CommitEdit, Typed, JobInHand
      <3>3. LastingKept'
        <4>1. CASE job[p] = "delete"
          <5>1. eff' = Without(eff, tgt[p]) /\ weight' = Without(weight, tgt[p])
            BY <3>1, <4>1 DEF Edited
          <5> QED
            BY <1>parts, <5>1 DEF LastingKept, Without
        <4>2. CASE job[p] = "patch"
          <5>1. eff' = With(eff, tgt[p], amt[p]) /\ weight' = With(weight, tgt[p], amt[p])
            BY <3>1, <4>2 DEF Edited
          <5> QED
            BY <1>parts, <5>1 DEF LastingKept, With
        <4>3. CASE job[p] = "reason"
          BY <1>parts, <3>1, <4>3 DEF LastingKept, Edited
        <4> QED
          BY <3>2, <4>1, <4>2, <4>3
      <3> QED
        BY <1>5, <2>2, <2>4, <3>3 DEF CommitEdit
    <2>5. CASE CommitDecay(p)
      <3>3. DOMAIN seen[p] = DOMAIN eff /\ Decays(seen[p]) /\ weight' = weight
        BY <1>parts, <2>5 DEF CommitDecay, DecayReadsAreCurrent
      <3>4. seen[p] \in Weighings /\ eff \in Weighings
        BY <1>parts DEF Typed, LocalOK, RowsOK
      <3>1. DOMAIN seen[p] = DOMAIN eff /\ Decays(seen[p]) /\ eff' = seen[p] /\ weight' = weight
        BY <2>5, <3>3, <3>4, OverwriteAll DEF CommitDecay
      <3>2. LastingKept'
        BY <3>1 DEF LastingKept, Decays
      <3> QED
        BY <1>5, <2>2, <2>5, <3>2 DEF CommitDecay
    <2> QED
      BY <1>7, <2>3, <2>4, <2>5
  <1>8. ASSUME NEW p \in Procs,
               FlagGone(p) \/ KeyTaken(p) \/ SkipDecay(p) \/ BreakDeadlock(p) \/ Abort(p)
        PROVE  Serial'
    BY <1>6, <1>8 DEF FlagGone, KeyTaken, SkipDecay, BreakDeadlock, Abort
  <1>9. ASSUME NEW p \in Procs, LockFlag(p)
        PROVE  Serial'
    BY <1>9, <1>parts, <1>rows
       DEF LockFlag, Goto, LocalOK, Serial, LockHeld, DecayReadsAreCurrent, Decays
  <1>10. ASSUME NEW p \in Procs, SumFlags(p)
         PROVE  Serial'
    <2>1. LockHeld'
      BY <1>10, <1>parts DEF SumFlags, Goto, LocalOK, LockHeld, locks
    <2>2. \A q \in Procs : pc'[q] = "reweigh" => pc[q] = "reweigh" /\ seen'[q] = seen[q]
      BY <1>10, <1>parts DEF SumFlags, Goto, LocalOK
    <2> QED
      BY <1>10, <1>parts, <1>rows, <2>1, <2>2 DEF SumFlags, Serial, DecayReadsAreCurrent, Decays
  <1>11. ASSUME NEW p \in Procs, ReadFlags(p)
         PROVE  Serial'
    <2>1. PICK w \in [DOMAIN eff -> 0 .. MaxWeight] :
            Decays(w) /\ seen' = [seen EXCEPT ![p] = w]
      BY <1>11 DEF ReadFlags
    <2>2. LockHeld'
      BY <1>11, <1>parts DEF ReadFlags, Goto, LocalOK, LockHeld, locks
    <2>3. \A q \in Procs \ {p} : pc'[q] = "reweigh" => pc[q] = "reweigh" /\ seen'[q] = seen[q]
      BY <1>11, <1>parts, <2>1 DEF ReadFlags, Goto, LocalOK
    <2>4. seen'[p] = w /\ UNCHANGED <<eff, weight>> /\ LastingKept'
      BY <1>11, <1>parts, <1>rows, <2>1 DEF ReadFlags, LocalOK
    <2>5. DOMAIN w = DOMAIN eff /\ Decays(w)
      BY <2>1
    <2> QED
      BY <1>parts, <2>2, <2>3, <2>4, <2>5 DEF Serial, DecayReadsAreCurrent, Decays
  <1>12. CASE UNCHANGED vars
    BY <1>12, <1>parts, <1>rows
       DEF vars, locks, local, Serial, LockHeld, DecayReadsAreCurrent, Decays
  <1> QED
    BY <1>1, <1>2, <1>3, <1>4, <1>7, <1>8, <1>9, <1>10, <1>11, <1>12, StepCases

\* The aggregate's state keeps its types.
THEOREM UserFlagsTypeOK == Spec => []TypeOK
  <1>1. Serial => DecayReadsAreCurrent
    BY DEF Serial
  <1>2. Typed => TypeOK
    BY DEF Typed, RowsOK, LocalOK, TypeOK
  <1> QED
    BY <1>1, <1>2, InitTyped, NextTyped, InitSerial, NextSerial, PTL DEF Spec

\* The decay job writes over exactly what it read, whatever edits, reports and
\* other decay passes do meanwhile.
THEOREM DecayReadsSafe == Spec => []DecayReadsAreCurrent
  <1>1. Serial => DecayReadsAreCurrent
    BY DEF Serial
  <1> QED
    BY <1>1, InitTyped, NextTyped, InitSerial, NextSerial, PTL DEF Spec

-----------------------------------------------------------------------------
(* The score: every writer locks the user first, except for an edit's sum.  *)

\* A step that is not a commit leaves the rows alone.
LEMMA RowsKept ==
    ASSUME [Next]_vars, ~ \E p \in Procs : CommitAdd(p) \/ CommitEdit(p) \/ CommitDecay(p)
    PROVE  UNCHANGED rows
  <1>1. ASSUME NEW p \in Posters, NEW f \in Flags, NEW n \in Weights, BeginAdd(p, f, n)
        PROVE  UNCHANGED rows
    BY <1>1 DEF BeginAdd, Start
  <1>2. ASSUME NEW p \in Decayers, BeginDecay(p)
        PROVE  UNCHANGED rows
    BY <1>2 DEF BeginDecay, Start
  <1>3. ASSUME NEW p \in Admins, NEW f \in Flags,
               \/ BeginDelete(p, f) \/ BeginReason(p, f)
               \/ \E n \in Weights : BeginPatch(p, f, n)
        PROVE  UNCHANGED rows
    BY <1>3 DEF BeginDelete, BeginReason, BeginPatch, Start
  <1>4. ASSUME NEW p \in Procs,
               \/ LockUser(p) \/ LockFlag(p) \/ FlagGone(p) \/ SumFlags(p) \/ KeyTaken(p)
               \/ ReadFlags(p) \/ SkipDecay(p) \/ BreakDeadlock(p) \/ Abort(p)
        PROVE  UNCHANGED rows
    BY <1>4 DEF LockUser, LockFlag, FlagGone, SumFlags, KeyTaken, ReadFlags, SkipDecay,
       BreakDeadlock, Abort
  <1>5. UNCHANGED vars => UNCHANGED rows
    BY DEF vars
  <1> QED
    BY <1>1, <1>2, <1>3, <1>4, <1>5, StepCases

LEMMA InitScore ==
    ASSUME 1 <= Watch, Watch <= Suspicious, Suspicious <= HighRisk, HighRisk <= Confirmed
    PROVE  Init => ScoreIsRight
  BY TotalAssumption, UserFlagsAssumption
     DEF Init, ScoreIsRight, ScoreIsSumOfFlags, LevelFromScore

LEMMA NextScore ==
    ASSUME Typed, Serial, ScoreIsRight, [Next]_vars
    PROVE  ScoreIsRight'
  <1>1. ASSUME NEW p \in Procs, CommitAdd(p)
        PROVE  ScoreIsRight'
    <2>1. tgt[p] \in Flags \ DOMAIN eff /\ amt[p] \in Weights /\ eff \in Weighings
      BY <1>1 DEF CommitAdd, Typed, JobInHand, RowsOK
    <2>2. Total(eff') = Total(eff) + amt[p]
      BY <1>1, <2>1, TotalAssumption DEF CommitAdd
    <2>3. drift' = drift /\ score' = score + amt[p] /\ level' = LevelFromScore(score')
      BY <1>1 DEF CommitAdd, SaveUser, LevelFromScore
    <2>4. ScoreIsSumOfFlags => ScoreIsSumOfFlags'
      BY <2>2, <2>3 DEF ScoreIsSumOfFlags, LevelFromScore
    <2> QED
      BY <2>3, <2>4, Zenon DEF ScoreIsRight
  <1>2. ASSUME NEW p \in Procs, CommitDecay(p)
        PROVE  ScoreIsRight'
    <2>1. seen[p] \in Weighings /\ eff \in Weighings /\ DOMAIN seen[p] = DOMAIN eff
      BY <1>2 DEF CommitDecay, Typed, LocalOK, RowsOK, Serial, DecayReadsAreCurrent
    <2>2. ScoreIsSumOfFlags'
      BY <1>2, <2>1, OverwriteAll DEF CommitDecay, SaveUser, ScoreIsSumOfFlags, LevelFromScore
    <2> QED
      BY <2>2 DEF ScoreIsRight
  <1>3. ASSUME NEW p \in Procs, CommitEdit(p)
        PROVE  ScoreIsRight'
    <2>1. CASE seen[p] = Edited(p, eff)
      <3>1. ScoreIsSumOfFlags'
        BY <1>3, <2>1 DEF CommitEdit, SaveUser, ScoreIsSumOfFlags, LevelFromScore
      <3> QED
        BY <3>1 DEF ScoreIsRight
    <2>2. CASE seen[p] # Edited(p, eff)
      <3>1. drift'
        BY <1>3, <2>2, Zenon DEF CommitEdit
      <3> QED
        BY <3>1 DEF ScoreIsRight
    <2> QED
      BY <2>1, <2>2
  <1>4. ASSUME UNCHANGED rows
        PROVE  ScoreIsRight'
    <2>1. UNCHANGED <<eff, score, level, drift>>
      BY <1>4 DEF rows
    <2>2. ScoreIsSumOfFlags' = ScoreIsSumOfFlags
      BY <2>1 DEF ScoreIsSumOfFlags, LevelFromScore
    <2> QED
      BY <2>1, <2>2, Zenon DEF ScoreIsRight
  <1> QED
    BY <1>1, <1>2, <1>3, <1>4, RowsKept

\* No report, flag, edit or decay pass is ever lost from the score, for any
\* number of requests and workers, unless an edit summed flags that had changed.
THEOREM ScoreSafe ==
    ASSUME 1 <= Watch, Watch <= Suspicious, Suspicious <= HighRisk, HighRisk <= Confirmed
    PROVE  Spec => []ScoreIsRight
  <1>1. Typed /\ Serial /\ ScoreIsRight /\ [Next]_vars => ScoreIsRight'
    BY NextScore
  <1>2. Serial => DecayReadsAreCurrent
    BY DEF Serial
  <1>3. Init => ScoreIsRight
    BY InitScore
  <1> QED
    BY <1>1, <1>2, <1>3, InitTyped, NextTyped, InitSerial, NextSerial, PTL DEF Spec

-----------------------------------------------------------------------------
(* The promise of Reputation.                                              *)

\* An edit about to write its sum has summed flags of ids in use; the flags as
\* they are, if no other transaction runs beside it.
SumsAreOfFlags ==
    \A p \in Procs : pc[p] = "store" =>
        /\ DOMAIN seen[p] \subseteq born
        /\ (\A q \in Procs : q = p) => seen[p] = Edited(p, eff)

LEMMA InitSums == Init => SumsAreOfFlags
  BY DEF Init, SumsAreOfFlags

\* What a step leaves of a transaction that is about to write its sum.
SumKept(p) ==
    pc'[p] = "store" =>
        /\ pc[p] = "store"
        /\ seen'[p] = seen[p] /\ job'[p] = job[p] /\ tgt'[p] = tgt[p] /\ amt'[p] = amt[p]

LEMMA NextSums ==
    ASSUME Typed, SumsAreOfFlags, [Next]_vars
    PROVE  SumsAreOfFlags'
  <1>types. LocalOK /\ RowsOK
    BY DEF Typed
  \* Every step but SumFlags keeps the sums.
  <1>1. ASSUME NEW p \in Procs, SumKept(p), UNCHANGED <<eff, born>>, pc'[p] = "store"
        PROVE  /\ DOMAIN seen'[p] \subseteq born'
               /\ (\A q \in Procs : q = p) => seen'[p] = Edited(p, eff)'
    <2>1. Edited(p, eff)' = Edited(p, eff)
      BY <1>1 DEF SumKept, Edited
    <2> QED
      BY <1>1, <2>1 DEF SumKept, SumsAreOfFlags
  <1>2. ASSUME NEW p \in Procs, Finish(p)
        PROVE  pc'[p] # "store" /\ \A q \in Procs \ {p} : SumKept(q)
    BY <1>2, <1>types DEF Finish, Goto, LocalOK, SumKept
  <1>3. ASSUME NEW p \in Procs, NEW f, NEW n, NEW kind, NEW step, step # "store",
               Start(p, kind, step, f, n)
        PROVE  SumsAreOfFlags'
    <2>1. \A q \in Procs : SumKept(q)
      BY <1>3, <1>types DEF Start, Goto, LocalOK, SumKept
    <2>2. UNCHANGED <<eff, born>>
      BY <1>3 DEF Start, rows
    <2> QED
      BY <1>1, <2>1, <2>2 DEF SumsAreOfFlags
  <1>4. ASSUME NEW p \in Posters, NEW f \in Flags, NEW n \in Weights, BeginAdd(p, f, n)
        PROVE  SumsAreOfFlags'
    BY <1>3, <1>4 DEF BeginAdd, Procs
  <1>5. ASSUME NEW p \in Decayers, BeginDecay(p)
        PROVE  SumsAreOfFlags'
    BY <1>3, <1>5 DEF BeginDecay, Procs
  <1>6. ASSUME NEW p \in Admins, NEW f \in Flags,
               \/ BeginDelete(p, f) \/ BeginReason(p, f)
               \/ \E n \in Weights : BeginPatch(p, f, n)
        PROVE  SumsAreOfFlags'
    BY <1>3, <1>6 DEF BeginDelete, BeginReason, BeginPatch, Procs
  <1>7. ASSUME NEW p \in Procs, LockUser(p) \/ LockFlag(p) \/ ReadFlags(p)
        PROVE  SumsAreOfFlags'
    <2>1. \A q \in Procs : SumKept(q)
      BY <1>7, <1>types DEF LockUser, LockFlag, ReadFlags, Goto, LocalOK, SumKept
    <2>2. UNCHANGED <<eff, born>>
      BY <1>7 DEF LockUser, LockFlag, ReadFlags, rows
    <2> QED
      BY <1>1, <2>1, <2>2 DEF SumsAreOfFlags
  <1>8. ASSUME NEW p \in Procs, SumFlags(p)
        PROVE  SumsAreOfFlags'
    <2>1. \A q \in Procs \ {p} : SumKept(q)
      BY <1>8, <1>types DEF SumFlags, Goto, LocalOK, SumKept
    <2>2. UNCHANGED <<eff, born, job, tgt, amt>> /\ pc[p] = "sum"
      BY <1>8 DEF SumFlags, rows
    <2>3. seen'[p] = Edited(p, eff)
      BY <1>8, <1>types DEF SumFlags, EffectiveWeights, LocalOK
    <2>4. Edited(p, eff)' = Edited(p, eff)
      BY <2>2 DEF Edited
    <2>5. DOMAIN seen'[p] \subseteq born'
      BY <2>2, <2>3, <1>types, EditedWeighs DEF RowsOK
    <2> QED
      BY <1>1, <2>1, <2>2, <2>3, <2>4, <2>5 DEF SumsAreOfFlags
  <1>9. ASSUME NEW p \in Procs,
               FlagGone(p) \/ KeyTaken(p) \/ SkipDecay(p) \/ BreakDeadlock(p) \/ Abort(p)
        PROVE  SumsAreOfFlags'
    <2>1. Finish(p) /\ UNCHANGED <<eff, born>>
      BY <1>9 DEF FlagGone, KeyTaken, SkipDecay, BreakDeadlock, Abort, rows
    <2> QED
      BY <1>1, <1>2, <2>1 DEF SumsAreOfFlags
  <1>10. ASSUME NEW p \in Procs, CommitAdd(p) \/ CommitEdit(p) \/ CommitDecay(p)
         PROVE  SumsAreOfFlags'
    <2>1. Finish(p) /\ born \subseteq born'
      BY <1>10 DEF CommitAdd, CommitEdit, CommitDecay
    <2>2. ASSUME NEW q \in Procs, pc'[q] = "store"
          PROVE  q # p /\ DOMAIN seen'[q] \subseteq born'
      BY <1>2, <2>1, <2>2 DEF SumKept, SumsAreOfFlags
    <2> QED
      BY <2>2 DEF SumsAreOfFlags
  <1>11. CASE UNCHANGED vars
    <2>1. \A q \in Procs : SumKept(q)
      BY <1>11 DEF vars, local, SumKept
    <2>2. UNCHANGED <<eff, born>>
      BY <1>11 DEF vars, rows
    <2> QED
      BY <1>1, <2>1, <2>2 DEF SumsAreOfFlags
  <1> QED
    BY <1>4, <1>5, <1>6, <1>7, <1>8, <1>9, <1>10, <1>11, StepCases

LEMMA InitPromise ==
    ASSUME Init
    PROVE  Promise!Init
  BY DEF Init, NoFlags, Promise!Init, Promise!Nothing

\* Each commit is a step of the promise.
LEMMA AddIsReport ==
    ASSUME Typed, NEW p \in Procs, CommitAdd(p)
    PROVE  Promise!Next
  <1>1. tgt[p] \in Flags /\ amt[p] \in 1 .. MaxWeight
    BY DEF CommitAdd, Typed, JobInHand, Weights
  <1>2. Promise!Report(tgt[p], amt[p])
    BY DEF CommitAdd, SaveUser, With, Promise!Report, Promise!Given, Promise!Save
  <1> QED
    BY <1>1, <1>2 DEF Promise!Next

LEMMA EditIsEdit ==
    ASSUME Typed, SumsAreOfFlags, NEW p \in Procs, CommitEdit(p)
    PROVE  Promise!Next
  <1>1. /\ tgt[p] \in Flags /\ tgt[p] \in DOMAIN weight /\ p \in Admins
        /\ job[p] \in {"delete", "patch", "reason"}
        /\ job[p] = "patch" => amt[p] \in 1 .. MaxWeight
    BY DEF CommitEdit, Typed, JobInHand, FlagInHand, Weights
  <1>2. weight' = Edited(p, weight) /\ eff' = Edited(p, eff) /\ born' = born
    BY DEF CommitEdit
  <1>3. \/ weight' = Promise!Removed(weight, tgt[p]) /\ eff' = Promise!Removed(eff, tgt[p])
        \/ \E n \in 1 .. MaxWeight :
             weight' = Promise!Given(weight, tgt[p], n) /\ eff' = Promise!Given(eff, tgt[p], n)
        \/ UNCHANGED <<weight, eff>>
    <2>1. CASE job[p] = "delete"
      BY <1>2, <2>1 DEF Edited, Without, Promise!Removed
    <2>2. CASE job[p] = "patch"
      BY <1>1, <1>2, <2>2 DEF Edited, With, Promise!Given
    <2>3. CASE job[p] = "reason"
      BY <1>2, <2>3 DEF Edited
    <2> QED
      BY <1>1, <2>1, <2>2, <2>3
  <1>4. score' = Total(seen[p]) /\ level' = LevelFromScore(score')
    BY DEF CommitEdit, SaveUser, LevelFromScore
  <1>5. Promise!Recount
    <2>1. CASE seen[p] = eff'
      <3>1. drift' = FALSE
        BY <1>2, <2>1 DEF CommitEdit
      <3> QED
        BY <1>4, <2>1, <3>1 DEF Promise!Recount, Promise!Save, LevelFromScore
    <2>2. CASE seen[p] # eff'
      <3>1. drift' = TRUE
        BY <1>2, <2>2 DEF CommitEdit
      <3>2. PICK q \in Procs : q # p
        BY <1>2, <2>2 DEF SumsAreOfFlags, CommitEdit
      <3>3. PICK S \in SUBSET Flags : seen[p] \in [S -> 0 .. MaxWeight]
        BY DEF Typed, LocalOK, Weighings
      <3>4. S \in SUBSET born
        BY <3>3 DEF SumsAreOfFlags, CommitEdit
      <3> QED
        BY <1>1, <1>4, <3>1, <3>2, <3>3, <3>4 DEF Promise!Recount, Promise!Save, LevelFromScore
    <2> QED
      BY <2>1, <2>2
  <1>6. Promise!Edit(tgt[p])
    BY <1>1, <1>2, <1>3, <1>5 DEF Promise!Edit
  <1> QED
    BY <1>1, <1>6 DEF Promise!Next

LEMMA DecayIsDecay ==
    ASSUME Typed, Serial, NEW p \in Procs, CommitDecay(p)
    PROVE  Promise!Next
  <1>1. seen[p] \in Weighings /\ eff \in Weighings /\ DOMAIN seen[p] = DOMAIN eff /\ Decays(seen[p])
    BY DEF CommitDecay, Typed, LocalOK, RowsOK, Serial, DecayReadsAreCurrent
  <1>2. eff' = seen[p]
    BY <1>1, OverwriteAll DEF CommitDecay
  <1>3. seen[p] \in [DOMAIN eff -> 0 .. MaxWeight]
    BY <1>1 DEF Weighings
  <1>4. \A f \in DOMAIN eff :
          IF f \in Lasting THEN seen[p][f] = weight[f] ELSE seen[p][f] <= eff[f]
    BY <1>1 DEF Decays
  <1>5. Promise!Save(Total(seen[p])) /\ drift' = FALSE /\ UNCHANGED <<weight, born>>
    BY DEF CommitDecay, SaveUser, Promise!Save
  <1> QED
    BY <1>2, <1>3, <1>4, <1>5 DEF Promise!Next, Promise!Decay

\* Whatever reports, edits and decay passes run at once, a reader of the rows
\* sees them happen one by one, each with its flags and its aggregate; a score
\* goes wrong only by an edit beside which another transaction may run.
THEOREM UserFlagsImplementsReputation == Spec => ImplementsReputation
  <1> DEFINE I == Typed /\ Serial /\ SumsAreOfFlags
  <1>1. Init => I
    BY InitTyped, InitSerial, InitSums
  <1>2. I /\ [Next]_vars => I'
    BY NextTyped, NextSerial, NextSums DEF Serial
  <1>3. Init => Promise!Init
    BY InitPromise
  <1>4. I /\ [Next]_vars => [Promise!Next]_(Promise!vars)
    <2> SUFFICES ASSUME I, [Next]_vars PROVE [Promise!Next]_(Promise!vars)
      OBVIOUS
    <2>1. UNCHANGED rows => UNCHANGED Promise!vars
      BY DEF rows, Promise!vars
    <2> QED
      BY <2>1, RowsKept, AddIsReport, EditIsEdit, DecayIsDecay
  <1> QED
    BY <1>1, <1>2, <1>3, <1>4, PTL DEF Spec, ImplementsReputation, Promise!Spec

-----------------------------------------------------------------------------
(***************************************************************************)
(* UserCache, as CacheView names it.                                       *)
(***************************************************************************)

LEMMA CacheSteps ==
    ASSUME [Cache!Next]_(Cache!vars)
    PROVE  \/ \E p \in Cache!Procs :
                \/ Cache!Lookup(p) \/ Cache!LookupNegative(p) \/ Cache!ReadRow(p) \/ Cache!Fill(p)
                \/ Cache!StoreReport(p) \/ Cache!Drop(p) \/ Cache!RefreshRead(p) \/ Cache!RefreshStore(p)
                \/ Cache!Commit(p, "store") \/ Cache!Commit(p, "refresh") \/ Cache!Commit(p, "drop")
                \/ Cache!Repair(p) \/ Cache!Die(p)
           \/ Cache!CreateRow \/ Cache!Expire \/ Cache!ExpireNegative
           \/ UNCHANGED Cache!vars
  BY DEF Cache!Next, Cache!Advance, Cache!Procs, Cache!CommitReport, Cache!CommitEdit,
         Cache!CommitDecay

\* The profile in hand is one that was committed.
SeenIsPast ==
    \A p \in Cache!Procs : inHand[p] # NoRow => row # NoRow /\ inHand[p] <= row

\* A reporter past its COMMIT knows the version it made.
StoreHasVersion ==
    \A p \in Cache!Procs : cpc[p] \in {"store", "drop"} => inHand[p] # NoRow

CacheTyped == Cache!TypeOK /\ SeenIsPast /\ StoreHasVersion /\ Cache!EntryIsGuarded

LEMMA CacheInit ==
    ASSUME Cache!UserCacheConstants
    PROVE  Cache!Init => CacheTyped
  <1>2. MaxVersion \in Nat
    BY DEF Cache!UserCacheConstants
  <1>1. 0 \in Cache!Versions
    BY <1>2 DEF Cache!Versions
  <1>3. Cache!Init => Cache!TypeOK
    <2>1. ASSUME Cache!Init PROVE neg \in BOOLEAN
      BY <2>1 DEF Cache!Init
    <2>2. ASSUME Cache!Init PROVE row \in Cache!Versions \cup {NoRow} /\ cacheFaults \in Nat
      BY <2>2, <1>1 DEF Cache!Init
    <2>3. ASSUME Cache!Init PROVE cpc \in [Cache!Procs -> Cache!Steps] /\ inHand \in [Cache!Procs -> Cache!Versions \cup {NoRow}]
      BY <2>3 DEF Cache!Init, Cache!Steps
    <2> QED
      BY <2>1, <2>2, <2>3 DEF Cache!Init, Cache!TypeOK
  <1>4. Cache!Init => SeenIsPast /\ StoreHasVersion /\ Cache!EntryIsGuarded
    BY DEF Cache!Init, SeenIsPast, StoreHasVersion, Cache!EntryIsGuarded
  <1> QED
    BY <1>3, <1>4 DEF CacheTyped

\* Whatever is stored is what some process has in hand.
LEMMA CacheNext ==
    ASSUME Cache!UserCacheConstants
    PROVE  CacheTyped /\ [Cache!Next]_(Cache!vars) => CacheTyped'
  <1> SUFFICES ASSUME CacheTyped, [Cache!Next]_(Cache!vars) PROVE CacheTyped'
    OBVIOUS
  <1>types. /\ row \in Cache!Versions \cup {NoRow} /\ cached \in Cache!Versions \cup {NoRow}
            /\ stver \in Cache!Versions \cup {NoRow} /\ neg \in BOOLEAN
            /\ cpc \in [Cache!Procs -> Cache!Steps] /\ inHand \in [Cache!Procs -> Cache!Versions \cup {NoRow}]
            /\ cacheFaults \in Nat
    BY DEF CacheTyped, Cache!TypeOK
  <1>parts. SeenIsPast /\ StoreHasVersion /\ Cache!EntryIsGuarded
    BY DEF CacheTyped
  <1>vs. Cache!Versions \subseteq Nat /\ 0 \in Cache!Versions /\ NoRow \notin Cache!Versions
    BY DEF Cache!UserCacheConstants, Cache!Versions
  <1>1. ASSUME NEW p \in Cache!Procs, Cache!Lookup(p) \/ Cache!LookupNegative(p) \/ Cache!Repair(p)
        PROVE  CacheTyped'
    BY <1>1, <1>types, <1>parts
       DEF Cache!Lookup, Cache!LookupNegative, Cache!Repair, Cache!Goto, Cache!redis,
           Cache!Steps,
           CacheTyped, Cache!TypeOK, SeenIsPast, StoreHasVersion, Cache!EntryIsGuarded
  <1>2. ASSUME NEW p \in Cache!Procs, Cache!ReadRow(p) \/ Cache!RefreshRead(p)
        PROVE  CacheTyped'
    BY <1>2, <1>types, <1>parts, <1>vs
       DEF Cache!ReadRow, Cache!RefreshRead, Cache!Goto, Cache!Have, Cache!redis, Cache!Steps,
           CacheTyped, Cache!TypeOK, SeenIsPast, StoreHasVersion, Cache!EntryIsGuarded
  <1>3. ASSUME NEW p \in Cache!Procs, Cache!Fill(p) \/ Cache!StoreReport(p) \/ Cache!Drop(p) \/ Cache!RefreshStore(p)
        PROVE  CacheTyped'
    <2>1. /\ row' = row /\ cacheFaults' = cacheFaults
          /\ cpc' = [cpc EXCEPT ![p] = "idle"] /\ inHand' = [inHand EXCEPT ![p] = NoRow]
      BY <1>3 DEF Cache!Fill, Cache!StoreReport, Cache!Drop, Cache!RefreshStore, Cache!Done,
                  Cache!Goto, Cache!Have
    <2>2. SeenIsPast' /\ StoreHasVersion'
      BY <2>1, <1>types, <1>parts DEF SeenIsPast, StoreHasVersion
    <2>3. cached' \in Cache!Versions \cup {NoRow} /\ stver' \in Cache!Versions \cup {NoRow} /\ neg' \in BOOLEAN
      BY <1>3, <1>types DEF Cache!Fill, Cache!StoreReport, Cache!Drop, Cache!RefreshStore,
                            Cache!SetNegativeMarker,
         Cache!SetAuthoritative, Cache!SetIfNewer, Cache!Store, Cache!DecayInvalidate,
         Cache!Invalidate, Cache!redis
    <2>4. Cache!EntryIsGuarded'
      BY <1>3, <1>types, <1>parts, <2>1
         DEF Cache!Fill, Cache!StoreReport, Cache!Drop, Cache!RefreshStore,
             Cache!SetNegativeMarker, Cache!SetAuthoritative,
             Cache!SetIfNewer, Cache!Store, Cache!DecayInvalidate, Cache!Invalidate,
             Cache!redis, SeenIsPast, Cache!EntryIsGuarded
    <2> QED
      BY <1>types, <2>1, <2>2, <2>3, <2>4 DEF CacheTyped, Cache!TypeOK, Cache!Steps
  <1>4. ASSUME NEW p \in Cache!Procs, NEW step \in {"store", "refresh", "drop"}, Cache!Commit(p, step)
        PROVE  CacheTyped'
    <2>1. row' \in Cache!Versions /\ row' # NoRow /\ (row # NoRow => row <= row')
      BY <1>4, <1>types DEF Cache!UserCacheConstants, Cache!Commit, Cache!Bumped, Cache!Versions
    <2>2. /\ cpc' = [cpc EXCEPT ![p] = step] /\ inHand' = [inHand EXCEPT ![p] = row']
          /\ UNCHANGED <<Cache!redis, cacheFaults>>
      BY <1>4 DEF Cache!Commit, Cache!Goto, Cache!Have
    <2>3. SeenIsPast'
      <3> SUFFICES ASSUME NEW q \in Cache!Procs, inHand'[q] # NoRow
                   PROVE  row' # NoRow /\ inHand'[q] <= row'
        BY DEF SeenIsPast
      <3>1. CASE q = p
        BY <3>1, <1>types, <1>vs, <2>1, <2>2
      <3>2. CASE q # p
        <4>1. inHand[q] # NoRow /\ inHand'[q] = inHand[q] /\ inHand[q] \in Nat
          BY <3>2, <1>types, <1>vs, <2>2
        <4>2. row # NoRow /\ inHand[q] <= row /\ row \in Nat /\ row' \in Nat
          BY <4>1, <1>types, <1>parts, <1>vs, <2>1 DEF SeenIsPast
        <4> QED
          BY <4>1, <4>2, <2>1
      <3> QED
        BY <3>1, <3>2
    <2>4. StoreHasVersion'
      BY <1>types, <1>parts, <2>1, <2>2 DEF StoreHasVersion
    <2>5. Cache!EntryIsGuarded'
      BY <1>types, <1>parts, <1>vs, <2>1, <2>2 DEF Cache!EntryIsGuarded, Cache!redis
    <2> QED
      BY <1>types, <2>1, <2>2, <2>3, <2>4, <2>5 DEF CacheTyped, Cache!TypeOK, Cache!Steps,
                                                    Cache!redis
  <1>5. ASSUME Cache!CreateRow \/ Cache!Expire \/ Cache!ExpireNegative
        PROVE  CacheTyped'
    BY <1>5, <1>types, <1>parts, <1>vs
       DEF Cache!CreateRow, Cache!Expire, Cache!ExpireNegative, Cache!redis,
           CacheTyped, Cache!TypeOK, SeenIsPast, StoreHasVersion, Cache!EntryIsGuarded
  <1>6. ASSUME NEW p \in Cache!Procs, Cache!Die(p)
        PROVE  CacheTyped'
    BY <1>6, <1>types, <1>parts
       DEF Cache!Die, Cache!Done, Cache!Goto, Cache!Have, Cache!redis, Cache!Steps,
           CacheTyped, Cache!TypeOK, SeenIsPast, StoreHasVersion, Cache!EntryIsGuarded
  <1>7. CASE UNCHANGED Cache!vars
    BY <1>7, <1>types, <1>parts
       DEF Cache!vars, Cache!redis, CacheTyped, Cache!TypeOK, SeenIsPast, StoreHasVersion,
           Cache!EntryIsGuarded
  <1> QED
    BY <1>1, <1>2, <1>3, <1>4, <1>5, <1>6, <1>7, CacheSteps

\* The row, the keys and every request's local values keep their types.
THEOREM UserCacheTypeOK == Cache!Spec => []Cache!TypeOK
  <1>1. CacheTyped => Cache!TypeOK
    BY DEF CacheTyped
  <1>i. Cache!Init => CacheTyped
    BY CacheAssumption, CacheInit
  <1>n. CacheTyped /\ [Cache!Next]_(Cache!vars) => CacheTyped'
    BY CacheAssumption, CacheNext
  <1> QED
    BY <1>1, <1>i, <1>n, PTL DEF Cache!Spec

\* Whatever readers, writers, decay passes and repairs do, and however keys
\* expire, a stored profile was committed and its version key is its own.
THEOREM EntrySafe == Cache!Spec => []EntryIsGuarded
  <1>1. CacheTyped => EntryIsGuarded
    BY DEF CacheTyped, EntryIsGuarded
  <1>i. Cache!Init => CacheTyped
    BY CacheAssumption, CacheInit
  <1>n. CacheTyped /\ [Cache!Next]_(Cache!vars) => CacheTyped'
    BY CacheAssumption, CacheNext
  <1> QED
    BY <1>1, <1>i, <1>n, PTL DEF Cache!Spec

\* A report never replaces a stored profile by an older one, for any mix of
\* readers and writers, slow or dying.
THEOREM ReportNeverGoesBackSafe == Cache!Spec => ReportNeverGoesBack
  <1>1. CacheTyped =>
          [(\E p \in Cache!Procs : Cache!StoreReport(p)) /\ cached # NoRow => cached' >= cached]_(Cache!vars)
    <2> SUFFICES ASSUME CacheTyped, NEW p \in Cache!Procs, Cache!StoreReport(p), cached # NoRow
                 PROVE  cached' >= cached
      OBVIOUS
    <2>1. cpc[p] = "store" /\ Cache!SetIfNewer(inHand[p])
      BY DEF Cache!StoreReport
    <2>2. stver = cached /\ cached \in Nat /\ inHand[p] \in Nat
      BY <2>1, CacheAssumption DEF Cache!UserCacheConstants, CacheTyped, Cache!TypeOK, Cache!EntryIsGuarded,
                  StoreHasVersion, Cache!Versions
    <2> QED
      BY <2>1, <2>2 DEF Cache!SetIfNewer, Cache!Store, Cache!redis
  <1>i. Cache!Init => CacheTyped
    BY CacheAssumption, CacheInit
  <1>n. CacheTyped /\ [Cache!Next]_(Cache!vars) => CacheTyped'
    BY CacheAssumption, CacheNext
  <1> QED
    BY <1>1, <1>i, <1>n, PTL DEF Cache!Spec, ReportNeverGoesBack, Cache!ReportNeverGoesBack

=============================================================================
