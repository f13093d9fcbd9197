------------------------------ MODULE UserFlags ------------------------------
(***************************************************************************)
(* The reputation of one user: the rows of "flags" and the aggregate       *)
(* (flag_score, flag_level) kept beside them in "users".  state_version    *)
(* grows with every write of the aggregate; UserCache is about it.         *)
(*                                                                         *)
(* Posters run createFlag, createInstantReport and approve, Admins run     *)
(* deleteFlag and patchFlag, Decayers the decay job of a worker.  All of   *)
(* them are Postgres transactions at READ COMMITTED: what a transaction    *)
(* writes stays private until it commits, a statement reads what is        *)
(* committed when it starts, and an UPDATE or SELECT FOR UPDATE waits for  *)
(* the holder of the row.  Statements of one transaction between which no  *)
(* other can interfere are one step.                                       *)
(*                                                                         *)
(* Total(w) stands for the sum of the weights in the function w.           *)
(***************************************************************************)
EXTENDS Naturals, FiniteSets

CONSTANTS
    Flags,      \* ids of the flags ever created
    Lasting,    \* those with source ADMIN_OVERRIDE, which do not decay
    MaxWeight,  \* largest weight a flag may be given
    Posters, Admins, Decayers,
    DecayEnabled,  \* is FLAG_DECAY_ENABLED 'true'? By default it is not
    None,       \* nobody, no flag
    Watch, Suspicious, HighRisk, Confirmed,   \* FLAG_THRESHOLD_*
    Total(_),   \* the sum of a function's values
    MaxFaults   \* bound on transactions that fail or die

Procs == Posters \cup Admins \cup Decayers

Weights == 1 .. MaxWeight

\* Weights by flag, for any part of the flags; decay goes down to zero.
Weighings == UNION {[S -> 0 .. MaxWeight] : S \in SUBSET Flags}

NoFlags == [f \in {} |-> 0]

With(w, f, n) == [g \in DOMAIN w \cup {f} |-> IF g = f THEN n ELSE w[g]]

Without(w, f) == [g \in DOMAIN w \ {f} |-> w[g]]

\* An UPDATE of each flag of v.
Overwrite(w, v) == [g \in DOMAIN w |-> IF g \in DOMAIN v THEN v[g] ELSE w[g]]

ASSUME UserFlagsAssumption ==
    /\ Lasting \subseteq Flags
    /\ MaxWeight \in Nat
    /\ None \notin Procs \cup Flags
    /\ {Watch, Suspicious, HighRisk, Confirmed} \subseteq Nat
    /\ DecayEnabled \in BOOLEAN
    /\ MaxFaults \in Nat

\* What is used of a sum: it is zero of nothing, and grows by a new flag's weight.
ASSUME TotalAssumption ==
    /\ Total(NoFlags) = 0
    /\ \A w \in Weighings :
         /\ Total(w) \in Nat
         /\ \A f \in Flags \ DOMAIN w, n \in Weights :
              Total(With(w, f, n)) = Total(w) + n

VARIABLES
    \* committed rows
    weight, eff,   \* flags.weight and flags.effective_weight, by flag id
    score, level,
    born,          \* flag ids in use
    patched,       \* flags whose "flag_patch" key is in outbox_events
    drift,         \* (history) the last sum written was of flags that had changed
    \* row locks
    userLock, flagLock,
    \* each transaction's progress and local values
    pc, job, tgt, amt, seen,
    faults

rows  == <<weight, eff, score, level, born, patched, drift>>
locks == <<userLock, flagLock>>
local == <<pc, job, tgt, amt, seen>>
vars  == <<rows, locks, local, faults>>

Levels == {"CLEAN", "WATCH", "SUSPICIOUS", "HIGH_RISK", "CONFIRMED_CHEATER"}

LevelFromScore(s) ==
    IF s >= Confirmed THEN "CONFIRMED_CHEATER"
    ELSE IF s >= HighRisk THEN "HIGH_RISK"
    ELSE IF s >= Suspicious THEN "SUSPICIOUS"
    ELSE IF s >= Watch THEN "WATCH"
    ELSE "CLEAN"

\* The user's row as the upsert of the first report creates it.
Init ==
    /\ weight = NoFlags
    /\ eff = NoFlags
    /\ score = 0
    /\ level = "CLEAN"
    /\ born = {}
    /\ patched = {}
    /\ drift = FALSE
    /\ userLock = None
    /\ flagLock = [f \in Flags |-> None]
    /\ pc = [p \in Procs |-> "idle"]
    /\ job = [p \in Procs |-> "none"]
    /\ tgt = [p \in Procs |-> None]
    /\ amt = [p \in Procs |-> 0]
    /\ seen = [p \in Procs |-> NoFlags]
    /\ faults = 0

-----------------------------------------------------------------------------
(* Transactions.                                                           *)

Goto(p, step) == pc' = [pc EXCEPT ![p] = step]

Start(p, kind, step, f, n) ==
    /\ pc[p] = "idle"
    /\ Goto(p, step)
    /\ job' = [job EXCEPT ![p] = kind]
    /\ tgt' = [tgt EXCEPT ![p] = f]
    /\ amt' = [amt EXCEPT ![p] = n]
    /\ UNCHANGED <<rows, locks, seen, faults>>

StillLocked(p) == userLock

Unlocked(p) == IF userLock = p THEN None ELSE userLock

\* COMMIT or ROLLBACK: the locks go, and so do the local values.
Finish(p) ==
    /\ Goto(p, "idle")
    /\ userLock' = Unlocked(p)
    /\ flagLock' = [f \in Flags |-> IF flagLock[f] = p THEN None ELSE flagLock[f]]
    /\ job' = [job EXCEPT ![p] = "none"]
    /\ tgt' = [tgt EXCEPT ![p] = None]
    /\ amt' = [amt EXCEPT ![p] = 0]
    /\ seen' = [seen EXCEPT ![p] = NoFlags]

\* The aggregate as every writer leaves it.
SaveUser(s) == score' = s /\ level' = LevelFromScore(s)

NoRowLock(p) == TRUE

UserRowFree(p) == userLock \in {None, p}

-----------------------------------------------------------------------------
(* createFlag, createInstantReport, approve: lock the user's row first.    *)

BeginAdd(p, f, n) == f \notin born /\ Start(p, "add", "user", f, n)

\* The job does nothing unless it is enabled; it lists the users that have flags.
BeginDecay(p) ==
    DecayEnabled /\ DOMAIN weight # {} /\ Start(p, "decay", "user", None, 0)

\* lockUserRowForAggregateUpdate
LockUser(p) ==
    /\ pc[p] = "user"
    /\ UserRowFree(p)
    /\ userLock' = p
    /\ Goto(p, "write")
    /\ UNCHANGED <<rows, flagLock, job, tgt, amt, seen, faults>>

\* The flag and the aggregate, by increment.
CommitAdd(p) ==
    /\ pc[p] = "write"
    /\ job[p] = "add"
    /\ tgt[p] \notin born
    /\ born' = born \cup {tgt[p]}
    /\ weight' = With(weight, tgt[p], amt[p])
    /\ eff' = With(eff, tgt[p], amt[p])
    /\ SaveUser(score + amt[p])
    /\ Finish(p)
    /\ UNCHANGED <<patched, drift, faults>>

-----------------------------------------------------------------------------
(* deleteFlag and patchFlag: no lock on the user's row before the update.  *)

BeginDelete(p, f) == f \in DOMAIN weight /\ Start(p, "delete", "flag", f, 0)

BeginPatch(p, f, n) == f \in DOMAIN weight /\ Start(p, "patch", "flag", f, n)

\* A patch of the reason alone rewrites the aggregate as well.
BeginReason(p, f) == f \in DOMAIN weight /\ Start(p, "reason", "flag", f, 0)

\* The flag row is written, once whoever holds it has finished.
LockFlag(p) ==
    /\ pc[p] = "flag"
    /\ flagLock[tgt[p]] = None
    /\ tgt[p] \in DOMAIN weight
    /\ flagLock' = [flagLock EXCEPT ![tgt[p]] = p]
    /\ Goto(p, "sum")
    /\ UNCHANGED <<rows, userLock, job, tgt, amt, seen, faults>>

\* It has been deleted meanwhile (P2025).
FlagGone(p) ==
    /\ pc[p] = "flag"
    /\ flagLock[tgt[p]] = None
    /\ tgt[p] \notin DOMAIN weight
    /\ Finish(p)
    /\ UNCHANGED <<rows, faults>>

\* This transaction's own view of a column of "flags".
Edited(p, w) ==
    CASE job[p] = "delete" -> Without(w, tgt[p])
      [] job[p] = "patch"  -> With(w, tgt[p], amt[p])
      [] job[p] = "reason" -> w

EffectiveWeights == eff

\* recomputeUser: findMany sees the committed flags and its own edit.
SumFlags(p) ==
    /\ pc[p] = "sum"
    /\ seen' = [seen EXCEPT ![p] = Edited(p, EffectiveWeights)]
    /\ Goto(p, "store")
    /\ UNCHANGED <<rows, locks, job, tgt, amt, faults>>

Patches(p) == job[p] \in {"patch", "reason"}

\* recomputeUser's update waits for the row; then the outbox and COMMIT.
CommitEdit(p) ==
    /\ pc[p] = "store"
    /\ UserRowFree(p)
    /\ ~(Patches(p) /\ tgt[p] \in patched)
    /\ weight' = Edited(p, weight)
    /\ eff' = Edited(p, eff)
    /\ patched' = IF Patches(p) THEN patched \cup {tgt[p]} ELSE patched
    /\ SaveUser(Total(seen[p]))
    /\ drift' = (seen[p] # Edited(p, eff))
    /\ Finish(p)
    /\ UNCHANGED <<born, faults>>

\* The key of a second patch is taken (P2002): the whole transaction fails.
KeyTaken(p) ==
    /\ pc[p] = "store"
    /\ UserRowFree(p)
    /\ Patches(p)
    /\ tgt[p] \in patched
    /\ Finish(p)
    /\ UNCHANGED <<rows, faults>>

-----------------------------------------------------------------------------
(* runDecayJob, for this user.                                             *)

\* Every flag loses weight, whatever its source.
AllDecay(w) == \A f \in DOMAIN eff : w[f] <= eff[f]

\* effectiveWeightForFlag now: a flag loses weight with its age.
Decays(w) ==
    \A f \in DOMAIN eff :
         IF f \in Lasting THEN w[f] = weight[f] ELSE w[f] <= eff[f]

NoWeightChanged(w) == w = eff

NothingToDecay(w) == w = eff /\ Total(w) = score /\ LevelFromScore(score) = level

ReadFlags(p) ==
    /\ pc[p] = "write"
    /\ job[p] = "decay"
    /\ DOMAIN eff # {}
    /\ \E w \in [DOMAIN eff -> 0 .. MaxWeight] :
         /\ Decays(w)
         /\ ~NothingToDecay(w)
         /\ seen' = [seen EXCEPT ![p] = w]
    /\ Goto(p, "reweigh")
    /\ UNCHANGED <<rows, locks, job, tgt, amt, faults>>

SkipDecay(p) ==
    /\ pc[p] = "write"
    /\ job[p] = "decay"
    /\ NothingToDecay(eff) \/ DOMAIN eff = {}
    /\ Finish(p)
    /\ UNCHANGED <<rows, faults>>

CommitDecay(p) ==
    /\ pc[p] = "reweigh"
    /\ \A f \in DOMAIN seen[p] : flagLock[f] = None
    /\ eff' = Overwrite(eff, seen[p])
    /\ SaveUser(Total(seen[p]))
    /\ drift' = FALSE
    /\ Finish(p)
    /\ UNCHANGED <<weight, born, patched, faults>>

-----------------------------------------------------------------------------
\* The decay job holds the user and waits for a flag, an edit holds the flag
\* and waits for the user: Postgres fails either of them.
Deadlocked(d, a) ==
    /\ pc[d] = "reweigh"
    /\ pc[a] = "store"
    /\ flagLock[tgt[a]] = a
    /\ tgt[a] \in DOMAIN seen[d]

BreakDeadlock(p) ==
    /\ \E q \in Procs : Deadlocked(p, q) \/ Deadlocked(q, p)
    /\ Finish(p)
    /\ UNCHANGED <<rows, faults>>

\* A statement fails or the process dies; Postgres rolls back.
Abort(p) ==
    /\ pc[p] # "idle"
    /\ faults < MaxFaults
    /\ faults' = faults + 1
    /\ Finish(p)
    /\ UNCHANGED rows

-----------------------------------------------------------------------------
Add(p) == LockUser(p) \/ CommitAdd(p)

Edit(p) ==
    LockFlag(p) \/ FlagGone(p) \/ SumFlags(p) \/ CommitEdit(p) \/ KeyTaken(p)

Decay(p) == ReadFlags(p) \/ SkipDecay(p) \/ CommitDecay(p)

Next ==
    \/ \E p \in Posters, f \in Flags, n \in Weights : BeginAdd(p, f, n)
    \/ \E p \in Admins, f \in Flags :
         \/ BeginDelete(p, f) \/ BeginReason(p, f)
         \/ \E n \in Weights : BeginPatch(p, f, n)
    \/ \E p \in Decayers : BeginDecay(p)
    \/ \E p \in Procs : Add(p) \/ Edit(p) \/ Decay(p) \/ BreakDeadlock(p) \/ Abort(p)

Spec == Init /\ [][Next]_vars

\* Lock waits are served in turn and end in a grant or a deadlock report; where
\* the decay job is enabled it is run again and again.
Fairness ==
    /\ \A p \in Procs : SF_vars(Add(p) \/ Edit(p) \/ Decay(p) \/ BreakDeadlock(p))
    /\ \A p \in Decayers : WF_vars(BeginDecay(p))

FairSpec == Spec /\ Fairness

-----------------------------------------------------------------------------
(* What is expected of the aggregate.                                      *)

Jobs == {"none", "add", "delete", "patch", "reason", "decay"}
Steps == {"idle", "user", "write", "flag", "sum", "store", "reweigh"}

TypeOK ==
    /\ weight \in Weighings
    /\ eff \in Weighings
    /\ DOMAIN eff = DOMAIN weight
    /\ score \in Nat
    /\ level \in Levels
    /\ DOMAIN weight \subseteq born
    /\ born \subseteq Flags
    /\ patched \subseteq born
    /\ drift \in BOOLEAN
    /\ userLock \in Procs \cup {None}
    /\ flagLock \in [Flags -> Procs \cup {None}]
    /\ pc \in [Procs -> Steps]
    /\ job \in [Procs -> Jobs]
    /\ tgt \in [Procs -> Flags \cup {None}]
    /\ amt \in [Procs -> 0 .. MaxWeight]
    /\ seen \in [Procs -> Weighings]
    /\ faults \in Nat

\* The aggregate is the sum of the effective weights, and its level.
ScoreIsSumOfFlags == score = Total(eff) /\ level = LevelFromScore(score)

\* No concurrent report, flag, edit or decay pass is lost from the aggregate,
\* except by an edit that summed flags which changed before it had the user's
\* row (recomputeUser); the next absolute sum of current flags ends that.
ScoreIsRight == drift \/ ScoreIsSumOfFlags

\* What the decay job read stays as it is until it has written it, although an
\* edit does not lock the user first: no flag it updates can be gone, and no
\* weight it overwrites is newer than the one it read.
DecayReadsAreCurrent ==
    \A p \in Procs : pc[p] = "reweigh" =>
        DOMAIN seen[p] = DOMAIN eff /\ Decays(seen[p])

\* A request that started ends, whatever deadlock it runs into.
EveryRequestEnds == \A p \in Procs : pc[p] # "idle" ~> pc[p] = "idle"

\* A score that concurrent edits left wrong is put right by the decay job where
\* that is enabled, if the user has flags left and the edits stop.  Where it is
\* not, which is the default, only a later edit can put it right.
DecayHealsDrift ==
    DecayEnabled =>
        []<>(\/ ScoreIsSumOfFlags
             \/ DOMAIN eff = {}
             \/ \E p \in Admins : pc[p] # "idle")

\* What readers of the rows may rely on: the transactions take effect one by one,
\* and only an edit beside which another transaction runs may miscount.
Promise == INSTANCE Reputation WITH MayDrift <- \E p \in Admins, q \in Procs : p # q

ImplementsReputation == Promise!Spec

=============================================================================
