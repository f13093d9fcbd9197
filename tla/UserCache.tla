------------------------------ MODULE UserCache ------------------------------
(***************************************************************************)
(* The public profile of one user in Redis, beside its row in Postgres.    *)
(*                                                                         *)
(* Every committed write of the aggregate increments state_version while   *)
(* it holds the row's lock, so a snapshot of the row is identified by its  *)
(* version.  Redis keeps the profile (user:<id>), the version it was       *)
(* stored under (user:stver:<id>) and a negative marker (user:neg:<id>).   *)
(* A step is one awaited call; MULTI and Lua scripts are atomic.           *)
(*                                                                         *)
(* Readers serve GET /v1/user/:id, Reporters commit instant and approved   *)
(* reports, Editors create, patch and delete flags, Decayers are workers   *)
(* running the decay job, Repairers are operators calling repair.          *)
(***************************************************************************)
EXTENDS Naturals

CONSTANTS
    Readers, Reporters, Editors, Decayers, Repairers,
    None,          \* no row, no key
    MaxVersion,    \* bound on state_version
    SlowRequests,  \* may a request outlive USER_CACHE_TTL_SEC?
    MaxFaults      \* bound on requests that die or whose Redis call fails

Procs == Readers \cup Reporters \cup Editors \cup Decayers \cup Repairers

Versions == 0 .. MaxVersion

\* What is assumed of the constants.
UserCacheConstants ==
    /\ MaxVersion \in Nat
    /\ None \notin Versions
    /\ SlowRequests \in BOOLEAN
    /\ MaxFaults \in Nat

VARIABLES
    row,     \* state_version of the user's row
    cached,  \* version of the profile stored in Redis
    stver,   \* the version key
    neg,     \* is the negative marker set?
    pc,
    seen,    \* the snapshot a request has in hand
    faults

redis == <<cached, stver, neg>>
vars  == <<row, redis, pc, seen, faults>>

Init ==
    /\ row \in {None, 0}
    /\ cached = None
    /\ stver = None
    /\ neg = FALSE
    /\ pc = [p \in Procs |-> "idle"]
    /\ seen = [p \in Procs |-> None]
    /\ faults = 0

Goto(p, step) == pc' = [pc EXCEPT ![p] = step]

Have(p, v) == seen' = [seen EXCEPT ![p] = v]

Done(p) == Goto(p, "idle") /\ Have(p, None)

-----------------------------------------------------------------------------
(* UserCacheService.                                                       *)

Store(v) == cached' = v /\ stver' = v /\ neg' = FALSE

StoreUnversioned(v) == cached' = v /\ neg' = FALSE /\ UNCHANGED stver

SetAuthoritative(v) == Store(v)

\* SET_IF_NEWER_LUA
SetIfNewer(v) ==
    IF stver # None /\ stver > v
    THEN UNCHANGED redis
    ELSE Store(v)

SetNegativeMarker == neg' = TRUE /\ UNCHANGED <<cached, stver>>

Invalidate == cached' = None /\ stver' = None /\ neg' = FALSE

\* The worker's DEL leaves the version key.
DecayInvalidate == cached' = None /\ neg' = FALSE /\ UNCHANGED stver

-----------------------------------------------------------------------------
(* getPublicByDiscordId: read through.                                     *)

\* A hit is the answer.
Lookup(p) ==
    /\ pc[p] = "idle"
    /\ cached = None
    /\ Goto(p, "neg")
    /\ UNCHANGED <<row, redis, seen, faults>>

LookupNegative(p) ==
    /\ pc[p] = "neg"
    /\ Goto(p, IF neg THEN "idle" ELSE "db")
    /\ UNCHANGED <<row, redis, seen, faults>>

ReadRow(p) ==
    /\ pc[p] = "db"
    /\ Have(p, row)
    /\ Goto(p, "fill")
    /\ UNCHANGED <<row, redis, faults>>

Fill(p) ==
    /\ pc[p] = "fill"
    /\ IF seen[p] = None THEN SetNegativeMarker ELSE SetAuthoritative(seen[p])
    /\ Done(p)
    /\ UNCHANGED <<row, faults>>

-----------------------------------------------------------------------------
(* The writers of the aggregate, and what each does to Redis afterwards.   *)

\* The upsert of a pending report: a clean row, and no word to the cache.
CreateRow ==
    /\ row = None
    /\ row' = 0
    /\ UNCHANGED <<redis, pc, seen, faults>>

\* stateVersion: { increment: 1 }, on a row that is created if there is none.
Bumped(v) == IF v = None THEN 1 ELSE v + 1

\* COMMIT of a transaction that wrote the aggregate.
Commit(p, after) ==
    /\ pc[p] = "idle"
    /\ MaxVersion > 0 /\ row # MaxVersion
    /\ row' = Bumped(row)
    /\ Have(p, row')
    /\ Goto(p, after)
    /\ UNCHANGED <<redis, faults>>

CommitReport(p) == Commit(p, "store")

CommitEdit(p) == Commit(p, "refresh")

CommitDecay(p) == row \notin {None, 0} /\ Commit(p, "drop")

\* setIfNewer with the snapshot of the transaction.
StoreReport(p) ==
    /\ pc[p] = "store"
    /\ SetIfNewer(seen[p])
    /\ Done(p)
    /\ UNCHANGED <<row, faults>>

Drop(p) ==
    /\ pc[p] = "drop"
    /\ DecayInvalidate
    /\ Done(p)
    /\ UNCHANGED <<row, faults>>

\* refreshPublicCache after an edit, or alone (repair).
Repair(p) ==
    /\ pc[p] = "idle"
    /\ Goto(p, "refresh")
    /\ UNCHANGED <<row, redis, seen, faults>>

RefreshRead(p) ==
    /\ pc[p] = "refresh"
    /\ Have(p, row)
    /\ Goto(p, "set")
    /\ UNCHANGED <<row, redis, faults>>

RefreshStore(p) ==
    /\ pc[p] = "set"
    /\ IF seen[p] = None THEN Invalidate ELSE SetAuthoritative(seen[p])
    /\ Done(p)
    /\ UNCHANGED <<row, faults>>

-----------------------------------------------------------------------------
Quiet == \A p \in Procs : pc[p] = "idle"

NeverExpires == FALSE

\* USER_CACHE_TTL_SEC is minutes, a request takes milliseconds.
MayExpire == SlowRequests \/ Quiet

\* The profile and its version are stored with one TTL.
Expire ==
    /\ MayExpire
    /\ stver # None
    /\ cached' = None
    /\ stver' = None
    /\ UNCHANGED <<row, neg, pc, seen, faults>>

ExpireNegative ==
    /\ neg
    /\ neg' = FALSE
    /\ UNCHANGED <<row, cached, stver, pc, seen, faults>>

\* The process dies, or Redis refuses the call: the rest is not done.
Die(p) ==
    /\ pc[p] # "idle"
    /\ faults < MaxFaults
    /\ faults' = faults + 1
    /\ Done(p)
    /\ UNCHANGED <<row, redis>>

Advance(p) ==
    \/ LookupNegative(p) \/ ReadRow(p) \/ Fill(p)
    \/ StoreReport(p) \/ Drop(p)
    \/ RefreshRead(p) \/ RefreshStore(p)

Next ==
    \/ \E p \in Readers : Lookup(p)
    \/ \E p \in Reporters : CommitReport(p)
    \/ \E p \in Editors : CommitEdit(p)
    \/ \E p \in Decayers : CommitDecay(p)
    \/ \E p \in Repairers : Repair(p)
    \/ \E p \in Procs : Advance(p) \/ Die(p)
    \/ CreateRow \/ Expire \/ ExpireNegative

Spec == Init /\ [][Next]_vars

\* Requests proceed and keys expire.
Fairness ==
    /\ \A p \in Procs : WF_vars(Advance(p))
    /\ WF_vars(Expire) /\ WF_vars(ExpireNegative)

FairSpec == Spec /\ Fairness

-----------------------------------------------------------------------------
(* What is expected of the cache.                                          *)

Steps == {"idle", "neg", "db", "fill", "store", "refresh", "set", "drop"}

TypeOK ==
    /\ row \in Versions \cup {None}
    /\ cached \in Versions \cup {None}
    /\ stver \in Versions \cup {None}
    /\ neg \in BOOLEAN
    /\ pc \in [Procs -> Steps]
    /\ seen \in [Procs -> Versions \cup {None}]
    /\ faults \in Nat

\* A stored profile is one that was committed, and the version key that guards
\* it is its own, whoever stored, dropped or expired either.
EntryIsGuarded ==
    cached # None =>
        /\ stver = cached
        /\ row # None
        /\ cached <= row

\* A report is stored after its transaction, when later ones may have been
\* stored already: it never replaces a profile by an older one, whoever stored it.
ReportNeverGoesBack ==
    [][(\E p \in Procs : StoreReport(p)) /\ cached # None => cached' >= cached]_vars

\* What validate looks for: the stored profile is the row's.
Aligned == cached \in {None, row}

\* Whatever stale profile, or marker for a user that has flags by now, is left
\* by races and crashes, it goes for good once the writes stop.
CacheConverges ==
    <>[](Aligned /\ (neg => row \in {None, 0}))

=============================================================================
