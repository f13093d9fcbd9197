----------------------------- MODULE ReportIntake -----------------------------
(***************************************************************************)
(* The limits on the reports of one reporter: the lookup of duplicates,    *)
(* the day counter and the cooldown of ReportsAntiAbuseService, and the    *)
(* transaction they guard.  Every call to Redis and to Postgres is a step  *)
(* of its own; requests run concurrently and may die between two calls.    *)
(*                                                                         *)
(* A report is known by its dedupe key: the scope (a guild, or the global  *)
(* scope of the instant path) and what is reported.  The requests of other *)
(* reporters use other keys of Redis and other dedupe keys.                *)
(*                                                                         *)
(* "holding" to "older" below are not in the code but say what the counter *)
(* and the marker are there to bound.                                      *)
(***************************************************************************)
EXTENDS Integers, FiniteSets

CONSTANTS
    Requests,
    Scopes,        \* guilds, and the scope without one
    Instant,       \* the scopes whose reports take effect at once
    Subjects,      \* who is reported, and why
    MaxPerDay,     \* REPORT_MAX_PER_REPORTER_DAY
    SlowRequests,  \* TRUE: two requests may take longer than the cooldown
    None,
    MaxFaults      \* bound on dead requests and failed calls

ASSUME IntakeAssumption ==
    /\ IsFiniteSet(Requests)
    /\ Instant \subseteq Scopes
    /\ MaxPerDay \in Nat
    /\ SlowRequests \in BOOLEAN
    /\ None \notin Int
    /\ None \notin Scopes \X Subjects
    /\ MaxFaults \in Nat

Keys == Scopes \X Subjects

VARIABLES
    day,       \* value of the day counter, None when the key does not exist
    expiring,  \* has the day counter a time to live?
    cooldown,  \* scopes whose cooldown marker exists
    recent,    \* per dedupe key, the reports younger than the dedupe window
    pc, key,   \* a request: its next call, and its report
    holding,   \* requests that were counted in this life of the day counter
    accepted,  \* reports stored by such requests
    stray,     \* decrements that gave back what was not held any more
    since,     \* per scope, reports stored since a marker last expired
    undone,    \* scopes where the slots of a stored report were given back
    older,     \* per scope, requests begun before the one that set the marker ended
    faults

redis    == <<day, expiring, cooldown>>
ghosts   == <<holding, accepted, stray, since, undone, older>>
requests == <<pc, key>>
vars     == <<redis, recent, requests, ghosts, faults>>

Init ==
    /\ day = None
    /\ expiring = FALSE
    /\ cooldown = {}
    /\ recent = [k \in Keys |-> 0]
    /\ pc = [p \in Requests |-> "idle"]
    /\ key = [p \in Requests |-> None]
    /\ holding = {}
    /\ accepted = 0
    /\ stray = 0
    /\ since = [s \in Scopes |-> 0]
    /\ undone = {}
    /\ older = [s \in Scopes |-> {}]
    /\ faults = 0

Scope(p) == key[p][1]

Goto(p, step) == pc' = [pc EXCEPT ![p] = step] /\ UNCHANGED <<key, older>>

\* The request is answered, or gone.
Leave(p) ==
    /\ pc' = [pc EXCEPT ![p] = "idle"]
    /\ key' = [key EXCEPT ![p] = None]
    /\ older' = [s \in Scopes |-> older[s] \ {p}]

Fault ==
    /\ faults < MaxFaults
    /\ faults' = faults + 1

-----------------------------------------------------------------------------
(* assertCanReport                                                         *)

\* A request that has set the marker of s is still running.
Guarded(s) == \E q \in Requests : pc[q] \in {"store", "cache", "clear"} /\ Scope(q) = s

Begin(p, k) ==
    /\ pc[p] = "idle"
    /\ pc' = [pc EXCEPT ![p] = "lookup"]
    /\ key' = [key EXCEPT ![p] = k]
    /\ older' = [older EXCEPT ![k[1]] = IF Guarded(k[1]) THEN @ \cup {p} ELSE @]
    /\ UNCHANGED <<redis, recent, holding, accepted, stray, since, undone, faults>>

NeverKnown(k) == FALSE

\* prismaDedupeLookup: a report with this key inside the window.
Known(k) == recent[k] > 0

\* A duplicate is refused, and so is everything while Redis is not there.
Lookup(p) ==
    /\ pc[p] = "lookup"
    /\ \/ Leave(p)
       \/ ~Known(key[p]) /\ Goto(p, "incr")
    /\ UNCHANGED <<redis, recent, holding, accepted, stray, since, undone, faults>>

Counted == IF day = None THEN 0 ELSE day

OffByOne(n) == n > MaxPerDay + 1

OverCap(n) == n > MaxPerDay

Incr(p) ==
    /\ pc[p] = "incr"
    /\ day' = Counted + 1
    /\ Goto(p, IF day' = 1 THEN "expire" ELSE IF OverCap(day') THEN "refund" ELSE "cooldown")
    /\ holding' = holding \cup {p}
    /\ UNCHANGED <<expiring, cooldown, recent, accepted, stray, since, undone, faults>>

HasCounter == day # None

\* EXPIRE, called when INCR returned 1; the key may have gone since.
Expire(p) ==
    /\ pc[p] = "expire"
    /\ expiring' = HasCounter
    /\ Goto(p, IF OverCap(1) THEN "refund" ELSE "cooldown")
    /\ UNCHANGED <<day, cooldown, recent, holding, accepted, stray, since, undone, faults>>

RefusedAndCleared(p) == Goto(p, "refund") /\ cooldown' = cooldown \ {Scope(p)}

Refused(p) == Goto(p, "refund") /\ UNCHANGED cooldown

\* SET NX of the marker; a taken marker gives the count back.
TakeCooldown(p) ==
    /\ pc[p] = "cooldown"
    /\ \/ /\ Scope(p) \in cooldown
          /\ Refused(p)
       \/ /\ Scope(p) \notin cooldown
          /\ cooldown' = cooldown \cup {Scope(p)}
          /\ pc' = [pc EXCEPT ![p] = "store"]
          /\ older' = [older EXCEPT ![Scope(p)] =
                          {q \in Requests : pc[q] # "idle" /\ Scope(q) = Scope(p)}]
          /\ UNCHANGED key
    /\ UNCHANGED <<day, expiring, recent, holding, accepted, stray, since, undone, faults>>

\* DECR, of a counter that may have gone meanwhile.
Decrement(p) ==
    /\ day' = Counted - 1
    /\ holding' = holding \ {p}
    /\ stray' = IF p \in holding THEN stray ELSE stray + 1

Refund(p) ==
    /\ pc[p] = "refund"
    /\ Decrement(p)
    /\ Leave(p)
    /\ UNCHANGED <<expiring, cooldown, recent, accepted, since, undone, faults>>

-----------------------------------------------------------------------------
(* createPendingReport, createInstantReport                                *)

Committed(p) ==
    /\ recent' = [recent EXCEPT ![key[p]] = @ + 1]
    /\ since' = [since EXCEPT ![Scope(p)] = @ + 1]
    /\ accepted' = IF p \in holding THEN accepted + 1 ELSE accepted
    /\ holding' = holding \ {p}

\* The transaction commits; after an instant report the cache is written too.
Store(p) ==
    /\ pc[p] = "store"
    /\ Committed(p)
    /\ IF Scope(p) \in Instant THEN Goto(p, "cache") ELSE Leave(p)
    /\ UNCHANGED <<redis, stray, undone, faults>>

\* The transaction is rolled back, or commits and its reply is lost; the catch
\* block takes over.
StoreFails(p) ==
    /\ pc[p] = "store"
    /\ Fault
    /\ Goto(p, "clear")
    /\ \/ UNCHANGED <<recent, since, accepted, holding, undone>>
       \/ Committed(p) /\ undone' = undone \cup {Scope(p)}
    /\ UNCHANGED <<redis, stray>>

\* setIfNewer is inside the try block: when it throws, the slots of a stored
\* report are given back.
WriteCache(p) ==
    /\ pc[p] = "cache"
    /\ \/ Leave(p) /\ UNCHANGED <<undone, faults>>
       \/ Fault /\ Goto(p, "clear") /\ undone' = undone \cup {Scope(p)}
    /\ UNCHANGED <<redis, recent, holding, accepted, stray, since>>

\* rollbackSlots: DEL of the marker, DECR of the counter.
Clear(p) ==
    /\ pc[p] = "clear"
    /\ cooldown' = cooldown \ {Scope(p)}
    /\ Goto(p, "refund")
    /\ UNCHANGED <<day, expiring, recent, holding, accepted, stray, since, undone, faults>>

-----------------------------------------------------------------------------
(* Time and failures                                                       *)

\* The process dies, or a call that no catch block covers throws.
Die(p) ==
    /\ pc[p] # "idle"
    /\ Fault
    /\ Leave(p)
    /\ holding' = holding \ {p}
    /\ UNCHANGED <<redis, recent, accepted, stray, since, undone>>

DayEnds ==
    /\ expiring
    /\ day' = None
    /\ expiring' = FALSE
    /\ holding' = {}
    /\ accepted' = 0
    /\ stray' = 0
    /\ UNCHANGED <<cooldown, recent, requests, since, undone, older, faults>>

\* A marker lives longer than the request that set it and those that were
\* begun before that one ended.
CooldownEnds(s) ==
    /\ s \in cooldown
    /\ SlowRequests \/ older[s] = {}
    /\ cooldown' = cooldown \ {s}
    /\ since' = [since EXCEPT ![s] = 0]
    /\ UNCHANGED <<day, expiring, recent, requests, holding, accepted, stray, undone, older, faults>>

\* A report leaves the dedupe window.
Age(k) ==
    /\ recent[k] > 0
    /\ recent' = [recent EXCEPT ![k] = @ - 1]
    /\ UNCHANGED <<redis, requests, ghosts, faults>>

Request(p) ==
    \/ Lookup(p) \/ Incr(p) \/ Expire(p) \/ TakeCooldown(p) \/ Refund(p)
    \/ Store(p) \/ StoreFails(p) \/ WriteCache(p) \/ Clear(p) \/ Die(p)

Next ==
    \/ \E p \in Requests : Request(p) \/ \E k \in Keys : Begin(p, k)
    \/ DayEnds
    \/ \E s \in Scopes : CooldownEnds(s)
    \/ \E k \in Keys : Age(k)

Spec == Init /\ [][Next]_vars

-----------------------------------------------------------------------------
Steps == {"idle", "lookup", "incr", "expire", "cooldown", "store", "cache", "clear", "refund"}

\* Redis, the reports and the requests keep their types; a counter that is
\* not there has no time to live.
TypeOK ==
    /\ day \in Int \cup {None}
    /\ expiring \in BOOLEAN /\ (expiring => day # None)
    /\ cooldown \in SUBSET Scopes
    /\ recent \in [Keys -> Nat]
    /\ pc \in [Requests -> Steps]
    /\ key \in [Requests -> Keys \cup {None}]
    /\ \A p \in Requests : key[p] = None <=> pc[p] = "idle"
    /\ holding \in SUBSET Requests
    /\ accepted \in Nat
    /\ stray \in Nat
    /\ since \in [Scopes -> Nat]
    /\ undone \in SUBSET Scopes
    /\ older \in [Scopes -> SUBSET Requests]
    /\ faults \in 0..MaxFaults

\* While one day counter lives, the reporter gets at most MaxPerDay reports
\* in, and one more for every decrement that gave back a slot of an earlier
\* counter or of a stored report: nothing else can undercut the counter.
CapHolds == accepted <= MaxPerDay + stray

\* At most one report per scope is stored until a cooldown has run out,
\* whatever requests race, fail and give their slots back, unless one gave
\* back the slots of a report that was stored.
ReportsAreSpaced == \A s \in Scopes \ undone : since[s] <= 1

\* With the same exception a reporter never has two reports with one dedupe key
\* inside the window: what the lookup cannot see, a report about to commit,
\* the marker keeps out.
NoDuplicateReports == \A k \in Keys : k[1] \notin undone => recent[k] <= 1

=============================================================================
