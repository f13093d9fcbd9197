------------------------------- MODULE Outbox -------------------------------
(***************************************************************************)
(* The transactional outbox of apps/worker/src/dispatch.ts and the         *)
(* operator's outbox-safe-requeue.ts.  API transactions insert PENDING     *)
(* rows into outbox_events; N worker processes reclaim, claim and dispatch *)
(* them, one awaited call per step; an operator may requeue FAILED rows.   *)
(*                                                                         *)
(* A row is a column per variable (status, attempts, ...), indexed by its  *)
(* id; ids are numbers in created_at order.  Clock readings are abstracted *)
(* to "has the lease of this row run out" and "is this row still backing   *)
(* off", changed by the actions LeaseExpires and BackoffElapses.           *)
(*                                                                         *)
(* Environment bound: at most MaxFaults crashes and failed calls.          *)
(***************************************************************************)
EXTENDS Naturals, Sequences, FiniteSets

CONSTANTS
    Events,           \* row ids, ordered as created_at
    Unknown,          \* rows whose type isDomainEventType does not know
    Workers,          \* worker processes
    Operators,        \* people running outbox-safe-requeue --apply
    None,             \* "no row"
    MaxAttempts,      \* OUTBOX_MAX_ATTEMPTS
    BatchSize,        \* OUTBOX_BATCH_SIZE
    SlowWorkers,      \* TRUE: a batch may outlive PROCESSING_LEASE_SEC
    EarlyMarkerLoss,  \* TRUE: Redis may lose a marker Postgres still needs
    MaxFaults         \* bound on crashes and failed calls

ASSUME OutboxAssumption ==
    /\ Events \subseteq Nat
    /\ Unknown \subseteq Events
    /\ None \notin Events
    /\ MaxAttempts \in Nat
    /\ BatchSize \in Nat
    /\ SlowWorkers \in BOOLEAN
    /\ EarlyMarkerLoss \in BOOLEAN
    /\ MaxFaults \in Nat

VARIABLES
    \* outbox_events and processed_events (Postgres)
    status, attempts,
    lease,      \* processing_started_at: "none", "fresh" or past the cutoff
    backoff,    \* next_retry_at lies in the future
    processed,  \* event ids in processed_events
    \* Redis
    marker,     \* ids with protect:event:processed:{id} = '1'
    fanout,     \* history of PUBLISH + XADD, one entry per applied bundle
    \* each worker's stack
    pc,
    todo,       \* claimed rows the batch has not reached
    cur,        \* row being dispatched
    snap,       \* attempts as returned by the claim
    \* each requeue run's stack
    opPc, opList, opCur,
    faults

row   == <<status, attempts, lease, backoff>>
redis == <<marker, fanout>>
stack == <<pc, todo, cur, snap>>
op    == <<opPc, opList, opCur>>
vars  == <<row, processed, redis, stack, op, faults>>

Statuses == {"ABSENT", "PENDING", "PROCESSING", "DISPATCHED", "FAILED"}
Steps == {"down", "idle", "claim", "next", "processed", "marker", "reconcile",
          "publish", "finalize", "count", "catch"}

FannedOut == {fanout[i] : i \in DOMAIN fanout}

\* e is in worker w's batch and not yet left behind.
Holds(w, e) == e \in todo[w] \/ cur[w] = e
Held(e) == \E w \in Workers : Holds(w, e)

Init ==
    /\ status = [e \in Events |-> "ABSENT"]
    /\ attempts = [e \in Events |-> 0]
    /\ lease = [e \in Events |-> "none"]
    /\ backoff = [e \in Events |-> FALSE]
    /\ processed = {}
    /\ marker = {}
    /\ fanout = << >>
    /\ pc = [w \in Workers |-> "idle"]
    /\ todo = [w \in Workers |-> {}]
    /\ cur = [w \in Workers |-> None]
    /\ snap = [w \in Workers |-> [e \in Events |-> 0]]
    /\ opPc = [o \in Operators |-> "idle"]
    /\ opList = [o \in Operators |-> {}]
    /\ opCur = [o \in Operators |-> None]
    /\ faults = 0

-----------------------------------------------------------------------------
(* The environment: API transactions, time, failures.                      *)

\* A domain transaction commits with its outbox row.
Enqueue(e) ==
    /\ status[e] = "ABSENT"
    /\ status' = [status EXCEPT ![e] = "PENDING"]
    /\ UNCHANGED <<attempts, lease, backoff, processed, redis, stack, op, faults>>

\* PROCESSING_LEASE_SEC has passed since the claim.  Unless SlowWorkers, the
\* lease is tuned so that a live worker finishes its batch first.
LeaseExpires(e) ==
    /\ lease[e] = "fresh"
    /\ SlowWorkers \/ ~Held(e)
    /\ lease' = [lease EXCEPT ![e] = "stale"]
    /\ UNCHANGED <<status, attempts, backoff, processed, redis, stack, op, faults>>

BackoffElapses(e) ==
    /\ backoff[e]
    /\ backoff' = [backoff EXCEPT ![e] = FALSE]
    /\ UNCHANGED <<status, attempts, lease, processed, redis, stack, op, faults>>

\* The marker's TTL ends, or Redis comes back without it.
MarkerLost(e) ==
    /\ e \in marker
    /\ EarlyMarkerLoss \/ e \in processed
    /\ marker' = marker \ {e}
    /\ UNCHANGED <<row, processed, fanout, stack, op, faults>>

Fault ==
    /\ faults < MaxFaults
    /\ faults' = faults + 1

-----------------------------------------------------------------------------
(* A worker's pass: processOutboxBatch.                                    *)

Goto(w, step) == pc' = [pc EXCEPT ![w] = step]

\* The row is left behind and the loop goes on with the next one.
NextRow(w) ==
    /\ Goto(w, "next")
    /\ cur' = [cur EXCEPT ![w] = None]
    /\ UNCHANGED <<todo, snap>>

NoCutoff == {e \in Events : status[e] = "PROCESSING"}

NoReclaim == {}

StaleRows == {e \in Events : status[e] = "PROCESSING" /\ lease[e] = "stale"}

\* reclaimStaleProcessing
Reclaim(w) ==
    /\ pc[w] = "idle"
    /\ status' = [e \in Events |-> IF e \in StaleRows THEN "PENDING" ELSE status[e]]
    /\ lease' = [e \in Events |-> IF e \in StaleRows THEN "none" ELSE lease[e]]
    /\ Goto(w, "claim")
    /\ UNCHANGED <<attempts, backoff, processed, redis, todo, cur, snap, op, faults>>

Claimable == {e \in Events : status[e] = "PENDING" /\ ~backoff[e]}

\* The LIMIT oldest claimable rows (two claims never see the same one: the
\* second skips the rows the first has locked).
Oldest(S) ==
    /\ S \subseteq Claimable
    /\ \A e \in S, f \in Claimable \ S : e < f
    /\ Cardinality(S) <= BatchSize
    /\ Cardinality(S) < BatchSize => S = Claimable

\* claimOutboxBatch: one UPDATE ... RETURNING; the returned rows come back in
\* no particular order.
Claim(w) ==
    /\ pc[w] = "claim"
    /\ \E S \in SUBSET Claimable :
        /\ Oldest(S)
        /\ status' = [e \in Events |-> IF e \in S THEN "PROCESSING" ELSE status[e]]
        /\ lease' = [e \in Events |-> IF e \in S THEN "fresh" ELSE lease[e]]
        /\ todo' = [todo EXCEPT ![w] = S]
        /\ snap' = [snap EXCEPT ![w] = [e \in Events |-> IF e \in S THEN attempts[e] ELSE 0]]
    /\ Goto(w, "next")
    /\ UNCHANGED <<attempts, backoff, processed, redis, cur, op, faults>>

OffByOne(n) == n > MaxAttempts

Exhausted(n) == n >= MaxAttempts

\* dispatchOne, the two early FAILED updates.
GiveUp(w, e) ==
    /\ pc[w] = "next"
    /\ e \in todo[w]
    /\ Exhausted(snap[w][e]) \/ e \in Unknown
    /\ status' = [status EXCEPT ![e] = "FAILED"]
    /\ lease' = [lease EXCEPT ![e] = "none"]
    /\ todo' = [todo EXCEPT ![w] = @ \ {e}]
    /\ UNCHANGED <<attempts, backoff, processed, redis, pc, cur, snap, op, faults>>

Take(w, e) == Goto(w, "processed") /\ cur' = [cur EXCEPT ![w] = e]

\* dispatchOne reads the row's status: DISPATCHED rows are skipped.
CheckStatus(w, e) ==
    /\ pc[w] = "next"
    /\ e \in todo[w]
    /\ ~Exhausted(snap[w][e])
    /\ e \notin Unknown
    /\ todo' = [todo EXCEPT ![w] = @ \ {e}]
    /\ \/ status[e] = "DISPATCHED" /\ UNCHANGED <<pc, cur>>
       \/ status[e] # "DISPATCHED" /\ Take(w, e)
    /\ UNCHANGED <<row, processed, redis, snap, op, faults>>

CheckProcessed(w) ==
    /\ pc[w] = "processed"
    /\ Goto(w, IF cur[w] \in processed THEN "reconcile" ELSE "marker")
    /\ UNCHANGED <<row, processed, redis, todo, cur, snap, op, faults>>

MarkerNotRead(e) == FALSE

MarkerSet(e) == e \in marker

CheckMarker(w) ==
    /\ pc[w] = "marker"
    /\ Goto(w, IF MarkerSet(cur[w]) THEN "reconcile" ELSE "publish")
    /\ UNCHANGED <<row, processed, redis, todo, cur, snap, op, faults>>

\* The MULTI/EXEC bundle PUBLISH, XADD, SET marker: applied, applied with the
\* reply lost, or not applied.
Bundle(e) ==
    /\ fanout' = Append(fanout, e)
    /\ marker' = marker \cup {e}

Publish(w) ==
    /\ pc[w] = "publish"
    /\ \/ Bundle(cur[w]) /\ Goto(w, "finalize") /\ UNCHANGED faults
       \/ Bundle(cur[w]) /\ Goto(w, "catch") /\ Fault
       \/ UNCHANGED redis /\ Goto(w, "catch") /\ Fault
    /\ UNCHANGED <<row, processed, todo, cur, snap, op>>

ForgetProcessed(e) ==
    /\ status' = [status EXCEPT ![e] = "DISPATCHED"]
    /\ lease' = [lease EXCEPT ![e] = "none"]
    /\ backoff' = [backoff EXCEPT ![e] = FALSE]
    /\ UNCHANGED processed

\* finalizeDispatched: both tables in one transaction.
FinalizeDispatched(e) ==
    /\ status' = [status EXCEPT ![e] = "DISPATCHED"]
    /\ lease' = [lease EXCEPT ![e] = "none"]
    /\ backoff' = [backoff EXCEPT ![e] = FALSE]
    /\ processed' = processed \cup {e}

\* Finalisation inside the try block, its failure caught.
Finalize(w) ==
    /\ pc[w] = "finalize"
    /\ \/ FinalizeDispatched(cur[w]) /\ Goto(w, "count") /\ UNCHANGED faults
       \/ FinalizeDispatched(cur[w]) /\ Goto(w, "catch") /\ Fault
       \/ UNCHANGED <<status, lease, backoff, processed>> /\ Goto(w, "catch") /\ Fault
    /\ UNCHANGED <<attempts, redis, todo, cur, snap, op>>

\* redis.incr of the statistics counter, still inside the try block.
Count(w) ==
    /\ pc[w] = "count"
    /\ \/ NextRow(w) /\ UNCHANGED faults
       \/ Goto(w, "catch") /\ Fault /\ UNCHANGED <<todo, cur, snap>>
    /\ UNCHANGED <<row, processed, redis, op>>

\* Finalisation of a row another pass already fanned out (outside the try).
Reconcile(w) ==
    /\ pc[w] = "reconcile"
    /\ FinalizeDispatched(cur[w])
    /\ NextRow(w)
    /\ UNCHANGED <<attempts, redis, op, faults>>

\* The catch block: decides on the claim's snapshot of attempts, and writes
\* the row whatever its status has become.
Catch(w) ==
    /\ pc[w] = "catch"
    /\ LET e == cur[w] IN
        /\ status' = [status EXCEPT ![e] =
                        IF Exhausted(snap[w][e] + 1) THEN "FAILED" ELSE "PENDING"]
        /\ attempts' = [attempts EXCEPT ![e] = @ + 1]
        /\ backoff' = [backoff EXCEPT ![e] = TRUE]
        /\ lease' = [lease EXCEPT ![e] = "none"]
    /\ NextRow(w)
    /\ UNCHANGED <<processed, redis, op, faults>>

EndBatch(w) ==
    /\ pc[w] = "next"
    /\ todo[w] = {}
    /\ Goto(w, "idle")
    /\ UNCHANGED <<row, processed, redis, todo, cur, snap, op, faults>>

Leave(w, step) ==
    /\ Goto(w, step)
    /\ todo' = [todo EXCEPT ![w] = {}]
    /\ cur' = [cur EXCEPT ![w] = None]
    /\ Fault
    /\ UNCHANGED <<row, processed, redis, snap, op>>

\* A call outside the try block throws: the main loop logs it and the rest of
\* the batch stays PROCESSING.
AbortBatch(w) ==
    /\ pc[w] \in {"claim", "next", "processed", "marker", "reconcile", "catch"}
    /\ Leave(w, "idle")

Crash(w) ==
    /\ pc[w] # "down"
    /\ Leave(w, "down")

Restart(w) ==
    /\ pc[w] = "down"
    /\ Goto(w, "idle")
    /\ UNCHANGED <<row, processed, redis, todo, cur, snap, op, faults>>

-----------------------------------------------------------------------------
(* outbox-safe-requeue.ts --apply                                          *)

OpGoto(o, step, e) ==
    /\ opPc' = [opPc EXCEPT ![o] = step]
    /\ opCur' = [opCur EXCEPT ![o] = e]

\* The filters of the command line select any part of the FAILED rows.
OpScan(o) ==
    /\ opPc[o] = "idle"
    /\ \E S \in SUBSET {e \in Events : status[e] = "FAILED"} :
        /\ S # {}
        /\ opList' = [opList EXCEPT ![o] = S]
    /\ OpGoto(o, "next", None)
    /\ UNCHANGED <<row, processed, redis, stack, faults>>

OpCheckProcessed(o, e) ==
    /\ opPc[o] = "next"
    /\ e \in opList[o]
    /\ opList' = [opList EXCEPT ![o] = @ \ {e}]
    /\ IF e \in processed THEN OpGoto(o, "next", None) ELSE OpGoto(o, "marker", e)
    /\ UNCHANGED <<row, processed, redis, stack, faults>>

OpCheckMarker(o) ==
    /\ opPc[o] = "marker"
    /\ IF opCur[o] \in marker
       THEN OpGoto(o, "next", None)
       ELSE OpGoto(o, "apply", opCur[o])
    /\ UNCHANGED <<row, processed, redis, stack, opList, faults>>

OpApply(o) ==
    /\ opPc[o] = "apply"
    /\ status' = [status EXCEPT ![opCur[o]] = "PENDING"]
    /\ attempts' = [attempts EXCEPT ![opCur[o]] = 0]
    /\ backoff' = [backoff EXCEPT ![opCur[o]] = FALSE]
    /\ lease' = [lease EXCEPT ![opCur[o]] = "none"]
    /\ OpGoto(o, "next", None)
    /\ UNCHANGED <<processed, redis, stack, opList, faults>>

\* The list is done, or a failed call ends the script.
OpDone(o) ==
    /\ \/ opPc[o] = "next" /\ opList[o] = {} /\ UNCHANGED faults
       \/ opPc[o] # "idle" /\ Fault
    /\ opList' = [opList EXCEPT ![o] = {}]
    /\ OpGoto(o, "idle", None)
    /\ UNCHANGED <<row, processed, redis, stack>>

-----------------------------------------------------------------------------
Environment(e) ==
    Enqueue(e) \/ LeaseExpires(e) \/ BackoffElapses(e) \/ MarkerLost(e)

WorkerStep(w) ==
    \/ Reclaim(w) \/ Claim(w) \/ EndBatch(w)
    \/ \E e \in Events : GiveUp(w, e) \/ CheckStatus(w, e)
    \/ CheckProcessed(w) \/ CheckMarker(w) \/ Reconcile(w)
    \/ Publish(w) \/ Finalize(w) \/ Count(w) \/ Catch(w)

OperatorStep(o) ==
    \/ OpScan(o) \/ OpCheckMarker(o) \/ OpApply(o) \/ OpDone(o)
    \/ \E e \in Events : OpCheckProcessed(o, e)

Next ==
    \/ \E e \in Events : Environment(e)
    \/ \E w \in Workers : WorkerStep(w) \/ AbortBatch(w) \/ Crash(w) \/ Restart(w)
    \/ \E o \in Operators : OperatorStep(o)

Spec == Init /\ [][Next]_vars

\* The poll loop runs for ever, the container is restarted, time passes.
Fairness ==
    /\ \A w \in Workers : WF_vars(WorkerStep(w)) /\ WF_vars(Restart(w))
    /\ \A e \in Events : WF_vars(LeaseExpires(e)) /\ WF_vars(BackoffElapses(e))

FairSpec == Spec /\ Fairness

-----------------------------------------------------------------------------
(* What is expected of the outbox.                                         *)

TypeOK ==
    /\ status \in [Events -> Statuses]
    /\ attempts \in [Events -> Nat]
    /\ lease \in [Events -> {"none", "fresh", "stale"}]
    /\ backoff \in [Events -> BOOLEAN]
    /\ processed \in SUBSET Events
    /\ marker \in SUBSET Events
    /\ fanout \in Seq(Events)
    /\ pc \in [Workers -> Steps]
    /\ todo \in [Workers -> SUBSET Events]
    /\ cur \in [Workers -> Events \cup {None}]
    /\ snap \in [Workers -> [Events -> Nat]]
    /\ opPc \in [Operators -> {"idle", "next", "marker", "apply"}]
    /\ opList \in [Operators -> SUBSET Events]
    /\ opCur \in [Operators -> Events \cup {None}]
    /\ faults \in Nat

\* At any time at most one live worker works on a row: claim, reclaim and
\* requeue never hand out a row another pass still holds.  Needs the lease to
\* outlive the batch.
ExclusiveClaim ==
    \A e \in Events, v, w \in Workers : Holds(v, e) /\ Holds(w, e) => v = w

\* However workers crash, calls fail and replies get lost, no event is fanned
\* out twice: the marker and processed_events together remember it.
NoDuplicateFanout ==
    \A i, j \in DOMAIN fanout : fanout[i] = fanout[j] => i = j

\* processed_events and DISPATCHED never claim a fan-out that did not happen,
\* whatever was reclaimed, retried or lost before.
RecordedOnlyAfterFanout ==
    /\ processed \subseteq FannedOut
    /\ \A e \in Events : status[e] = "DISPATCHED" => e \in processed

\* A known event fails only once it has used up its attempts, and no row ever
\* uses more than OUTBOX_MAX_ATTEMPTS of them between two requeues.
FailsExactlyAtLimit ==
    \A e \in Events :
        /\ attempts[e] <= MaxAttempts
        /\ status[e] = "FAILED" /\ e \notin Unknown => attempts[e] = MaxAttempts

\* With fewer faults than attempts, every committed event ends, and stays,
\* DISPATCHED (FAILED if its type is unknown): no crash, lost lease, backoff or
\* aborted batch strands a row for ever.
EveryEventSettles ==
    \A e \in Events :
        status[e] # "ABSENT" ~>
            [](status[e] = IF e \in Unknown THEN "FAILED" ELSE "DISPATCHED")

\* The promise made to the rest of the platform: no fan-out of what was not
\* enqueued, no record before the fan-out, and a second fan-out only when a
\* lease or a marker fails its purpose or two requeue runs overlap.
Promise == INSTANCE EventDelivery WITH
    enqueued <- {e \in Events : status[e] # "ABSENT"},
    acked <- processed,
    MayRepeat <- SlowWorkers \/ EarlyMarkerLoss \/ \E o, p \in Operators : o # p

ImplementsPromise == Promise!Spec

=============================================================================
