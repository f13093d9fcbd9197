----------------------------- MODULE OutboxProofs -----------------------------
(***************************************************************************)
(* Proofs about Outbox, for every set of events, workers and requeue runs, *)
(* every batch size, attempt limit and number of faults.                   *)
(***************************************************************************)
EXTENDS Outbox, SequenceTheorems, TLAPS

\* Steps at which a worker has a row in hand.
Busy == {"processed", "marker", "reconcile", "publish", "finalize", "count", "catch"}

\* A worker or requeue run between its checks and its writes has a row.
RowInHand ==
    /\ \A w \in Workers : pc[w] \in Busy => cur[w] \in Events
    /\ \A o \in Operators : opPc[o] \in {"marker", "apply"} => opCur[o] \in Events

Typed == TypeOK /\ RowInHand

\* Every step of Next is one of the named actions below (or leaves vars alone).
LEMMA StepCases ==
    ASSUME [Next]_vars
    PROVE  \/ \E e \in Events : \/ Enqueue(e) \/ LeaseExpires(e)
                                \/ BackoffElapses(e) \/ MarkerLost(e)
           \/ \E w \in Workers : \/ Reclaim(w) \/ Claim(w) \/ EndBatch(w)
                                 \/ CheckProcessed(w) \/ CheckMarker(w) \/ Reconcile(w)
                                 \/ Publish(w) \/ Finalize(w) \/ Count(w) \/ Catch(w)
                                 \/ AbortBatch(w) \/ Crash(w) \/ Restart(w)
           \/ \E w \in Workers, e \in Events : GiveUp(w, e) \/ CheckStatus(w, e)
           \/ \E o \in Operators : \/ OpScan(o) \/ OpCheckMarker(o) \/ OpApply(o) \/ OpDone(o)
                                   \/ \E e \in Events : OpCheckProcessed(o, e)
           \/ UNCHANGED vars
  BY DEF Next, Environment, WorkerStep, OperatorStep

\* The initial state is well typed.
LEMMA InitTyped == Init => Typed
  BY OutboxAssumption DEF Init, Typed, TypeOK, RowInHand, Statuses, Steps, Busy

\* Each step keeps the state well typed.
LEMMA NextTyped == Typed /\ [Next]_vars => Typed'
  <1> SUFFICES ASSUME Typed, [Next]_vars PROVE Typed'
    OBVIOUS
  <1> USE OutboxAssumption
  <1> USE DEF Typed, TypeOK, RowInHand, Statuses, Steps, Busy, row, redis, stack, op
  <1>1. ASSUME NEW e \in Events, Enqueue(e) PROVE Typed'
    BY <1>1 DEF Enqueue
  <1>2. ASSUME NEW e \in Events, LeaseExpires(e) PROVE Typed'
    BY <1>2 DEF LeaseExpires
  <1>3. ASSUME NEW e \in Events, BackoffElapses(e) PROVE Typed'
    BY <1>3 DEF BackoffElapses
  <1>4. ASSUME NEW e \in Events, MarkerLost(e) PROVE Typed'
    BY <1>4 DEF MarkerLost
  <1>5. ASSUME NEW w \in Workers, Reclaim(w) PROVE Typed'
    BY <1>5 DEF Reclaim, Goto
  <1>6. ASSUME NEW w \in Workers, Claim(w) PROVE Typed'
    BY <1>6 DEF Claim, Claimable, Goto
  <1>7. ASSUME NEW w \in Workers, EndBatch(w) PROVE Typed'
    BY <1>7 DEF EndBatch, Goto
  <1>8. ASSUME NEW w \in Workers, CheckProcessed(w) PROVE Typed'
    BY <1>8 DEF CheckProcessed, Goto
  <1>9. ASSUME NEW w \in Workers, CheckMarker(w) PROVE Typed'
    BY <1>9 DEF CheckMarker, Goto
  <1>10. ASSUME NEW w \in Workers, Reconcile(w) PROVE Typed'
    BY <1>10 DEF Reconcile, FinalizeDispatched, NextRow, Goto
  <1>11. ASSUME NEW w \in Workers, Publish(w) PROVE Typed'
    <2>1. cur[w] \in Events
      BY <1>11 DEF Publish
    <2>2. fanout' \in Seq(Events) /\ marker' \in SUBSET Events
      <3>1. CASE Bundle(cur[w])
        <4>1. fanout' = Append(fanout, cur[w]) /\ marker' = marker \cup {cur[w]}
          BY <3>1 DEF Bundle
        <4> QED
          BY <2>1, <4>1, AppendProperties
      <3>2. CASE UNCHANGED redis
        BY <3>2
      <3> QED
        BY <1>11, <3>1, <3>2 DEF Publish
    <2>3. faults' \in Nat
      BY <1>11 DEF Publish, Fault
    <2>4. pc' \in [Workers -> Steps]
      BY <1>11 DEF Publish, Goto
    <2>5. RowInHand'
      BY <1>11 DEF Publish, Goto
    <2> QED
      BY <1>11, <2>2, <2>3, <2>4, <2>5 DEF Publish
  <1>12. ASSUME NEW w \in Workers, Finalize(w) PROVE Typed'
    <2>1. cur[w] \in Events
      BY <1>12 DEF Finalize
    <2>2. /\ status' \in [Events -> Statuses] /\ processed' \in SUBSET Events
          /\ lease' \in [Events -> {"none", "fresh", "stale"}]
          /\ backoff' \in [Events -> BOOLEAN]
      <3>1. CASE FinalizeDispatched(cur[w])
        BY <2>1, <3>1 DEF FinalizeDispatched
      <3>2. CASE UNCHANGED <<status, lease, backoff, processed>>
        BY <3>2
      <3> QED
        BY <1>12, <3>1, <3>2 DEF Finalize
    <2>3. faults' \in Nat
      BY <1>12 DEF Finalize, Fault
    <2>4. pc' \in [Workers -> Steps]
      BY <1>12 DEF Finalize, Goto
    <2>5. RowInHand'
      BY <1>12 DEF Finalize, Goto
    <2> QED
      BY <1>12, <2>2, <2>3, <2>4, <2>5 DEF Finalize
  <1>13. ASSUME NEW w \in Workers, Count(w) PROVE Typed'
    <2>1. CASE NextRow(w) /\ UNCHANGED faults
      BY <1>13, <2>1 DEF Count, NextRow, Goto
    <2>2. CASE Goto(w, "catch") /\ Fault /\ UNCHANGED <<todo, cur, snap>>
      BY <1>13, <2>2 DEF Count, Goto, Fault
    <2> QED
      BY <1>13, <2>1, <2>2 DEF Count
  <1>14. ASSUME NEW w \in Workers, Catch(w) PROVE Typed'
    <2>1. cur[w] \in Events
      BY <1>14 DEF Catch
    <2>2. status' \in [Events -> Statuses]
      BY <1>14, <2>1 DEF Catch
    <2>3. attempts' \in [Events -> Nat]
      <3>1. attempts' = [attempts EXCEPT ![cur[w]] = attempts[cur[w]] + 1]
        BY <1>14 DEF Catch
      <3>2. attempts \in [Events -> Nat] /\ attempts[cur[w]] \in Nat
        BY <2>1
      <3>3. \A n \in Nat : n + 1 \in Nat
        OBVIOUS
      <3>4. attempts[cur[w]] + 1 \in Nat
        BY <3>2, <3>3, Zenon
      <3> QED
        BY <3>1, <3>2, <3>4, Zenon
    <2>4. /\ lease' \in [Events -> {"none", "fresh", "stale"}]
          /\ backoff' \in [Events -> BOOLEAN]
      BY <1>14, <2>1 DEF Catch
    <2>5. /\ pc' \in [Workers -> Steps] /\ cur' \in [Workers -> Events \cup {None}]
          /\ RowInHand'
      BY <1>14 DEF Catch, NextRow, Goto
    <2> QED
      BY <1>14, <2>2, <2>3, <2>4, <2>5 DEF Catch, NextRow
  <1>15. ASSUME NEW w \in Workers, AbortBatch(w) \/ Crash(w) PROVE Typed'
    <2>1. CASE Leave(w, "idle")
      BY <2>1 DEF Leave, Goto, Fault
    <2>2. CASE Leave(w, "down")
      BY <2>2 DEF Leave, Goto, Fault
    <2> QED
      BY <1>15, <2>1, <2>2 DEF AbortBatch, Crash
  <1>16. ASSUME NEW w \in Workers, Restart(w) PROVE Typed'
    BY <1>16 DEF Restart, Goto
  <1>17. ASSUME NEW w \in Workers, NEW e \in Events, GiveUp(w, e) PROVE Typed'
    BY <1>17 DEF GiveUp
  <1>18. ASSUME NEW w \in Workers, NEW e \in Events, CheckStatus(w, e) PROVE Typed'
    <2>1. CASE UNCHANGED <<pc, cur>>
      BY <1>18, <2>1 DEF CheckStatus
    <2>2. CASE Take(w, e)
      BY <1>18, <2>2 DEF CheckStatus, Take, Goto
    <2> QED
      BY <1>18, <2>1, <2>2 DEF CheckStatus
  <1>19. ASSUME NEW o \in Operators, OpScan(o) PROVE Typed'
    BY <1>19 DEF OpScan, OpGoto
  <1>20. ASSUME NEW o \in Operators, NEW e \in Events, OpCheckProcessed(o, e) PROVE Typed'
    <2>1. CASE OpGoto(o, "next", None)
      BY <1>20, <2>1 DEF OpCheckProcessed, OpGoto
    <2>2. CASE OpGoto(o, "marker", e)
      BY <1>20, <2>2 DEF OpCheckProcessed, OpGoto
    <2> QED
      BY <1>20, <2>1, <2>2 DEF OpCheckProcessed
  <1>21. ASSUME NEW o \in Operators, OpCheckMarker(o) PROVE Typed'
    <2>1. CASE OpGoto(o, "next", None)
      BY <1>21, <2>1 DEF OpCheckMarker, OpGoto
    <2>2. CASE OpGoto(o, "apply", opCur[o])
      BY <1>21, <2>2 DEF OpCheckMarker, OpGoto
    <2> QED
      BY <1>21, <2>1, <2>2 DEF OpCheckMarker
  <1>22. ASSUME NEW o \in Operators, OpApply(o) PROVE Typed'
    BY <1>22 DEF OpApply, OpGoto
  <1>23. ASSUME NEW o \in Operators, OpDone(o) PROVE Typed'
    <2>1. faults' \in Nat
      BY <1>23 DEF OpDone, Fault
    <2>2. /\ opPc' \in [Operators -> {"idle", "next", "marker", "apply"}]
          /\ opList' \in [Operators -> SUBSET Events]
          /\ opCur' \in [Operators -> Events \cup {None}]
      BY <1>23 DEF OpDone, OpGoto
    <2>3. RowInHand'
      BY <1>23 DEF OpDone, OpGoto
    <2> QED
      BY <1>23, <2>1, <2>2, <2>3 DEF OpDone
  <1>24. CASE UNCHANGED vars
    BY <1>24 DEF vars
  <1> QED
    BY <1>1, <1>2, <1>3, <1>4, <1>5, <1>6, <1>7, <1>8, <1>9, <1>10, <1>11, <1>12,
       <1>13, <1>14, <1>15, <1>16, <1>17, <1>18, <1>19, <1>20, <1>21, <1>22, <1>23,
       <1>24, StepCases

\* Type correctness of the outbox, with the row each worker has in hand.
THEOREM OutboxTyped == Spec => []Typed
  BY InitTyped, NextTyped, PTL DEF Spec

\* The type invariant the runs check.
THEOREM OutboxTypeOK == Spec => []TypeOK
  BY OutboxTyped, PTL DEF Typed

-----------------------------------------------------------------------------
(* Nothing is recorded before it is fanned out: for any parameters.        *)

Recorded ==
    /\ marker \subseteq FannedOut
    /\ RecordedOnlyAfterFanout
    /\ \A w \in Workers : pc[w] \in {"reconcile", "finalize"} => cur[w] \in FannedOut

\* What a fan-out adds to the set of fanned out events.
LEMMA BundleAddsOne ==
    ASSUME Typed, NEW e \in Events, Bundle(e)
    PROVE  FannedOut' = FannedOut \cup {e}
  <1>1. fanout \in Seq(Events)
    BY DEF Typed, TypeOK
  <1>2. fanout' = Append(fanout, e)
    BY DEF Bundle
  <1>3. /\ Len(fanout') = Len(fanout) + 1
        /\ DOMAIN fanout' = 1..Len(fanout')
        /\ DOMAIN fanout = 1..Len(fanout)
        /\ Len(fanout) \in Nat
        /\ \A i \in 1..Len(fanout) : fanout'[i] = fanout[i]
        /\ fanout'[Len(fanout) + 1] = e
    BY <1>1, <1>2
  <1>4. \A i \in DOMAIN fanout' : i \in DOMAIN fanout \/ i = Len(fanout) + 1
    BY <1>3
  <1>5. DOMAIN fanout \subseteq DOMAIN fanout' /\ Len(fanout) + 1 \in DOMAIN fanout'
    BY <1>3
  <1> QED
    BY <1>3, <1>4, <1>5, Zenon DEF FannedOut

\* Appending something new to a sequence without repetitions.
LEMMA AppendKeepsDistinct ==
    ASSUME fanout \in Seq(Events), NoDuplicateFanout, NEW e \in Events,
           e \notin FannedOut, fanout' = Append(fanout, e)
    PROVE  NoDuplicateFanout'
  <1>1. /\ DOMAIN fanout = 1..Len(fanout)
        /\ DOMAIN fanout' = 1..Len(fanout) + 1
        /\ Len(fanout) \in Nat
        /\ \A i \in 1..Len(fanout) : fanout'[i] = fanout[i] /\ fanout[i] # e
        /\ fanout'[Len(fanout) + 1] = e
    BY DEF FannedOut
  <1> QED
    BY <1>1 DEF NoDuplicateFanout

LEMMA InitRecorded == Init => Recorded
  BY DEF Init, Recorded, RecordedOnlyAfterFanout, FannedOut

LEMMA NextRecorded == Typed /\ Recorded /\ [Next]_vars => Recorded'
  <1> SUFFICES ASSUME Typed, Recorded, [Next]_vars PROVE Recorded'
    OBVIOUS
  <1> USE DEF Recorded, RecordedOnlyAfterFanout
  <1>types. /\ status \in [Events -> Statuses]
            /\ pc \in [Workers -> Steps]
            /\ cur \in [Workers -> Events \cup {None}]
            /\ \A w \in Workers : pc[w] \in Busy => cur[w] \in Events
            /\ \A o \in Operators : opPc[o] \in {"marker", "apply"} => opCur[o] \in Events
    BY DEF Typed, TypeOK, RowInHand
  <1>same. UNCHANGED fanout => FannedOut' = FannedOut
    BY DEF FannedOut
  <1>1. ASSUME NEW e \in Events, \/ Enqueue(e) \/ LeaseExpires(e)
                                 \/ BackoffElapses(e) \/ MarkerLost(e)
        PROVE  Recorded'
    BY <1>1, <1>types, <1>same
       DEF Enqueue, LeaseExpires, BackoffElapses, MarkerLost, row, redis, stack, op
  <1>2. ASSUME NEW w \in Workers, \/ Reclaim(w) \/ EndBatch(w) \/ Restart(w)
        PROVE  Recorded'
    BY <1>2, <1>types, <1>same
       DEF Reclaim, StaleRows, EndBatch, Restart, Goto, row, redis, op
  <1>3. ASSUME NEW w \in Workers, Claim(w) PROVE Recorded'
    BY <1>3, <1>types, <1>same DEF Claim, Goto, row, redis, op
  <1>4. ASSUME NEW w \in Workers, CheckProcessed(w) PROVE Recorded'
    BY <1>4, <1>types, <1>same DEF CheckProcessed, Goto, row, redis, op
  <1>5. ASSUME NEW w \in Workers, CheckMarker(w) PROVE Recorded'
    BY <1>5, <1>types, <1>same DEF CheckMarker, MarkerSet, Goto, row, redis, op
  <1>6. ASSUME NEW w \in Workers, Reconcile(w) PROVE Recorded'
    BY <1>6, <1>types, <1>same
       DEF Reconcile, FinalizeDispatched, NextRow, Goto, row, redis, op
  <1>7. ASSUME NEW w \in Workers, Publish(w) PROVE Recorded'
    <2>1. CASE Bundle(cur[w])
      <3>1. FannedOut' = FannedOut \cup {cur[w]}
        BY <1>7, <2>1, <1>types, BundleAddsOne DEF Publish, Busy
      <3>2. marker' = marker \cup {cur[w]}
        BY <2>1 DEF Bundle
      <3> QED
        BY <1>7, <1>types, <3>1, <3>2 DEF Publish, Goto, row, op
    <2>2. CASE UNCHANGED redis /\ Goto(w, "catch")
      BY <1>7, <2>2, <1>types, <1>same DEF Publish, Goto, row, redis, op
    <2> QED
      BY <1>7, <2>1, <2>2 DEF Publish
  <1>8. ASSUME NEW w \in Workers, Finalize(w) PROVE Recorded'
    <2>1. CASE FinalizeDispatched(cur[w])
      BY <1>8, <2>1, <1>types, <1>same
         DEF Finalize, FinalizeDispatched, Goto, redis, op
    <2>2. CASE UNCHANGED <<status, lease, backoff, processed>>
      BY <1>8, <2>2, <1>types, <1>same DEF Finalize, Goto, redis, op
    <2> QED
      BY <1>8, <2>1, <2>2 DEF Finalize
  <1>9. ASSUME NEW w \in Workers, Count(w) PROVE Recorded'
    BY <1>9, <1>types, <1>same DEF Count, NextRow, Goto, row, redis, op
  <1>10. ASSUME NEW w \in Workers, Catch(w) PROVE Recorded'
    BY <1>10, <1>types, <1>same DEF Catch, NextRow, Goto, redis, op
  <1>11. ASSUME NEW w \in Workers, AbortBatch(w) \/ Crash(w) PROVE Recorded'
    BY <1>11, <1>types, <1>same DEF AbortBatch, Crash, Leave, Goto, row, redis, op
  <1>12. ASSUME NEW w \in Workers, NEW e \in Events, GiveUp(w, e) PROVE Recorded'
    BY <1>12, <1>types, <1>same DEF GiveUp, redis, op
  <1>13. ASSUME NEW w \in Workers, NEW e \in Events, CheckStatus(w, e) PROVE Recorded'
    BY <1>13, <1>types, <1>same DEF CheckStatus, Take, Goto, row, redis, op
  <1>14. ASSUME NEW o \in Operators,
                \/ OpScan(o) \/ OpCheckMarker(o) \/ OpDone(o)
                \/ \E e \in Events : OpCheckProcessed(o, e)
         PROVE  Recorded'
    BY <1>14, <1>types, <1>same
       DEF OpScan, OpCheckMarker, OpDone, OpCheckProcessed, row, redis, stack
  <1>15. ASSUME NEW o \in Operators, OpApply(o) PROVE Recorded'
    BY <1>15, <1>types, <1>same DEF OpApply, redis, stack
  <1>16. CASE UNCHANGED vars
    BY <1>16, <1>same DEF vars, row, redis, stack, op
  <1> QED
    BY <1>1, <1>2, <1>3, <1>4, <1>5, <1>6, <1>7, <1>8, <1>9, <1>10, <1>11, <1>12,
       <1>13, <1>14, <1>15, <1>16, StepCases

LEMMA RecordedInv == Spec => []Recorded
  BY OutboxTyped, InitRecorded, NextRecorded, PTL DEF Spec

\* No event is ever recorded as processed, or its row DISPATCHED, without
\* having been fanned out, whatever fails and however slow the workers are.
THEOREM RecordedSafe == Spec => []RecordedOnlyAfterFanout
  <1>1. Recorded => RecordedOnlyAfterFanout
    BY DEF Recorded
  <1> QED
    BY <1>1, RecordedInv, PTL

-----------------------------------------------------------------------------
(* No duplicate fan-out, when leases outlive batches, a marker outlives its *)
(* need, and requeue runs do not overlap.                                   *)

Guarded ==
    /\ ~SlowWorkers
    /\ ~EarlyMarkerLoss
    /\ \A o, p \in Operators : o = p

\* A worker's rows carry its unexpired lease, until the row is finalised.
HeldRows ==
    \A w \in Workers, e \in Events : Holds(w, e) =>
        \/ status[e] = "PROCESSING" /\ lease[e] = "fresh"
        \/ status[e] = "DISPATCHED" /\ cur[w] = e /\ pc[w] \in {"count", "catch"}

RowTaken ==
    \A w \in Workers :
        /\ cur[w] \notin todo[w]
        /\ pc[w] \notin Busy => cur[w] = None

\* Rows a requeue run has selected stay FAILED until it writes them.
ListedRows ==
    \A o \in Operators :
        /\ opCur[o] \notin opList[o]
        /\ \A e \in Events : e \in opList[o] \/ opCur[o] = e => status[e] = "FAILED"

\* Between them the marker and processed_events remember every fan-out ...
Remembered == FannedOut \subseteq marker \cup processed

\* ... so that a worker past its two checks holds a row never fanned out.
Unpublished ==
    \A w \in Workers :
        /\ pc[w] \in {"marker", "publish"} => cur[w] \notin processed
        /\ pc[w] = "publish" => cur[w] \notin FannedOut

Exclusive ==
    /\ HeldRows
    /\ RowTaken
    /\ ExclusiveClaim
    /\ ListedRows
    /\ Remembered
    /\ Unpublished
    /\ NoDuplicateFanout

LEMMA InitExclusive == Init => Exclusive
  BY OutboxAssumption DEF Init, Exclusive, HeldRows, RowTaken, ExclusiveClaim, ListedRows,
     Remembered, Unpublished, NoDuplicateFanout, Holds, FannedOut, Busy

\* A requeue run that only moves its own program counter and list disturbs
\* nothing but ListedRows.
LEMMA OperatorOnly ==
    ASSUME Exclusive, ListedRows', UNCHANGED <<row, processed, redis, stack>>
    PROVE  Exclusive'
  <1>1. HeldRows' /\ RowTaken' /\ ExclusiveClaim'
    BY DEF Exclusive, HeldRows, RowTaken, ExclusiveClaim, Holds, row, stack
  <1>2. Remembered' /\ Unpublished'
    BY DEF Exclusive, Remembered, Unpublished, FannedOut, redis, stack
  <1>3. NoDuplicateFanout'
    BY DEF Exclusive, NoDuplicateFanout, redis
  <1> QED
    BY <1>1, <1>2, <1>3 DEF Exclusive

LEMMA NextExclusive ==
    ASSUME Guarded, Typed, Recorded, Exclusive, [Next]_vars
    PROVE  Exclusive'
  <1> USE OutboxAssumption
  <1> USE DEF Exclusive, HeldRows, RowTaken, ExclusiveClaim, ListedRows, Remembered, Unpublished,
          NoDuplicateFanout, Holds, Busy, row, redis, stack, op
  <1>types. /\ status \in [Events -> Statuses]
            /\ lease \in [Events -> {"none", "fresh", "stale"}]
            /\ pc \in [Workers -> Steps]
            /\ todo \in [Workers -> SUBSET Events]
            /\ cur \in [Workers -> Events \cup {None}]
            /\ opPc \in [Operators -> {"idle", "next", "marker", "apply"}]
            /\ opList \in [Operators -> SUBSET Events]
            /\ opCur \in [Operators -> Events \cup {None}]
            /\ \A w \in Workers : pc[w] \in Busy => cur[w] \in Events
            /\ \A o \in Operators : opPc[o] \in {"marker", "apply"} => opCur[o] \in Events
    BY DEF Typed, TypeOK, RowInHand
  <1>same. UNCHANGED fanout => FannedOut' = FannedOut
    BY DEF FannedOut
  <1>1. ASSUME NEW e \in Events, Enqueue(e) \/ BackoffElapses(e)
        PROVE  Exclusive'
    BY <1>1, <1>types, <1>same DEF Enqueue, BackoffElapses, Guarded
  <1>2. ASSUME NEW e \in Events, LeaseExpires(e)
        PROVE  Exclusive'
    BY <1>2, <1>types, <1>same DEF LeaseExpires, Held, Guarded
  <1>3. ASSUME NEW e \in Events, MarkerLost(e)
        PROVE  Exclusive'
    <2>1. e \in processed
      BY <1>3, Zenon DEF MarkerLost, Guarded
    <2>2. marker' = marker \ {e} /\ UNCHANGED <<processed, fanout>>
      BY <1>3 DEF MarkerLost
    <2>3. Remembered'
      BY <2>1, <2>2, <1>same
    <2> QED
      BY <1>3, <2>3, <1>types, <1>same DEF MarkerLost
  <1>4. ASSUME NEW w \in Workers, Reclaim(w)
        PROVE  Exclusive'
    BY <1>4, <1>types, <1>same DEF Reclaim, StaleRows, Goto, Guarded
  <1>5. ASSUME NEW w \in Workers, EndBatch(w) \/ Restart(w)
        PROVE  Exclusive'
    BY <1>5, <1>types, <1>same DEF EndBatch, Restart, Goto, Guarded
  <1>6. ASSUME NEW w \in Workers, Claim(w)
        PROVE  Exclusive'
    <2>1. PICK S \in SUBSET Claimable :
            /\ status' = [e \in Events |-> IF e \in S THEN "PROCESSING" ELSE status[e]]
            /\ lease' = [e \in Events |-> IF e \in S THEN "fresh" ELSE lease[e]]
            /\ todo' = [todo EXCEPT ![w] = S]
      BY <1>6 DEF Claim
    <2>2. S \subseteq Events /\ \A e \in S : status[e] = "PENDING"
      BY DEF Claimable
    <2>3. /\ pc[w] = "claim"
          /\ pc' = [pc EXCEPT ![w] = "next"]
          /\ UNCHANGED <<processed, redis, cur, op>>
      BY <1>6 DEF Claim, Goto
    <2>4. HeldRows'
      BY <2>1, <2>2, <2>3, <1>types
    <2>5. RowTaken'
      <3>1. cur[w] = None /\ None \notin S
        BY <2>2, <2>3
      <3>2. todo'[w] = S /\ \A v \in Workers : v # w => todo'[v] = todo[v]
        BY <2>1, <1>types
      <3>3. \A v \in Workers : pc'[v] \notin Busy => cur[v] = None
        BY <2>3, <1>types
      <3>4. \A v \in Workers : cur[v] \notin todo'[v]
        BY <3>1, <3>2
      <3> QED
        BY <2>3, <3>3, <3>4
    <2>6. ExclusiveClaim'
      BY <2>1, <2>2, <2>3, <1>types
    <2>7. ListedRows'
      BY <2>1, <2>2, <2>3, <1>types
    <2>8. Remembered' /\ Unpublished' /\ NoDuplicateFanout'
      BY <2>3, <1>types, <1>same
    <2> QED
      BY <2>4, <2>5, <2>6, <2>7, <2>8
  <1>7. ASSUME NEW w \in Workers, CheckProcessed(w)
        PROVE  Exclusive'
    BY <1>7, <1>types, <1>same DEF CheckProcessed, Goto, Guarded
  <1>8. ASSUME NEW w \in Workers, CheckMarker(w)
        PROVE  Exclusive'
    BY <1>8, <1>types, <1>same DEF CheckMarker, MarkerSet, Goto, Guarded
  <1>9. ASSUME NEW w \in Workers, Reconcile(w)
        PROVE  Exclusive'
    <2>1. \A v \in Workers : v # w => cur[v] # cur[w]
      BY <1>9, <1>types DEF Reconcile
    <2>2. HeldRows' /\ RowTaken' /\ ExclusiveClaim' /\ ListedRows'
      BY <1>9, <1>types, <1>same DEF Reconcile, FinalizeDispatched, NextRow, Goto
    <2>3. Remembered' /\ NoDuplicateFanout'
      BY <1>9, <1>same DEF Reconcile, FinalizeDispatched
    <2>4. Unpublished'
      BY <1>9, <2>1, <1>types, <1>same DEF Reconcile, FinalizeDispatched, NextRow, Goto
    <2> QED
      BY <2>2, <2>3, <2>4
  <1>10. ASSUME NEW w \in Workers, Publish(w)
        PROVE  Exclusive'
    <2>1. CASE Bundle(cur[w])
      <3> DEFINE e == cur[w]
      <3>1. e \in Events /\ e \notin FannedOut
        BY <1>10, <1>types DEF Publish
      <3>2. /\ FannedOut' = FannedOut \cup {e}
            /\ fanout' = Append(fanout, e)
            /\ marker' = marker \cup {e}
            /\ UNCHANGED processed
        BY <1>10, <2>1, <3>1, BundleAddsOne DEF Publish, Bundle
      <3>3. \A v \in Workers : v # w => cur[v] # e
        BY <1>10, <1>types DEF Publish
      <3>4. HeldRows' /\ RowTaken' /\ ExclusiveClaim' /\ ListedRows'
        BY <1>10, <1>types, <1>same DEF Publish, Goto
      <3>5. Remembered'
        BY <3>2
      <3>6. Unpublished'
        BY <1>10, <3>2, <3>3, <1>types DEF Publish, Goto
      <3>7. NoDuplicateFanout'
        BY <3>1, <3>2, AppendKeepsDistinct DEF Typed, TypeOK
      <3> QED
        BY <3>4, <3>5, <3>6, <3>7
    <2>2. CASE UNCHANGED redis
      BY <1>10, <2>2, <1>types, <1>same DEF Publish, Goto
    <2> QED
      BY <1>10, <2>1, <2>2 DEF Publish
  <1>11. ASSUME NEW w \in Workers, Finalize(w)
        PROVE  Exclusive'
    <2>1. \A v \in Workers : v # w => cur[v] # cur[w]
      BY <1>11, <1>types DEF Finalize
    <2>2. HeldRows' /\ RowTaken' /\ ExclusiveClaim' /\ ListedRows'
      BY <1>11, <1>types, <1>same DEF Finalize, FinalizeDispatched, Goto
    <2>3. Remembered' /\ NoDuplicateFanout'
      BY <1>11, <1>same DEF Finalize, FinalizeDispatched
    <2>4. Unpublished'
      BY <1>11, <2>1, <1>types, <1>same DEF Finalize, FinalizeDispatched, Goto
    <2> QED
      BY <2>2, <2>3, <2>4
  <1>12. ASSUME NEW w \in Workers, Count(w)
        PROVE  Exclusive'
    BY <1>12, <1>types, <1>same DEF Count, NextRow, Goto, Guarded
  <1>13. ASSUME NEW w \in Workers, Catch(w)
        PROVE  Exclusive'
    BY <1>13, <1>types, <1>same DEF Catch, NextRow, Goto, Guarded
  <1>14. ASSUME NEW w \in Workers, AbortBatch(w) \/ Crash(w)
        PROVE  Exclusive'
    BY <1>14, <1>types, <1>same DEF AbortBatch, Crash, Leave, Goto, Guarded
  <1>15. ASSUME NEW w \in Workers, NEW e \in Events, GiveUp(w, e)
        PROVE  Exclusive'
    BY <1>15, <1>types, <1>same DEF GiveUp, Guarded
  <1>16. ASSUME NEW w \in Workers, NEW e \in Events, CheckStatus(w, e)
        PROVE  Exclusive'
    BY <1>16, <1>types, <1>same DEF CheckStatus, Take, Goto, Guarded
  <1>17. ASSUME NEW o \in Operators, OpScan(o)
        PROVE  Exclusive'
    <2>1. PICK S \in SUBSET {e \in Events : status[e] = "FAILED"} :
            opList' = [opList EXCEPT ![o] = S]
      BY <1>17 DEF OpScan
    <2>2. opCur' = [opCur EXCEPT ![o] = None] /\ UNCHANGED <<row, processed, redis, stack>>
      BY <1>17 DEF OpScan, OpGoto
    <2>3. None \notin S /\ \A e \in S : status[e] = "FAILED"
      OBVIOUS
    <2>4. /\ opList'[o] = S /\ opCur'[o] = None
          /\ \A p \in Operators : p # o => opList'[p] = opList[p] /\ opCur'[p] = opCur[p]
      BY <2>1, <2>2, <1>types
    <2>5. ListedRows'
      BY <2>2, <2>3, <2>4, <1>types
    <2> QED
      BY <2>2, <2>5, OperatorOnly
  <1>18. ASSUME NEW o \in Operators, NEW e \in Events, OpCheckProcessed(o, e)
        PROVE  Exclusive'
    <2>1. ListedRows'
      BY <1>18, <1>types DEF OpCheckProcessed, OpGoto
    <2> QED
      BY <1>18, <2>1, OperatorOnly DEF OpCheckProcessed
  <1>19. ASSUME NEW o \in Operators, OpCheckMarker(o)
        PROVE  Exclusive'
    <2>1. ListedRows'
      BY <1>19, <1>types DEF OpCheckMarker, OpGoto
    <2> QED
      BY <1>19, <2>1, OperatorOnly DEF OpCheckMarker
  <1>20. ASSUME NEW o \in Operators, OpApply(o)
        PROVE  Exclusive'
    BY <1>20, <1>types, <1>same DEF OpApply, OpGoto, Guarded
  <1>21. ASSUME NEW o \in Operators, OpDone(o)
        PROVE  Exclusive'
    <2>1. ListedRows'
      BY <1>21, <1>types DEF OpDone, OpGoto
    <2> QED
      BY <1>21, <2>1, OperatorOnly DEF OpDone
  <1>22. CASE UNCHANGED vars
    BY <1>22, <1>same DEF vars
  <1> QED
    BY <1>1, <1>2, <1>3, <1>4, <1>5, <1>6, <1>7, <1>8, <1>9, <1>10, <1>11, <1>12, <1>13, <1>14, <1>15, <1>16, <1>17, <1>18, <1>19, <1>20, <1>21, <1>22, StepCases

\* While leases outlive batches, markers outlive their need and requeue runs
\* do not overlap, no row is held by two workers and no event is fanned out
\* twice, for any number of workers, events, crashes and failed calls.
THEOREM NoDuplicateSafe ==
    ASSUME Guarded
    PROVE  Spec => [](ExclusiveClaim /\ NoDuplicateFanout)
  <1>1. Typed /\ Recorded /\ Exclusive /\ [Next]_vars => Exclusive'
    BY NextExclusive
  <1>2. Exclusive => ExclusiveClaim /\ NoDuplicateFanout
    BY DEF Exclusive
  <1> QED
    BY <1>1, <1>2, OutboxTyped, RecordedInv, InitExclusive, PTL DEF Spec

\* With the same assumptions, no row is ever in the hands of two workers.
THEOREM ClaimsSafe ==
    ASSUME Guarded
    PROVE  Spec => []ExclusiveClaim
  <1>1. ExclusiveClaim /\ NoDuplicateFanout => ExclusiveClaim
    OBVIOUS
  <1> QED
    BY <1>1, NoDuplicateSafe, PTL

-----------------------------------------------------------------------------
(* A row fails exactly at the limit.                                       *)

\* What the claim returned is still what the row says, as long as it is held.
SnapshotsCurrent ==
    \A w \in Workers, e \in Events : Holds(w, e) => snap[w][e] = attempts[e]

\* A row that is being dispatched has an attempt left.
AttemptsLeft == \A w \in Workers : pc[w] \in Busy => snap[w][cur[w]] < MaxAttempts

AtLimit == FailsExactlyAtLimit /\ SnapshotsCurrent /\ AttemptsLeft

LEMMA InitAtLimit == Init => AtLimit
  BY OutboxAssumption DEF Init, AtLimit, FailsExactlyAtLimit, SnapshotsCurrent, AttemptsLeft,
     Holds, Busy

\* Each step keeps it, given that nobody else writes a row that is held.
LEMMA NextAtLimit ==
    ASSUME Typed, Exclusive, AtLimit, [Next]_vars
    PROVE  AtLimit'
  <1> USE OutboxAssumption
  <1> USE DEF AtLimit, FailsExactlyAtLimit, SnapshotsCurrent, AttemptsLeft, Holds, Busy,
          row, redis, stack, op
  <1>types. /\ status \in [Events -> Statuses]
            /\ attempts \in [Events -> Nat]
            /\ pc \in [Workers -> Steps]
            /\ todo \in [Workers -> SUBSET Events]
            /\ cur \in [Workers -> Events \cup {None}]
            /\ snap \in [Workers -> [Events -> Nat]]
            /\ \A w \in Workers : pc[w] \in Busy => cur[w] \in Events
    BY DEF Typed, TypeOK, RowInHand
  <1>1. ASSUME NEW e \in Events,
               Enqueue(e) \/ LeaseExpires(e) \/ BackoffElapses(e) \/ MarkerLost(e)
        PROVE  AtLimit'
    BY <1>1, <1>types DEF Enqueue, LeaseExpires, BackoffElapses, MarkerLost
  <1>2. ASSUME NEW w \in Workers, Reclaim(w)
        PROVE  AtLimit'
    BY <1>2, <1>types DEF Reclaim, Goto
  <1>3. ASSUME NEW w \in Workers, Claim(w)
        PROVE  AtLimit'
    <2>1. PICK S \in SUBSET Claimable :
            /\ status' = [e \in Events |-> IF e \in S THEN "PROCESSING" ELSE status[e]]
            /\ todo' = [todo EXCEPT ![w] = S]
            /\ snap' = [snap EXCEPT ![w] = [e \in Events |-> IF e \in S THEN attempts[e] ELSE 0]]
      BY <1>3 DEF Claim
    <2>2. /\ pc[w] = "claim" /\ pc' = [pc EXCEPT ![w] = "next"]
          /\ UNCHANGED <<attempts, cur>>
      BY <1>3 DEF Claim, Goto
    <2>3. S \subseteq Events /\ cur[w] = None
      BY <2>2 DEF Claimable, Exclusive, RowTaken
    <2>4. /\ todo'[w] = S /\ snap'[w] = [e \in Events |-> IF e \in S THEN attempts[e] ELSE 0]
          /\ \A v \in Workers : v # w => todo'[v] = todo[v] /\ snap'[v] = snap[v]
      BY <2>1, <1>types
    <2>5. FailsExactlyAtLimit'
      BY <2>1, <2>2, <1>types
    <2>6. SnapshotsCurrent'
      BY <2>2, <2>3, <2>4
    <2>7. AttemptsLeft'
      BY <2>2, <2>4, <1>types
    <2> QED
      BY <2>5, <2>6, <2>7
  <1>4. ASSUME NEW w \in Workers,
               EndBatch(w) \/ CheckProcessed(w) \/ CheckMarker(w) \/ Restart(w)
        PROVE  AtLimit'
    BY <1>4, <1>types DEF EndBatch, CheckProcessed, CheckMarker, Restart, Goto
  <1>5. ASSUME NEW w \in Workers, Reconcile(w)
        PROVE  AtLimit'
    BY <1>5, <1>types DEF Reconcile, FinalizeDispatched, NextRow, Goto
  <1>6. ASSUME NEW w \in Workers, Publish(w)
        PROVE  AtLimit'
    BY <1>6, <1>types DEF Publish, Goto
  <1>7. ASSUME NEW w \in Workers, Finalize(w)
        PROVE  AtLimit'
    BY <1>7, <1>types DEF Finalize, FinalizeDispatched, Goto
  <1>8. ASSUME NEW w \in Workers, Count(w)
        PROVE  AtLimit'
    BY <1>8, <1>types DEF Count, NextRow, Goto
  <1>9. ASSUME NEW w \in Workers, Catch(w)
        PROVE  AtLimit'
    <2> DEFINE e == cur[w]
    <2>1. e \in Events /\ pc[w] \in Busy
      BY <1>9, <1>types DEF Catch
    <2>2. snap[w][e] = attempts[e] /\ snap[w][e] < MaxAttempts
      BY <2>1
    <2>3. /\ status' = [status EXCEPT ![e] =
                          IF Exhausted(snap[w][e] + 1) THEN "FAILED" ELSE "PENDING"]
          /\ attempts' = [attempts EXCEPT ![e] = @ + 1]
          /\ pc' = [pc EXCEPT ![w] = "next"]
          /\ cur' = [cur EXCEPT ![w] = None]
          /\ UNCHANGED <<todo, snap>>
      BY <1>9 DEF Catch, NextRow, Goto
    <2>4. FailsExactlyAtLimit'
      <3>1. attempts[e] \in Nat /\ attempts[e] < MaxAttempts
        BY <2>1, <2>2, <1>types
      <3>2. attempts'[e] = attempts[e] + 1
        BY <2>1, <2>3, <1>types, Zenon
      <3>3. status'[e] = IF Exhausted(attempts[e] + 1) THEN "FAILED" ELSE "PENDING"
        BY <2>1, <2>2, <2>3, <1>types, Zenon
      <3>4. attempts'[e] <= MaxAttempts /\ (status'[e] = "FAILED" => attempts'[e] = MaxAttempts)
        BY <3>1, <3>2, <3>3 DEF Exhausted
      <3>5. \A f \in Events : f # e => status'[f] = status[f] /\ attempts'[f] = attempts[f]
        BY <2>3, <1>types
      <3> QED
        BY <3>4, <3>5
    <2>5. SnapshotsCurrent'
      <3>1. \A v \in Workers, f \in Events : (Holds(v, f))' => Holds(v, f) /\ f # e
        BY <2>1, <2>3, <1>types DEF Exclusive, ExclusiveClaim, RowTaken
      <3>2. \A f \in Events : f # e => attempts'[f] = attempts[f]
        BY <2>3, <1>types
      <3> QED
        BY <2>3, <3>1, <3>2
    <2>6. AttemptsLeft'
      BY <2>3, <1>types
    <2> QED
      BY <2>4, <2>5, <2>6
  <1>10. ASSUME NEW w \in Workers, AbortBatch(w) \/ Crash(w)
        PROVE  AtLimit'
    <2>1. /\ pc' = [pc EXCEPT ![w] = "idle"] \/ pc' = [pc EXCEPT ![w] = "down"]
          /\ todo' = [todo EXCEPT ![w] = {}]
          /\ cur' = [cur EXCEPT ![w] = None]
          /\ UNCHANGED <<status, attempts, snap>>
      BY <1>10 DEF AbortBatch, Crash, Leave, Goto
    <2>2. FailsExactlyAtLimit' /\ SnapshotsCurrent'
      BY <2>1, <1>types
    <2>3. AttemptsLeft'
      BY <2>1, <1>types
    <2> QED
      BY <2>2, <2>3
  <1>11. ASSUME NEW w \in Workers, NEW e \in Events, GiveUp(w, e)
        PROVE  AtLimit'
    <2>1. snap[w][e] = attempts[e]
      BY <1>11 DEF GiveUp
    <2>2. attempts[e] \in Nat /\ attempts[e] <= MaxAttempts
      BY <1>types
    <2>3. Exhausted(attempts[e]) \/ e \in Unknown
      BY <1>11, <2>1 DEF GiveUp
    <2>4. e \notin Unknown => attempts[e] = MaxAttempts
      BY <2>2, <2>3 DEF Exhausted
    <2> QED
      BY <1>11, <2>4, <1>types DEF GiveUp
  <1>12. ASSUME NEW w \in Workers, NEW e \in Events, CheckStatus(w, e)
        PROVE  AtLimit'
    <2>1. snap[w][e] < MaxAttempts
      BY <1>12, <1>types DEF CheckStatus, Exhausted
    <2> QED
      BY <1>12, <2>1, <1>types DEF CheckStatus, Take, Goto
  <1>13. ASSUME NEW o \in Operators,
                \/ OpScan(o) \/ OpCheckMarker(o) \/ OpDone(o)
                \/ \E e \in Events : OpCheckProcessed(o, e)
        PROVE  AtLimit'
    <2>1. UNCHANGED <<row, stack>>
      BY <1>13 DEF OpScan, OpCheckMarker, OpDone, OpCheckProcessed
    <2> QED
      BY <2>1
  <1>14. ASSUME NEW o \in Operators, OpApply(o)
        PROVE  AtLimit'
    <2> DEFINE e == opCur[o]
    <2>1. e \in Events /\ status[e] = "FAILED"
      BY <1>14 DEF OpApply, Typed, TypeOK, RowInHand, Exclusive, ListedRows
    <2>2. \A w \in Workers : ~Holds(w, e)
      BY <2>1 DEF Exclusive, HeldRows
    <2>3. /\ status' = [status EXCEPT ![e] = "PENDING"]
          /\ attempts' = [attempts EXCEPT ![e] = 0]
          /\ UNCHANGED stack
      BY <1>14 DEF OpApply
    <2> QED
      BY <2>1, <2>2, <2>3, <1>types
  <1>15. CASE UNCHANGED vars
    BY <1>15 DEF vars
  <1> QED
    BY <1>1, <1>2, <1>3, <1>4, <1>5, <1>6, <1>7, <1>8, <1>9, <1>10, <1>11, <1>12, <1>13,
       <1>14, <1>15, StepCases

\* With the same assumptions, a row of a known type fails only when it has had
\* all its attempts, and has no more of them, whatever reclaims, aborted
\* batches and requeues come between.
THEOREM FailsAtLimitSafe ==
    ASSUME Guarded
    PROVE  Spec => []FailsExactlyAtLimit
  <1>1. Typed /\ Recorded /\ Exclusive /\ [Next]_vars => Exclusive'
    BY NextExclusive
  <1>2. AtLimit => FailsExactlyAtLimit
    BY DEF AtLimit
  <1>3. Typed /\ Exclusive /\ AtLimit /\ [Next]_vars => AtLimit'
    BY NextAtLimit
  <1> QED
    BY <1>1, <1>2, <1>3, OutboxTyped, RecordedInv, InitExclusive, InitAtLimit, PTL DEF Spec

-----------------------------------------------------------------------------
(* The outbox keeps its promise: every step is a step of EventDelivery.    *)

\* Rows in the hands of a worker or a requeue run have been committed.
Committed ==
    /\ \A w \in Workers, e \in Events : Holds(w, e) => status[e] # "ABSENT"
    /\ \A o \in Operators, e \in Events :
          e \in opList[o] \/ opCur[o] = e => status[e] # "ABSENT"

\* A committed row stays committed, and only Enqueue commits one.
OnlyEnqueueCommits ==
    \A e \in Events : (status'[e] = "ABSENT") <=> (status[e] = "ABSENT")

LEMMA InitCommitted == Init => Committed
  BY OutboxAssumption DEF Init, Committed, Holds

LEMMA NextCommitted ==
    ASSUME Typed, Committed, [Next]_vars
    PROVE  /\ Committed'
           /\ OnlyEnqueueCommits \/ \E e \in Events : Enqueue(e)
  <1> USE OutboxAssumption
  <1> USE DEF Committed, OnlyEnqueueCommits, Holds, Busy, row, redis, stack, op
  <1> DEFINE Goal == Committed' /\ OnlyEnqueueCommits
  <1>types. /\ status \in [Events -> Statuses]
            /\ todo \in [Workers -> SUBSET Events]
            /\ cur \in [Workers -> Events \cup {None}]
            /\ opList \in [Operators -> SUBSET Events]
            /\ opCur \in [Operators -> Events \cup {None}]
            /\ \A w \in Workers : pc[w] \in Busy => cur[w] \in Events
            /\ \A o \in Operators : opPc[o] \in {"marker", "apply"} => opCur[o] \in Events
    BY DEF Typed, TypeOK, RowInHand
  <1>0. ASSUME NEW e \in Events, Enqueue(e) PROVE Committed'
    BY <1>0, <1>types DEF Enqueue
  <1>1. ASSUME NEW e \in Events, \/ LeaseExpires(e) \/ BackoffElapses(e) \/ MarkerLost(e)
        PROVE  Goal
    BY <1>1, <1>types DEF LeaseExpires, BackoffElapses, MarkerLost
  <1>2. ASSUME NEW w \in Workers, \/ Reclaim(w) \/ EndBatch(w) \/ Restart(w)
                                  \/ CheckProcessed(w) \/ CheckMarker(w)
        PROVE  Goal
    BY <1>2, <1>types DEF Reclaim, StaleRows, EndBatch, Restart, CheckProcessed, CheckMarker, Goto
  <1>3. ASSUME NEW w \in Workers, Claim(w)
        PROVE  Goal
    BY <1>3, <1>types DEF Claim, Claimable, Goto
  <1>4. ASSUME NEW w \in Workers, Reconcile(w)
        PROVE  Goal
    BY <1>4, <1>types DEF Reconcile, FinalizeDispatched, NextRow, Goto
  <1>5. ASSUME NEW w \in Workers, Publish(w)
        PROVE  Goal
    BY <1>5, <1>types DEF Publish, Goto
  <1>6. ASSUME NEW w \in Workers, Finalize(w)
        PROVE  Goal
    BY <1>6, <1>types DEF Finalize, FinalizeDispatched, Goto
  <1>7. ASSUME NEW w \in Workers, Count(w)
        PROVE  Goal
    BY <1>7, <1>types DEF Count, NextRow, Goto
  <1>8. ASSUME NEW w \in Workers, Catch(w)
        PROVE  Goal
    BY <1>8, <1>types DEF Catch, NextRow, Goto
  <1>9. ASSUME NEW w \in Workers, AbortBatch(w) \/ Crash(w)
        PROVE  Goal
    BY <1>9, <1>types DEF AbortBatch, Crash, Leave, Goto
  <1>10. ASSUME NEW w \in Workers, NEW e \in Events, GiveUp(w, e)
        PROVE  Goal
    BY <1>10, <1>types DEF GiveUp
  <1>11. ASSUME NEW w \in Workers, NEW e \in Events, CheckStatus(w, e)
        PROVE  Goal
    BY <1>11, <1>types DEF CheckStatus, Take, Goto
  <1>12. ASSUME NEW o \in Operators, OpScan(o)
        PROVE  Goal
    BY <1>12, <1>types DEF OpScan, OpGoto
  <1>13. ASSUME NEW o \in Operators, NEW e \in Events, OpCheckProcessed(o, e)
        PROVE  Goal
    BY <1>13, <1>types DEF OpCheckProcessed, OpGoto
  <1>14. ASSUME NEW o \in Operators, OpCheckMarker(o) \/ OpDone(o)
        PROVE  Goal
    BY <1>14, <1>types DEF OpCheckMarker, OpDone, OpGoto
  <1>15. ASSUME NEW o \in Operators, OpApply(o)
        PROVE  Goal
    BY <1>15, <1>types DEF OpApply, OpGoto
  <1>16. CASE UNCHANGED vars
    BY <1>16 DEF vars
  <1> QED
    BY <1>0, <1>1, <1>2, <1>3, <1>4, <1>5, <1>6, <1>7, <1>8, <1>9, <1>10, <1>11, <1>12, <1>13, <1>14, <1>15, <1>16, StepCases

\* The mapped initial state is the abstract one.
LEMMA InitPromise == Init => Promise!Init
  BY DEF Init, Promise!Init

\* Every step maps to an abstract step or to a stutter.
LEMMA NextPromise ==
    ASSUME Typed, Recorded, Committed, Guarded => Exclusive, [Next]_vars
    PROVE  [Promise!Next]_(Promise!vars)
  <1> DEFINE enqueued == {e \in Events : status[e] # "ABSENT"}
  <1>fan. Promise!FannedOut = FannedOut
    BY DEF Promise!FannedOut, FannedOut
  <1>hand. \A w \in Workers : pc[w] \in Busy => cur[w] \in Events
    BY DEF Typed, RowInHand
  <1>1. ASSUME NEW e \in Events, Enqueue(e) PROVE Promise!Enqueue(e)
    BY <1>1 DEF Enqueue, Promise!Enqueue, redis, Typed, TypeOK
  <1>2. ASSUME OnlyEnqueueCommits PROVE enqueued' = enqueued
    BY <1>2 DEF OnlyEnqueueCommits
  <1>3. ASSUME NEW w \in Workers, Publish(w), Bundle(cur[w]), OnlyEnqueueCommits
        PROVE  Promise!Deliver(cur[w])
    <2>1. cur[w] \in Events /\ cur[w] \in enqueued
      BY <1>3, <1>hand DEF Publish, Busy, Committed, Holds
    <2>2. Guarded => cur[w] \notin FannedOut
      BY <1>3 DEF Publish, Exclusive, Unpublished
    <2>3. fanout' = Append(fanout, cur[w]) /\ UNCHANGED processed
      BY <1>3 DEF Publish, Bundle
    <2> QED
      BY <2>1, <2>2, <2>3, <1>2, <1>3, <1>fan DEF Promise!Deliver, Guarded
  <1>4. ASSUME NEW w \in Workers, Finalize(w) \/ Reconcile(w),
               FinalizeDispatched(cur[w]), OnlyEnqueueCommits
        PROVE  Promise!Acknowledge(cur[w])
    <2>1. cur[w] \in FannedOut
      BY <1>4 DEF Finalize, Reconcile, Recorded
    <2>2. UNCHANGED fanout
      BY <1>4 DEF Finalize, Reconcile, redis
    <2> QED
      BY <2>1, <2>2, <1>2, <1>4, <1>fan DEF Promise!Acknowledge, FinalizeDispatched
  <1>5. ASSUME UNCHANGED <<processed, fanout>>, OnlyEnqueueCommits
        PROVE  UNCHANGED Promise!vars
    BY <1>2, <1>5 DEF Promise!vars
  <1>6. OnlyEnqueueCommits \/ \E e \in Events : Enqueue(e)
    BY NextCommitted
  <1>7. \/ UNCHANGED <<processed, fanout>>
        \/ \E w \in Workers : Publish(w) /\ Bundle(cur[w])
        \/ \E w \in Workers : (Finalize(w) \/ Reconcile(w)) /\ FinalizeDispatched(cur[w])
    BY StepCases
       DEF Enqueue, LeaseExpires, BackoffElapses, MarkerLost, Reclaim, Claim, EndBatch,
           CheckProcessed, CheckMarker, Reconcile, Publish, Finalize, Count, Catch,
           AbortBatch, Crash, Leave, Restart, GiveUp, CheckStatus, Take, OpScan, OpCheckMarker,
           OpApply, OpDone, OpCheckProcessed, vars, redis
  <1> QED
    BY <1>1, <1>3, <1>4, <1>5, <1>6, <1>7, <1>hand
       DEF Promise!Next, Publish, Finalize, Reconcile, Busy

\* The worker and the requeue tool implement EventDelivery: only what was
\* enqueued is fanned out, and acknowledged only after that; and not twice when
\* Guarded holds.
THEOREM OutboxImplementsPromise == Spec => ImplementsPromise
  <1>1. Guarded => (Spec => []Exclusive)
    <2> SUFFICES ASSUME Guarded PROVE Spec => []Exclusive
      OBVIOUS
    <2>1. Typed /\ Recorded /\ Exclusive /\ [Next]_vars => Exclusive'
      BY NextExclusive
    <2> QED
      BY <2>1, OutboxTyped, RecordedInv, InitExclusive, PTL DEF Spec
  <1>2. Typed /\ Committed /\ [Next]_vars => Committed'
    BY NextCommitted
  <1>3. Spec => []Committed
    BY <1>2, OutboxTyped, InitCommitted, PTL DEF Spec
  <1>4. Spec => [](Guarded => Exclusive)
    <2>1. CASE Guarded
      <3>1. Spec => []Exclusive
        BY <1>1, <2>1
      <3>2. Exclusive => (Guarded => Exclusive)
        OBVIOUS
      <3> QED
        BY <3>1, <3>2, PTL
    <2>2. CASE ~Guarded
      <3>1. Guarded => Exclusive
        BY <2>2
      <3> QED
        BY <3>1, PTL
    <2> QED
      BY <2>1, <2>2
  <1>5. Typed /\ Recorded /\ Committed /\ (Guarded => Exclusive) /\ [Next]_vars
            => [Promise!Next]_(Promise!vars)
    BY NextPromise
  <1> QED
    BY <1>3, <1>4, <1>5, OutboxTyped, RecordedInv, InitPromise, PTL
       DEF Spec, ImplementsPromise, Promise!Spec

=============================================================================
