--------------------------- MODULE EventDelivery ---------------------------
(***************************************************************************)
(* What the transactional outbox may do, as the rest of the platform sees  *)
(* it: nothing is fanned out (published and appended to the stream) that   *)
(* no transaction enqueued, nothing is recorded as processed before its    *)
(* fan-out, and without MayRepeat nothing is fanned out twice.  That an    *)
(* event is fanned out at all is not said here: it is EveryEventSettles of *)
(* Outbox, under fairness.                                                 *)
(***************************************************************************)
EXTENDS Naturals, Sequences

CONSTANTS Events,     \* outbox row ids
          MayRepeat   \* TRUE when an event may be fanned out again

VARIABLES enqueued,   \* events whose transaction committed
          fanout,     \* every fan-out ever performed, in order
          acked       \* events recorded in processed_events

vars == <<enqueued, fanout, acked>>

FannedOut == {fanout[i] : i \in DOMAIN fanout}

Init ==
    /\ enqueued = {}
    /\ fanout = << >>
    /\ acked = {}

Enqueue(e) ==
    /\ e \notin enqueued
    /\ enqueued' = enqueued \cup {e}
    /\ UNCHANGED <<fanout, acked>>

Deliver(e) ==
    /\ e \in enqueued
    /\ MayRepeat \/ e \notin FannedOut
    /\ fanout' = Append(fanout, e)
    /\ UNCHANGED <<enqueued, acked>>

Acknowledge(e) ==
    /\ e \in FannedOut
    /\ acked' = acked \cup {e}
    /\ UNCHANGED <<enqueued, fanout>>

Next == \E e \in Events : Enqueue(e) \/ Deliver(e) \/ Acknowledge(e)

Spec == Init /\ [][Next]_vars

=============================================================================
