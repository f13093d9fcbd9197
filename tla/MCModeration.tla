---------------------------- MODULE MCModeration ----------------------------
(* TLC instances of Moderation and ActivityStream.  The two share no state, *)
(* so "part" chooses which of them goes on from the initial states of both. *)
EXTENDS Moderation, StreamView, TLC

CONSTANTS m1, m2, q1, q2, l1, l2, p1, p2

VARIABLE part

feed == <<clock, stamp, committed, stream, watermark, ppc, since, items, wire,
          initial, seen, shown, from, newest, overtaken>>

TwoPolls == {p1, p2}

Start ==
    /\ part \in {"reports", "feed"}
    /\ Init /\ Stream!Init

GoOn ==
    /\ UNCHANGED part
    /\ \/ part = "reports" /\ Next /\ UNCHANGED feed
       \/ part = "feed" /\ Stream!Next /\ UNCHANGED vars

BothSpec == Start /\ [][GoOn]_<<part, feed, vars>>

Alike ==
    UNION {Permutations(s) : s \in {{p1, p2}, {m1, m2}, {q1, q2}, {l1, l2}}}
=============================================================================
