------------------------------ MODULE MCCopies ------------------------------
(***************************************************************************)
(* What is kept in one place and shown from another: the conversation of a *)
(* ticket on the pages that show it (TicketThread), a user's profile in    *)
(* Redis (UserCache) and a guild's configuration in the bots (BotConfig).  *)
(* They share no state, so that a behaviour is about one of them, and TLC  *)
(* explores one after the other.                                           *)
(***************************************************************************)
EXTENDS TicketThread, CacheView, ConfigView, TLC

CONSTANTS reporter, admin, d1, d2, q1, q2, r1, w1, w2, e1, c1, b1, b2, s1, s2

TwoPages == {reporter, admin}
OneAdmin == {admin}
TwoDeciders == {d1, d2}
TwoPosts == {q1, q2}

\* Lists can overtake each other on their way to the reporter's page.
Pulls == [p \in TwoPages |-> IF p = reporter THEN 2 ELSE 1]

OneReader == {r1}
TwoReporters == {w1, w2}
OneDecayer == {c1}

\* Who edits a user's flags also repairs the cache.
OneEditor == {e1}

TwoBots == {b1, b2}

\* All that needs the configuration is in the guilds of one bot; the other bot
\* handles messages.
OneAsks == [b \in TwoBots |-> IF b = b1 THEN {s1, s2} ELSE {}]

VARIABLE part

threadVars == vars
cacheVars == <<row, cached, stver, neg, cpc, inHand, cacheFaults>>
configVars == <<configRow, queued, handled, connected, inbox, todo, entry, fresh, failures,
                open, callAt, readRow, overtaken, excused, skipped, configFaults>>

\* A ticket is followed on pages that ask for its messages, with one post at a
\* time, until it is closed by hand; or, for the invariants only, on pages that
\* do not ask by themselves, with two posts at a time and two who decide.
OnePostAtATime ==
    /\ deciding' = {}
    /\ step' # step => Cardinality({q \in Posts : step'[q] # "free"}) < 2

NobodyPulls == \A p \in Pages : asked'[p] > asked[p] => pc'[p] # pc[p]

CopiesInit ==
    /\ part \in {"lists", "posts", "cache", "config"}
    /\ Init /\ Cache!Init /\ Config!Init
    /\ part # "cache" => row = 0

CopiesNext ==
    /\ UNCHANGED part
    /\ \/ part = "lists" /\ Next /\ OnePostAtATime /\ UNCHANGED <<cacheVars, configVars>>
       \/ part = "posts" /\ Next /\ NobodyPulls /\ UNCHANGED <<cacheVars, configVars>>
       \/ part = "cache" /\ Cache!Next /\ UNCHANGED <<threadVars, configVars>>
       \/ part = "config" /\ Config!Next /\ UNCHANGED <<threadVars, cacheVars>>

CopiesSpec ==
    /\ CopiesInit /\ [][CopiesNext]_<<part, threadVars, cacheVars, configVars>>
    /\ \/ part \in {"lists", "posts"} /\ Fairness
       \/ part = "cache" /\ Cache!Fairness
       \/ part = "config" /\ Config!Fairness

\* See UserCache: what stale profile or marker is left goes for good.
CacheConverges == Cache!CacheConverges

\* See BotConfig: every bot comes to hold the current copy or none.
ConfigConverges == Config!ConfigConverges
=============================================================================
