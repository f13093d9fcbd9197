---------------------------- MODULE MCLicensing ----------------------------
(* TLC instance of Licensing. *)
EXTENDS Licensing, FiniteSets, TLC

CONSTANTS g1, g2, k1, r1, r2, o1, h1, h2

TwoGuilds == {g1, g2}
OneGuild == {g1}
OneKey == {k1}
TwoRedeemers == {r1, r2}
OneOperator == {o1}
TwoHandlers == {h1, h2}

\* The key is for one day.
OneDay == [k \in OneKey |-> 1]

Cancelled == {Row("CANCELED", 0, None)}

\* Bound on the requests, and events about a guild's looks, under way at a time.
TwoAtATime == Cardinality({p \in Procs : pc[p] # "idle"}) + Cardinality(refreshes) <= 2

\* The bot's events, the blacklist, snapshots and the admins are about one guild.
BusyGuild ==
    /\ g2 \notin present \cup blacklist \cup refreshes
    /\ guild[o1] # g2

AnyRedeemer == Permutations(TwoRedeemers) \cup Permutations(TwoHandlers)

=============================================================================
