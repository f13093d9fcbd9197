----------------------------- MODULE MCGuildSync -----------------------------
(* An instance of GuildSync for TLC: a worker of a licensed guild, with     *)
(* faults, its restarts among them; or two workers whose passes meet, while *)
(* the licence comes and goes and the bot stays.                            *)
EXTENDS GuildSync

CONSTANTS a1, w1, w2, t1, t2, r1, r2, c1, c2

OneRequest == {a1}
TwoWorkers == {w1, w2}
TwoTicks == {t1, t2}
TwoRuns == {r1, r2}
TwoCalls == {c1, c2}

VARIABLE part

OneWorks == licensed /\ w2 \in due

TwoWork == member /\ faults = 0

SyncInit ==
    /\ part \in {"one", "two"}
    /\ Init
    /\ IF part = "one" THEN OneWorks ELSE TwoWork

SyncNext ==
    /\ UNCHANGED part
    /\ Next
    /\ IF part = "one" THEN OneWorks' ELSE TwoWork'

SyncSpec == SyncInit /\ [][SyncNext]_<<part, vars>> /\ Fairness
=============================================================================
