------------------------------- MODULE MCBot -------------------------------
(* TLC instances of BotCommands and JoinGate.  The two share no state, so   *)
(* "part" chooses which of them goes on from the initial states of both:    *)
(* two commands of any kind; checks, more of them than a guild has room for *)
(* in a window; or the gate.                                             *)
EXTENDS BotCommands, GateView, TLC

CONSTANTS i1, i2, i3, i4, g1, m1, m2, j1, j2, b1, b2

VARIABLE part

gate == <<config, level, present, banned, held, card, unseen,
          join, member, seenLevel, seenConfig, press, action, onCard, gateFaults>>

FourInteractions == {i1, i2, i3, i4}
OneGuild == {g1}

Request(cmd, guild, allowed, roles) ==
    [cmd |-> cmd, guild |-> guild, licensed |-> TRUE, manages |-> allowed,
     options |-> allowed, admin |-> allowed, roles |-> roles]

AllRoles == {"user", "trusted", "admin"}

Every == {Request(c, g1, TRUE, AllRoles) : c \in Commands}

NotAllowed == {Request(c, g1, FALSE, AllRoles) : c \in {"config_set", "license", "approve"}}

\* The API refuses them, some although the bot did not.
NotPermitted ==
    {Request("report", g1, TRUE, {}), Request("flag", g1, TRUE, {"user"}),
     Request("reject", g1, TRUE, {"trusted"}),
     [Request("report", g1, TRUE, {"user"}) EXCEPT !.licensed = FALSE],
     [Request("report_status", g1, TRUE, {"user"}) EXCEPT !.options = FALSE]}

DirectMessages == {Request(c, None, TRUE, AllRoles) : c \in {"check", "report"}}

\* One interaction may be anything, another competes with it.
OneOfAll ==
    [i \in FourInteractions |->
        CASE i = i1 -> Every \cup NotAllowed \cup NotPermitted \cup DirectMessages
          [] i = i2 -> {Request(c, g1, TRUE, AllRoles) : c \in {"flag", "check"}}
          [] OTHER  -> {Request("check", g1, TRUE, AllRoles)}]

\* In the part about commands: a minute, in which a circuit opens and closes.
TwoCompete ==
    /\ \A i \in Interactions \ {i1, i2} : pc'[i] = "new"
    /\ clock' < Window

\* In the part about the rate: checks and a flag, up to the calls of those that
\* are let through, and no failures.
UpToTheCall ==
    /\ req'[i1] \in {None, Request("check", g1, TRUE, AllRoles)}
    /\ \A i \in Interactions : pc'[i] # "sent"
    /\ UNCHANGED faults

Config(channel, alertMin, hold, holdMin, policy) ==
    [channel |-> channel, alertMin |-> alertMin, hold |-> hold, holdMin |-> holdMin,
     policy |-> policy]

\* One for each policy; three of them ask for a hold.
FiveConfigs ==
    {Config(TRUE, NoOne, TRUE, 2, "log"), Config(TRUE, 3, FALSE, NoOne, "quarantine"),
     Config(FALSE, 3, TRUE, 3, "kick"), Config(TRUE, 2, FALSE, NoOne, "ban"),
     Config(TRUE, 2, FALSE, NoOne, "notify")}

TwoMembers == {m1, m2}
TwoHandlers == {j1, j2}
TwoPresses == {b1, b2}

Start ==
    /\ part \in {"commands", "rate", "gate"}
    /\ Init /\ Gate!Init
    /\ part # "gate" => config.policy = "log"

GoOn ==
    /\ UNCHANGED part
    /\ \/ /\ part = "commands" /\ Next /\ UNCHANGED gate
          /\ TwoCompete
       \/ /\ part = "rate" /\ Next /\ UNCHANGED gate
          /\ UpToTheCall
       \/ part = "gate" /\ Gate!Next /\ UNCHANGED vars

BothSpec == Start /\ [][GoOn]_<<part, gate, vars>>

Alike == Permutations({m1, m2}) \cup Permutations({j1, j2}) \cup Permutations({b1, b2})

=============================================================================
