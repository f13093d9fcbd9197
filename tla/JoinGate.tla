------------------------------ MODULE JoinGate ------------------------------
(***************************************************************************)
(* What the bot does about risky members who join one guild: the handler   *)
(* of each join (onGuildMemberAdd), the join hold, and the buttons on the  *)
(* card about it (joinHoldButton).                                         *)
(*                                                                         *)
(* A handler reads the member's level and the guild's configuration, both  *)
(* at once, and acts on them call by call; the member may be flagged or    *)
(* gone by then, the configuration changed, and staff at work on the card  *)
(* of an earlier join.  Discord may refuse any call.                       *)
(***************************************************************************)
EXTENDS Naturals, FiniteSets

CONSTANTS
    Members,
    Handlers,   \* joins, each with a handler and the card it may send
    Presses,    \* presses of a card's buttons
    Configs,    \* configurations the guild may have
    MaxLevel,   \* levels are the ranks of flagLevels, from 0 for CLEAN
    None,
    MaxFaults   \* bound on refused calls, crashes, releases by time

Suspicious == 2

\* alertMinLevel and joinHoldMinLevel are None where they are not set.
ConfigRecords == [channel : BOOLEAN, alertMin : (0 .. MaxLevel) \cup {None},
                  hold : BOOLEAN, holdMin : (0 .. MaxLevel) \cup {None},
                  policy : {"log", "notify", "quarantine", "kick", "ban"}]

\* What is assumed of the constants.
JoinGateConstants ==
    /\ Configs \subseteq ConfigRecords /\ Configs # {}
    /\ MaxLevel \in Nat /\ MaxLevel >= Suspicious
    /\ MaxFaults \in Nat
    /\ None \notin Nat \cup Members \cup Handlers \cup Configs

VARIABLES
    config, level,      \* in the API
    present, banned,    \* in Discord
    held,               \* members whose communication the bot disabled in this stay
    card,               \* each handler's card: none, open, or its outcome
    pc, member,         \* each handler's step and member
    seenLevel, seenConfig,
    ppc, action, onCard,\* each press's step, button and card
    unseen,             \* not in the code: members held whose card Discord refused,
                        \* or the bot died with
    faults

discord  == <<present, banned, held, card, unseen>>
handlers == <<pc, member, seenLevel, seenConfig>>
presses  == <<ppc, action, onCard>>
vars     == <<config, level, discord, handlers, presses, faults>>

Init ==
    /\ config \in Configs
    /\ level = [m \in Members |-> 0]
    /\ present = {} /\ banned = {} /\ held = {} /\ unseen = {}
    /\ card = [h \in Handlers |-> "none"]
    /\ pc = [h \in Handlers |-> "idle"]
    /\ member = [h \in Handlers |-> None]
    /\ seenLevel = [h \in Handlers |-> None]
    /\ seenConfig = [h \in Handlers |-> None]
    /\ ppc = [p \in Presses |-> "idle"]
    /\ action = [p \in Presses |-> "none"]
    /\ onCard = [p \in Presses |-> None]
    /\ faults = 0

Fault == faults < MaxFaults /\ faults' = faults + 1

\* shouldAlertUserLevel
AtLeast(rank, min) == rank >= (IF min = None THEN Suspicious ELSE min)

\* A step of handler h alone.
HandlerGoes(h, step) ==
    /\ pc' = [pc EXCEPT ![h] = step]
    /\ UNCHANGED <<member, seenLevel, seenConfig>>

-----------------------------------------------------------------------------
(* The guild.                                                              *)

Flag(m) ==
    /\ level[m] < MaxLevel
    /\ level' = [level EXCEPT ![m] = MaxLevel]
    /\ UNCHANGED <<config, discord, handlers, presses, faults>>

Configure(c) ==
    /\ c # config
    /\ Fault
    /\ config' = c
    /\ UNCHANGED <<level, discord, handlers, presses>>

Join(h, m) ==
    /\ pc[h] = "idle"
    /\ m \notin present \cup banned
    /\ present' = present \cup {m}
    /\ pc' = [pc EXCEPT ![h] = "read"]
    /\ member' = [member EXCEPT ![h] = m]
    /\ UNCHANGED <<config, level, banned, held, card, unseen, seenLevel, seenConfig>>
    /\ UNCHANGED <<presses, faults>>

HoldEnds(m) == held' = held \ {m} /\ unseen' = unseen \ {m}

\* Who comes back is held when the handler of the new join says so.
Gone(m) == present' = present \ {m} /\ HoldEnds(m)

Leave(m) ==
    /\ m \in present
    /\ Gone(m)
    /\ UNCHANGED <<config, level, banned, card, handlers, presses, faults>>

\* joinHoldDurationMinutes are over.
TimeoutEnds(m) ==
    /\ m \in held
    /\ Fault
    /\ HoldEnds(m)
    /\ UNCHANGED <<config, level, present, banned, card, handlers, presses>>

-----------------------------------------------------------------------------
(* onGuildMemberAdd                                                        *)

\* getUser and getServer, at once; the handler goes on when both have answered.
ReadLevel(h) ==
    /\ pc[h] = "read"
    /\ seenLevel[h] = None
    /\ seenLevel' = [seenLevel EXCEPT ![h] = level[member[h]]]
    /\ UNCHANGED <<config, level, discord, pc, member, seenConfig>>
    /\ UNCHANGED <<presses, faults>>

ReadConfig(h) ==
    /\ pc[h] = "read"
    /\ seenConfig[h] = None
    /\ seenConfig' = [seenConfig EXCEPT ![h] = config]
    /\ UNCHANGED <<config, level, discord, pc, member, seenLevel>>
    /\ UNCHANGED <<presses, faults>>

\* The catch around it all: any error ends the handler.
Abandon(h) ==
    /\ pc[h] \in {"read", "channel", "notify"}
    /\ Fault
    /\ HandlerGoes(h, "end")
    /\ UNCHANGED <<config, level, discord, presses>>

Elevated(h) == AtLeast(seenLevel[h], seenConfig[h].alertMin)

\* shouldApplyJoinHold
JoinHold(h) == seenConfig[h].hold /\ AtLeast(seenLevel[h], seenConfig[h].holdMin)

WantHold(h) == JoinHold(h) \/ (seenConfig[h].policy = "quarantine" /\ Elevated(h))

\* The first thing to do after reading, or nothing.
ChannelFirst(h) == IF seenConfig[h].channel THEN "channel" ELSE "end"

FirstStep(h) ==
    IF WantHold(h) THEN ChannelFirst(h)
    ELSE IF ~Elevated(h) THEN "end"
    ELSE CASE seenConfig[h].policy \in {"kick", "ban"} -> "expel"
           [] seenConfig[h].policy = "notify" /\ seenConfig[h].channel -> "notify"
           [] OTHER -> "end"

Decide(h) ==
    /\ pc[h] = "read"
    /\ seenLevel[h] # None /\ seenConfig[h] # None
    /\ HandlerGoes(h, FirstStep(h))
    /\ UNCHANGED <<config, level, discord, presses, faults>>

\* The alert channel is there, or has been deleted.
FetchChannel(h) ==
    /\ pc[h] = "channel"
    /\ HandlerGoes(h, "timeout") \/ HandlerGoes(h, "end")
    /\ UNCHANGED <<config, level, discord, presses, faults>>

\* member.timeout; when it fails the card says so.
Timeout(h) ==
    /\ pc[h] = "timeout"
    /\ \/ /\ member[h] \in present
          /\ held' = held \cup {member[h]}
          /\ UNCHANGED faults
       \/ Fault /\ UNCHANGED held
       \/ member[h] \notin present /\ UNCHANGED <<held, faults>>
    /\ HandlerGoes(h, "card")
    /\ UNCHANGED <<config, level, present, banned, card, presses, unseen>>

SendCard(h) ==
    /\ pc[h] = "card"
    /\ \/ /\ card' = [card EXCEPT ![h] = "open"]
          /\ UNCHANGED <<unseen, faults>>
       \/ Fault /\ unseen' = unseen \cup ({member[h]} \cap held) /\ UNCHANGED card
    /\ HandlerGoes(h, "end")
    /\ UNCHANGED <<config, level, present, banned, held, presses>>

\* The policies "kick" and "ban", where Discord lets the bot.
Expel(h) ==
    /\ pc[h] = "expel"
    /\ \/ /\ seenConfig[h].policy = "kick"
          /\ Gone(member[h]) /\ UNCHANGED banned
       \/ /\ seenConfig[h].policy = "ban"
          /\ Gone(member[h]) /\ banned' = banned \cup {member[h]}
       \/ UNCHANGED <<present, held, unseen, banned>>
    /\ HandlerGoes(h, "end")
    /\ UNCHANGED <<config, level, card, presses, faults>>

Notify(h) ==
    /\ pc[h] = "notify"
    /\ HandlerGoes(h, "end")
    /\ UNCHANGED <<config, level, discord, presses, faults>>

-----------------------------------------------------------------------------
(* executeJoinHoldButton; who lacks the permission is only told so.        *)

\* joinHoldDisabledRow takes the place of the buttons with the outcome.
ButtonsWork(h) == card[h] = "open"

Press(p, h, a) ==
    /\ ppc[p] = "idle"
    /\ ButtonsWork(h)
    /\ ppc' = [ppc EXCEPT ![p] = "fetch"]
    /\ action' = [action EXCEPT ![p] = a]
    /\ onCard' = [onCard EXCEPT ![p] = h]
    /\ UNCHANGED <<config, level, discord, handlers, faults>>

Target(p) == member[onCard[p]]

PressGoes(p, step) == ppc' = [ppc EXCEPT ![p] = step] /\ UNCHANGED <<action, onCard>>

PressDone(p) ==
    /\ ppc' = [ppc EXCEPT ![p] = "idle"]
    /\ action' = [action EXCEPT ![p] = "none"]
    /\ onCard' = [onCard EXCEPT ![p] = None]

FetchTarget(p) ==
    /\ ppc[p] = "fetch"
    /\ \/ Target(p) \in present /\ PressGoes(p, "act") /\ UNCHANGED faults
       \/ Target(p) \notin present /\ PressDone(p) /\ UNCHANGED faults
       \/ Fault /\ PressDone(p)
    /\ UNCHANGED <<config, level, discord, handlers>>

UpdateAnyway(p) == PressGoes(p, "update")

TellFailure(p) == PressDone(p)

\* Kick, ban or release; a ban also reaches who has left.
Act(p) ==
    LET m == Target(p) IN
    /\ ppc[p] = "act"
    /\ \/ /\ action[p] = "kicked" /\ m \in present
          /\ Gone(m) /\ UNCHANGED banned /\ PressGoes(p, "update")
       \/ /\ action[p] = "banned"
          /\ Gone(m) /\ banned' = banned \cup {m} /\ PressGoes(p, "update")
       \/ /\ action[p] = "released" /\ m \in present
          /\ HoldEnds(m)
          /\ UNCHANGED <<present, banned>> /\ PressGoes(p, "update")
    /\ UNCHANGED <<config, level, card, handlers, faults>>

ActFails(p) ==
    /\ ppc[p] = "act"
    /\ \/ action[p] # "banned" /\ Target(p) \notin present /\ UNCHANGED faults
       \/ Fault
    /\ TellFailure(p)
    /\ UNCHANGED <<config, level, discord, handlers>>

\* The outcome on the card, and its buttons disabled.
Update(p) ==
    /\ ppc[p] = "update"
    /\ \/ card' = [card EXCEPT ![onCard[p]] = action[p]] /\ UNCHANGED faults
       \/ Fault /\ UNCHANGED card
    /\ PressDone(p)
    /\ UNCHANGED <<config, level, present, banned, held, unseen, handlers>>

\* The handlers and presses under way are lost.
BotDies ==
    /\ Fault
    /\ unseen' = unseen \cup
          (held \cap {member[h] : h \in {k \in Handlers : pc[k] = "card"}})
    /\ pc' = [h \in Handlers |-> IF pc[h] = "idle" THEN "idle" ELSE "end"]
    /\ ppc' = [p \in Presses |-> "idle"]
    /\ action' = [p \in Presses |-> "none"]
    /\ onCard' = [p \in Presses |-> None]
    /\ UNCHANGED <<config, level, present, banned, held, card>>
    /\ UNCHANGED <<member, seenLevel, seenConfig>>

-----------------------------------------------------------------------------
Handle(h) ==
    \/ \E m \in Members : Join(h, m)
    \/ ReadLevel(h) \/ ReadConfig(h) \/ Abandon(h) \/ Decide(h) \/ FetchChannel(h)
    \/ Timeout(h) \/ SendCard(h) \/ Expel(h) \/ Notify(h)

Button(p) ==
    \/ \E h \in Handlers, a \in {"kicked", "banned", "released"} : Press(p, h, a)
    \/ FetchTarget(p) \/ Act(p) \/ ActFails(p) \/ Update(p)

Next ==
    \/ \E m \in Members : Flag(m) \/ Leave(m) \/ TimeoutEnds(m)
    \/ \E c \in Configs : Configure(c)
    \/ \E h \in Handlers : Handle(h)
    \/ \E p \in Presses : Button(p)
    \/ BotDies

Spec == Init /\ [][Next]_vars

-----------------------------------------------------------------------------
TypeOK ==
    /\ config \in Configs
    /\ level \in [Members -> 0 .. MaxLevel]
    /\ present \subseteq Members /\ banned \subseteq Members
    /\ card \in [Handlers -> {"none", "open", "kicked", "banned", "released"}]
    /\ pc \in [Handlers -> {"idle", "read", "channel", "timeout", "card", "expel",
                            "notify", "end"}]
    /\ member \in [Handlers -> Members \cup {None}]
    /\ seenLevel \in [Handlers -> (0 .. MaxLevel) \cup {None}]
    /\ seenConfig \in [Handlers -> Configs \cup {None}]
    /\ ppc \in [Presses -> {"idle", "fetch", "act", "update"}]
    /\ action \in [Presses -> {"none", "kicked", "banned", "released"}]
    /\ onCard \in [Presses -> Handlers \cup {None}]
    /\ held \subseteq Members /\ unseen \subseteq Members /\ faults \in Nat

\* Handlers that have yet to send the card of m's hold.
CardsToCome(m) == {h \in Handlers : member[h] = m /\ pc[h] = "card"}

\* Nobody is kept silent without staff knowing: a member in a hold has a card
\* whose buttons work, or one about to be sent, unless Discord refused the card
\* or the bot died with it.
HeldMembersHaveACard ==
    \A m \in held \ unseen :
        \/ CardsToCome(m) # {}
        \/ \E h \in Handlers : member[h] = m /\ ButtonsWork(h)

=============================================================================
