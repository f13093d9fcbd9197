------------------------------ MODULE GateView ------------------------------
(* JoinGate under names that do not clash with those of BotCommands, so that a *)
(* module can be about both.                                                *)
EXTENDS Naturals

CONSTANTS Members, Handlers, Presses, Configs, MaxLevel, NoOne, GateFaults

VARIABLES config, level, present, banned, held, card, join, member, seenLevel, seenConfig,
          press, action, onCard, unseen, gateFaults

Gate == INSTANCE JoinGate WITH
    None <- NoOne, MaxFaults <- GateFaults, pc <- join, ppc <- press, faults <- gateFaults

ASSUME GateAssumption == Gate!JoinGateConstants

\* See JoinGate: a member in a hold has a card that works, or one to come.
HeldMembersHaveACard == Gate!HeldMembersHaveACard
=============================================================================
