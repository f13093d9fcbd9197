----------------------------- MODULE MCBotConfig -----------------------------
(* Two bots that both ask for the marker of a message. *)
EXTENDS ConfigView

CONSTANTS b1, b2, s1

TwoBots == {b1, b2}
OneSlot == [b \in TwoBots |-> {s1}]

ConfigSpec == Config!Spec

\* See BotConfig: with the marker, parallel bots are still all told.
EveryBotIsTold == Config!EveryBotIsTold
=============================================================================
