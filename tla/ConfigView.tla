----------------------------- MODULE ConfigView -----------------------------
(* BotConfig under names that do not clash with those of BotCommands,       *)
(* UserCache or TicketThread, so that a module can be about several.        *)
EXTENDS Integers

CONSTANTS Bots, Slots, Dedupers, FailuresToOpen, NoConfig, MaxCommits, ConfigFaults

VARIABLES configRow, queued, handled, connected, inbox, todo, entry, fresh, failures, open,
          callAt, readRow, overtaken, excused, skipped, configFaults

Config == INSTANCE BotConfig WITH
    row <- configRow, MaxVersion <- MaxCommits, Threshold <- FailuresToOpen,
    None <- NoConfig, MaxFaults <- ConfigFaults, pc <- callAt, seen <- readRow,
    faults <- configFaults

ASSUME ConfigAssumption == Config!BotConfigConstants

\* See BotConfig: types, and nothing is ahead of the row.
ConfigTypeOK == Config!TypeOK

\* See BotConfig: a copy that is out of date has an event on its way, or its
\* bot left one to another.
InvalidationReachesBot == Config!InvalidationReachesBot
=============================================================================
