------------------------------ MODULE BotConfig ------------------------------
(***************************************************************************)
(* A guild's configuration as the bots see it.  ServersService.upsertConfig *)
(* commits a row and an event; the outbox publishes the event on a Pub/Sub *)
(* channel; every connected bot drops its cached copy (eventSubscriber,    *)
(* ServerConfigCache) and reads the row again when it needs it, over HTTP  *)
(* and behind a circuit breaker (ApiClient).                               *)
(*                                                                         *)
(* A configuration is known by the number of commits that led to it, an    *)
(* event by the configuration it announces.                                *)
(*                                                                         *)
(* "overtaken", "excused", "skipped" and the bot in a marker are not in the *)
(* code: they record why a copy may be out of date although no event about *)
(* it is on its way.                                                       *)
(***************************************************************************)
EXTENDS Integers

CONSTANTS
    Bots,
    Slots,       \* concurrent calls of getServer in each bot
    Dedupers,    \* the bots started with BOT_EVENT_DEDUPE
    Threshold,   \* CIRCUIT_FAILURE_THRESHOLD
    None,
    MaxVersion,  \* bound on commits
    MaxFaults    \* bound on failed calls, lost connections, crashes, repeats

\* What is assumed of the constants.
BotConfigConstants ==
    /\ Dedupers \subseteq Bots
    /\ Threshold \in Nat \ {0}
    /\ None \notin Nat
    /\ MaxVersion \in Nat
    /\ MaxFaults \in Nat

Calls == UNION {{b} \X Slots[b] : b \in Bots}

VARIABLES
    row,        \* servers.config
    queued,     \* events in the outbox
    handled,    \* protect:subscriber:handled markers in Redis, and who set them
    connected,  \* bots whose subscription is up
    inbox,      \* messages sent to a bot
    todo,       \* messages a bot has marked as its own to handle
    entry,      \* the bot's cached copy
    fresh,      \* bots whose copy is younger than SERVER_CONFIG_CACHE_TTL_MS
    failures,   \* failed calls since the last good one
    open,       \* bots whose circuit is open
    pc, seen,   \* a call of getServer: its next step, and what it has read
    overtaken,  \* calls that will store a copy no event will correct
    excused,    \* bots with such a copy
    skipped,    \* the newest event each bot left to another bot
    faults

events  == <<queued, handled>>
breaker == <<failures, open>>
cache   == <<entry, fresh, excused, skipped>>
calls   == <<pc, seen, overtaken>>
vars    == <<row, events, connected, inbox, todo, cache, breaker, calls, faults>>

Init ==
    /\ row = 0
    /\ queued = {}
    /\ handled = {}
    /\ connected = Bots
    /\ inbox = [b \in Bots |-> {}]
    /\ todo = [b \in Bots |-> {}]
    /\ entry = [b \in Bots |-> None]
    /\ fresh = {}
    /\ failures = [b \in Bots |-> 0]
    /\ open = {}
    /\ pc = [c \in Calls |-> "idle"]
    /\ seen = [c \in Calls |-> None]
    /\ overtaken = {}
    /\ excused = {}
    /\ skipped = [b \in Bots |-> 0]
    /\ faults = 0

Fault == faults < MaxFaults /\ faults' = faults + 1

\* The calls of bot b that have read the row and not stored it yet.
Reading(b) == {c \in Calls : c[1] = b /\ pc[c] = "reply"}

-----------------------------------------------------------------------------
(* The API and the outbox                                                  *)

\* upsertConfig: the row and its event, in one transaction.
UpsertConfig ==
    /\ row < MaxVersion
    /\ row' = row + 1
    /\ queued' = queued \cup {row'}
    /\ UNCHANGED <<handled, connected, inbox, todo, cache, breaker, calls, faults>>

\* PUBLISH reaches the bots whose subscription is up, and only those; a worker
\* that fails afterwards publishes again.
Publish(v) ==
    /\ v \in queued
    /\ \/ queued' = queued \ {v} /\ UNCHANGED faults
       \/ queued' = queued /\ Fault
    /\ inbox' = [b \in Bots |-> IF b \in connected THEN inbox[b] \cup {v} ELSE inbox[b]]
    /\ excused' = excused \cup (Bots \ connected)
    /\ overtaken' = overtaken \cup UNION {Reading(b) : b \in Bots \ connected}
    /\ UNCHANGED <<row, handled, connected, todo, entry, fresh, skipped, breaker, pc, seen>>

-----------------------------------------------------------------------------
(* The subscriber                                                          *)

Lose(b) == excused' = excused \cup {b} /\ overtaken' = overtaken \cup Reading(b)

KeepCopy(b) == UNCHANGED entry

DropCopy(b) == entry' = [entry EXCEPT ![b] = None]

\* invalidateServerCache
Invalidate(b) ==
    /\ DropCopy(b)
    /\ fresh' = fresh \ {b}
    /\ overtaken' = overtaken \cup Reading(b)
    /\ UNCHANGED <<row, events, connected, excused, skipped, breaker, pc, seen, faults>>

Taken(v) == \E d \in Bots : <<v, d>> \in handled

\* SET NX of the marker, one for all bots: the first one there handles the
\* message, and the others of those that ask leave it to that one.  When the
\* call throws, the message is dropped as malformed.
Mark(b, v) ==
    /\ b \in Dedupers
    /\ v \in inbox[b]
    /\ inbox' = [inbox EXCEPT ![b] = @ \ {v}]
    /\ \/ /\ ~Taken(v)
          /\ handled' = handled \cup {<<v, b>>}
          /\ todo' = [todo EXCEPT ![b] = @ \cup {v}]
          /\ UNCHANGED <<skipped, overtaken, excused, faults>>
       \/ /\ Taken(v)
          /\ skipped' = IF <<v, b>> \in handled \/ skipped[b] > v THEN skipped
                        ELSE [skipped EXCEPT ![b] = v]
          /\ UNCHANGED <<handled, todo, overtaken, excused, faults>>
       \/ /\ Fault /\ Lose(b)
          /\ \/ UNCHANGED handled
             \/ ~Taken(v) /\ handled' = handled \cup {<<v, b>>}
          /\ UNCHANGED <<todo, skipped>>
    /\ UNCHANGED <<row, queued, connected, entry, fresh, breaker, pc, seen>>

Handle(b, v) ==
    \/ b \notin Dedupers /\ v \in inbox[b] /\ inbox' = [inbox EXCEPT ![b] = @ \ {v}]
       /\ UNCHANGED todo /\ Invalidate(b)
    \/ v \in todo[b] /\ todo' = [todo EXCEPT ![b] = @ \ {v}]
       /\ UNCHANGED inbox /\ Invalidate(b)

\* Any other event that names the guild.
HandleOther(b) ==
    /\ b \in connected
    /\ entry[b] # None
    /\ DropCopy(b)
    /\ fresh' = fresh \ {b}
    /\ UNCHANGED <<row, events, connected, inbox, todo, excused, skipped, breaker, calls, faults>>

\* What is sent while the connection is down is lost.
Disconnect(b) ==
    /\ b \in connected
    /\ Fault
    /\ connected' = connected \ {b}
    /\ inbox' = [inbox EXCEPT ![b] = {}]
    /\ Lose(b)
    /\ UNCHANGED <<row, events, todo, entry, fresh, skipped, breaker, pc, seen>>

\* ioredis subscribes again; a restarted bot subscribes when it is ready.
Connect(b) ==
    /\ b \notin connected
    /\ connected' = connected \cup {b}
    /\ UNCHANGED <<row, events, inbox, todo, cache, breaker, calls, faults>>

-----------------------------------------------------------------------------
(* ApiClient.getServer                                                     *)

Answer(c) == pc' = [pc EXCEPT ![c] = "idle"] /\ seen' = [seen EXCEPT ![c] = None]
             /\ overtaken' = overtaken \ {c}

\* A fresh copy is the answer; otherwise the circuit must be closed.
Begin(c) ==
    /\ pc[c] = "idle"
    /\ c[1] \notin fresh
    /\ c[1] \notin open
    /\ pc' = [pc EXCEPT ![c] = "fetch"]
    /\ UNCHANGED <<row, events, connected, inbox, todo, cache, breaker, seen, overtaken, faults>>

\* getByGuildId in the API.
ReadRow(c) ==
    /\ pc[c] = "fetch"
    /\ pc' = [pc EXCEPT ![c] = "reply"]
    /\ seen' = [seen EXCEPT ![c] = row]
    /\ UNCHANGED <<row, events, connected, inbox, todo, cache, breaker, overtaken, faults>>

Receive(c) ==
    /\ pc[c] = "reply"
    /\ entry' = [entry EXCEPT ![c[1]] = seen[c]]
    /\ fresh' = fresh \cup {c[1]}
    /\ excused' = IF c \in overtaken THEN excused \cup {c[1]} ELSE excused \ {c[1]}
    /\ failures' = [failures EXCEPT ![c[1]] = 0]
    /\ Answer(c)
    /\ UNCHANGED <<row, events, connected, inbox, todo, skipped, open, faults>>

RecordFailureLate(b, n) ==
    IF n + 1 > Threshold
    THEN failures' = [failures EXCEPT ![b] = 0] /\ open' = open \cup {b}
    ELSE failures' = [failures EXCEPT ![b] = n + 1] /\ UNCHANGED open

\* recordFailure
RecordFailure(b, n) ==
    IF n + 1 >= Threshold
    THEN failures' = [failures EXCEPT ![b] = 0] /\ open' = open \cup {b}
    ELSE failures' = [failures EXCEPT ![b] = n + 1] /\ UNCHANGED open

\* The call fails for good: an answer that is refused (4xx) is not counted,
\* one that cannot be parsed counts as a success and a failure, everything
\* else is counted once.  The caller gets the old copy or an exception.
CallFails(c) ==
    /\ pc[c] \in {"fetch", "reply"}
    /\ Fault
    /\ \/ RecordFailure(c[1], failures[c[1]])
       \/ pc[c] = "reply" /\ RecordFailure(c[1], 0)
       \/ UNCHANGED breaker
    /\ Answer(c)
    /\ UNCHANGED <<row, events, connected, inbox, todo, cache>>

\* CIRCUIT_OPEN_MS are over.
CircuitCloses(b) ==
    /\ b \in open
    /\ open' = open \ {b}
    /\ UNCHANGED <<row, events, connected, inbox, todo, cache, failures, calls, faults>>

NeverStale(b) == FALSE

GrowsStale(b) ==
    /\ b \in fresh
    /\ fresh' = fresh \ {b}
    /\ UNCHANGED <<row, events, connected, inbox, todo, entry, excused, skipped, breaker, calls, faults>>

\* The process dies; compose restarts it.
Crash(b) ==
    /\ Fault
    /\ connected' = connected \ {b}
    /\ inbox' = [inbox EXCEPT ![b] = {}]
    /\ todo' = [todo EXCEPT ![b] = {}]
    /\ entry' = [entry EXCEPT ![b] = None]
    /\ fresh' = fresh \ {b}
    /\ excused' = excused \ {b}
    /\ failures' = [failures EXCEPT ![b] = 0]
    /\ open' = open \ {b}
    /\ pc' = [c \in Calls |-> IF c[1] = b THEN "idle" ELSE pc[c]]
    /\ seen' = [c \in Calls |-> IF c[1] = b THEN None ELSE seen[c]]
    /\ overtaken' = {c \in overtaken : c[1] # b}
    /\ UNCHANGED <<row, events, skipped>>

-----------------------------------------------------------------------------
Call(c) == Begin(c) \/ ReadRow(c) \/ Receive(c)

Subscriber(b) == \E v \in 1..MaxVersion : Mark(b, v) \/ Handle(b, v)

Next ==
    \/ UpsertConfig
    \/ \E v \in 1..MaxVersion : Publish(v)
    \/ \E b \in Bots :
          \/ Subscriber(b) \/ HandleOther(b) \/ Disconnect(b) \/ Connect(b)
          \/ CircuitCloses(b) \/ GrowsStale(b) \/ Crash(b)
    \/ \E c \in Calls : Call(c) \/ CallFails(c)

Spec == Init /\ [][Next]_vars

\* The outbox publishes, messages are handled, clients reconnect, clocks run,
\* and something in the guild keeps asking for its configuration.
Fairness ==
    /\ WF_vars(\E v \in 1..MaxVersion : Publish(v))
    /\ \A b \in Bots :
          /\ WF_vars(Subscriber(b)) /\ WF_vars(Connect(b))
          /\ WF_vars(CircuitCloses(b)) /\ WF_vars(GrowsStale(b))
    /\ \A c \in Calls : WF_vars(Call(c))

FairSpec == Spec /\ Fairness

-----------------------------------------------------------------------------
Versions == 0..MaxVersion

TypeOK ==
    /\ row \in Versions
    /\ queued \in SUBSET (1..row)
    /\ handled \in SUBSET ((1..row) \X Bots)
    /\ connected \in SUBSET Bots
    /\ inbox \in [Bots -> SUBSET (1..row)]
    /\ todo \in [Bots -> SUBSET (1..row)]
    /\ entry \in [Bots -> (0..row) \cup {None}]
    /\ fresh \in SUBSET {b \in Bots : entry[b] # None}
    /\ failures \in [Bots -> 0..(Threshold - 1)]
    /\ open \in SUBSET Bots
    /\ pc \in [Calls -> {"idle", "fetch", "reply"}]
    /\ seen \in [Calls -> (0..row) \cup {None}]
    /\ \A c \in Calls : seen[c] # None <=> pc[c] = "reply"
    /\ overtaken \in SUBSET {c \in Calls : pc[c] = "reply"}
    /\ excused \in SUBSET Bots
    /\ skipped \in [Bots -> 0..row]
    /\ faults \in 0..MaxFaults

\* The events that bot b has yet to handle.
Coming(b) == queued \cup inbox[b] \cup todo[b]

Outdated(b) == entry[b] # None /\ entry[b] < row

WillBeTold(b) == \E v \in Coming(b) : v > entry[b]

\* A bot with a copy that is out of date has an event about a later one still
\* to handle, unless it was told while it was fetching, a message to it was
\* lost, or it left a later event to another bot.
InvalidationReachesBot ==
    \A b \in Bots :
        Outdated(b) /\ b \notin excused => WillBeTold(b) \/ skipped[b] > entry[b]

\* What the deployment guide says of parallel subscribers with the marker: it
\* spares them a second delivery, and none of them goes without the first.
EveryBotIsTold == \A b \in Bots : Outdated(b) /\ b \notin excused => WillBeTold(b)

\* Once the configuration stays as it is, every bot comes to hold the current
\* copy or none, for good, whatever was lost and whatever failed before.
ConfigConverges == <>[](\A b \in Bots : entry[b] \in {None, row})

=============================================================================
