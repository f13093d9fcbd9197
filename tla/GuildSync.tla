------------------------------ MODULE GuildSync ------------------------------
(***************************************************************************)
(* The member sync of one guild.  An admin's request marks the guild       *)
(* QUEUED and then adds an event to the outbox; the workers' schedule adds *)
(* one per bucket of MEMBER_SYNC_INTERVAL_MS for a licensed guild.  The    *)
(* bot handles the event, uploads the members in batches, the first of     *)
(* which turns QUEUED into RUNNING, posts alerts about flagged members,    *)
(* and says that it is done: IDLE.                                         *)
(*                                                                         *)
(* A bucket is a day: a worker's pass over the guilds and the delivery of  *)
(* the row it adds end in the bucket they began in.                        *)
(*                                                                         *)
(* The bot runs with BOT_EVENT_DEDUPE.                                     *)
(*                                                                         *)
(* "starts" and "lost" are not in the code: they record how many syncs a   *)
(* key has led to, and that what would end the sync was lost.              *)
(***************************************************************************)
EXTENDS Naturals

CONSTANTS
    Requests,   \* calls of requestMemberSync
    Workers,
    Ticks,      \* rows of the outbox that the schedule adds; a bound
    Runs,       \* bound on concurrent syncs in the bot
    Calls,      \* bound on concurrent HTTP calls of those syncs
    Batches,    \* batches of 400 members in the guild
    None,
    MaxFaults

ASSUME SyncAssumption ==
    /\ Batches \in Nat \ {0}
    /\ MaxFaults \in Nat
    /\ Ticks # {} /\ Requests \cap Ticks = {}
    /\ None \notin Runs \cup Requests

\* The rows of the outbox: a request's is known by the request that added it.
Events == Requests \cup Ticks

\* None stands for the key of the current bucket, which all workers use.
Keys     == Requests \cup {None}
KeyOf(v) == IF v \in Requests THEN v ELSE None

VARIABLES
    state,      \* guild_entitlements.member_sync_state
    licensed,   \* a TRIAL or ACTIVE entitlement within its validity
    member,     \* is the bot in the guild?
    discovered, \* the outbox row guild.discovered:<guildId>
    request,    \* the next step of each request
    due, pass,  \* workers whose interval is over, or that have listed the guild
    created,    \* rows of the outbox for the current bucket
    queued,     \* rows not published yet
    connected,  \* is the bot subscribed?
    inbox,      \* messages sent to it
    handled,    \* dedupe markers in Redis
    run, left,  \* the next step of each sync; batches not acknowledged yet
    call, owner,   \* the next step of an HTTP call in the API; the sync that waits for it
    starts, lost, faults

guild    == <<licensed, member, discovered>>
schedule == <<due, pass, created>>
channel  == <<queued, connected, inbox, handled>>
syncs    == <<run, left, call, owner>>
vars     == <<state, guild, request, schedule, channel, syncs, starts, lost, faults>>

Init ==
    /\ state = "IDLE"
    /\ licensed \in BOOLEAN
    /\ member \in BOOLEAN
    /\ discovered = member
    /\ request = [q \in Requests |-> "new"]
    /\ due = Workers
    /\ pass = {}
    /\ created = {}
    /\ queued = {}
    /\ connected = TRUE
    /\ inbox = {}
    /\ handled = {}
    /\ run = [r \in Runs |-> "idle"]
    /\ left = [r \in Runs |-> Batches]
    /\ call = [c \in Calls |-> "free"]
    /\ owner = [c \in Calls |-> None]
    /\ starts = [k \in Keys |-> 0]
    /\ lost = FALSE
    /\ faults = 0

Fault == faults < MaxFaults /\ faults' = faults + 1

-----------------------------------------------------------------------------
(* The guild's entitlement, the admin's request and the schedule           *)

\* upsertEntitlement, a redeemed key, or the end of the validity.
ChangeLicense ==
    /\ licensed' = ~licensed
    /\ UNCHANGED <<state, member, discovered, request, schedule, channel, syncs, starts, lost, faults>>

\* requestMemberSync: first the state, then, in another transaction, the event.
MarkQueued(q) ==
    /\ request[q] = "new"
    /\ request' = [request EXCEPT ![q] = "marked"]
    /\ state' = "QUEUED"
    /\ UNCHANGED <<guild, schedule, channel, syncs, starts, lost, faults>>

Enqueue(q) ==
    /\ request[q] = "marked"
    /\ request' = [request EXCEPT ![q] = "over"]
    /\ \/ queued' = queued \cup {q} /\ UNCHANGED <<lost, faults>>
       \/ Fault /\ lost' = TRUE /\ UNCHANGED queued
    /\ UNCHANGED <<state, guild, schedule, connected, inbox, handled, syncs, starts>>

RequestSwapped(q) ==
    /\ \/ /\ request[q] = "new"
          /\ request' = [request EXCEPT ![q] = "marked"]
          /\ queued' = queued \cup {q}
          /\ UNCHANGED state
       \/ /\ request[q] = "marked"
          /\ request' = [request EXCEPT ![q] = "over"]
          /\ state' = "QUEUED"
          /\ UNCHANGED queued
    /\ UNCHANGED <<guild, schedule, connected, inbox, handled, syncs, starts, lost, faults>>

Request(q) == MarkQueued(q) \/ Enqueue(q)

\* runMemberSyncSchedule: a licensed guild is listed, then gets its row.
BeginPass(w) ==
    /\ w \in due
    /\ due' = due \ {w}
    /\ pass' = IF licensed THEN pass \cup {w} ELSE pass
    /\ UNCHANGED <<state, guild, request, created, channel, syncs, starts, lost, faults>>

\* A row of its own, with an id of its own.
Insert ==
    /\ Ticks \ created # {}
    /\ LET t == CHOOSE t \in Ticks \ created : TRUE
       IN  created' = created \cup {t} /\ queued' = queued \cup {t}

\* The key is unique: P2002 is skipped.
InsertIfNew == IF created # {} THEN UNCHANGED <<created, queued>> ELSE Insert

InsertUnlessBusy == IF state # "IDLE" THEN UNCHANGED <<created, queued>> ELSE InsertIfNew

CreateScheduled == InsertIfNew

EndPass(w) ==
    /\ w \in pass
    /\ pass' = pass \ {w}
    /\ \/ CreateScheduled /\ UNCHANGED faults
       \/ Fault /\ UNCHANGED <<created, queued>>
    /\ UNCHANGED <<state, guild, request, due, connected, inbox, handled, syncs, starts, lost>>

\* A worker that restarts makes a pass at once.
RestartWorker(w) ==
    /\ Fault
    /\ due' = due \cup {w}
    /\ pass' = pass \ {w}
    /\ UNCHANGED <<state, guild, request, created, channel, syncs, starts, lost>>

NextBucket ==
    /\ pass = {}
    /\ Ticks \cap (queued \cup inbox) = {}
    /\ due' = Workers
    /\ created' = {}
    /\ handled' = handled \ Ticks
    /\ starts' = [starts EXCEPT ![None] = 0]
    /\ UNCHANGED <<state, guild, request, pass, queued, connected, inbox, syncs, lost, faults>>

-----------------------------------------------------------------------------
(* From the outbox to the bot                                              *)

Publish(v) ==
    /\ v \in queued
    /\ \/ queued' = queued \ {v} /\ UNCHANGED faults
       \/ queued' = queued /\ Fault
    /\ IF connected
       THEN inbox' = inbox \cup {v} /\ UNCHANGED lost
       ELSE lost' = TRUE /\ UNCHANGED inbox
    /\ UNCHANGED <<state, guild, request, schedule, connected, handled, syncs, starts>>

IdleRuns == {r \in Runs : run[r] = "idle"}

\* A sync begins; which of the unused names it has does not matter.
Start ==
    /\ IdleRuns # {}
    /\ run' = [run EXCEPT ![CHOOSE r \in IdleRuns : TRUE] = "fetch"]

\* SET NX of the marker; then the guild is looked up, and synced.
Receive(v) ==
    /\ v \in inbox
    /\ inbox' = inbox \ {v}
    /\ handled' = handled \cup {v}
    /\ \/ v \in handled /\ UNCHANGED <<run, starts, lost>>
       \/ /\ v \notin handled /\ member
          /\ Start
          /\ starts' = [starts EXCEPT ![KeyOf(v)] = @ + 1]
          /\ UNCHANGED lost
       \/ v \notin handled /\ ~member /\ lost' = TRUE /\ UNCHANGED <<run, starts>>
    /\ UNCHANGED <<state, guild, request, schedule, queued, connected, left, call, owner, faults>>

\* Redis or Discord fails: the message is dropped, marked or not.
Drop(v) ==
    /\ v \in inbox
    /\ Fault
    /\ inbox' = inbox \ {v}
    /\ handled' = handled \/ handled' = handled \cup {v}
    /\ lost' = TRUE
    /\ UNCHANGED <<state, guild, request, schedule, queued, connected, syncs, starts>>

\* onGuildJoined: the second join of a guild fails on the key of the first
\* one's event, and is not followed by a sync.
Join ==
    /\ ~member
    /\ member' = TRUE
    /\ discovered' = TRUE
    /\ IF discovered
       THEN UNCHANGED run
       ELSE Start
    /\ UNCHANGED <<state, licensed, request, schedule, channel, left, call, owner, starts, lost, faults>>

Leave ==
    /\ member
    /\ member' = FALSE
    /\ UNCHANGED <<state, licensed, discovered, request, schedule, channel, syncs, starts, lost, faults>>

-----------------------------------------------------------------------------
(* syncGuildMembersToApi                                                   *)

\* A sync waits for the answer to a call.
Waits(step) == step \in {"batch", "done", "again"}

\* The API's part of a call: a batch reads the state first.
Entry(step) == IF step = "batch" THEN "read" ELSE "setIdle"

\* Run r waits for call c.
Send(r, c, step) ==
    /\ run' = [run EXCEPT ![r] = step]
    /\ call' = [call EXCEPT ![c] = Entry(step)]
    /\ owner' = [owner EXCEPT ![c] = r]

FreeCalls == {c \in Calls : call[c] = "free"}

\* guild.members.fetch, or its failure.
Fetch(r) ==
    /\ run[r] = "fetch"
    /\ FreeCalls # {}
    /\ LET c == CHOOSE c \in FreeCalls : TRUE
       IN  \/ Send(r, c, "batch") /\ UNCHANGED faults
           \/ Send(r, c, "again") /\ IF member THEN Fault ELSE UNCHANGED faults
    /\ left' = [left EXCEPT ![r] = Batches]
    /\ UNCHANGED <<state, guild, request, schedule, channel, starts, lost>>

\* Call c is answered: the sync sends its next batch, or goes on to the alerts,
\* or ends.
Answer(c) ==
    LET r == owner[c]
        last == IF run[r] = "batch" THEN "alerts" ELSE "idle"
    IN  IF r # None /\ run[r] = "batch" /\ left[r] > 1
        THEN Send(r, c, "batch") /\ left' = [left EXCEPT ![r] = @ - 1]
        ELSE /\ call' = [call EXCEPT ![c] = "free"]
             /\ owner' = [owner EXCEPT ![c] = None]
             /\ IF r = None THEN UNCHANGED <<run, left>>
                ELSE run' = [run EXCEPT ![r] = last] /\ left' = [left EXCEPT ![r] = Batches]

\* postSyncElevationAlerts asks for the configuration and for who is flagged,
\* and posts alerts; whatever goes wrong in it, the sync then says that it is
\* done.
Alert(r) ==
    /\ run[r] = "alerts"
    /\ FreeCalls # {}
    /\ Send(r, CHOOSE c \in FreeCalls : TRUE, "done")
    /\ UNCHANGED <<state, guild, request, schedule, channel, left, starts, lost, faults>>

\* batchUpsertGuildMembers
ReadState(c) ==
    /\ call[c] = "read"
    /\ IF state = "QUEUED"
       THEN call' = [call EXCEPT ![c] = "setRunning"] /\ UNCHANGED <<run, left, owner>>
       ELSE Answer(c)
    /\ UNCHANGED <<state, guild, request, schedule, channel, starts, lost, faults>>

SetRunning(c) ==
    /\ call[c] = "setRunning"
    /\ state' = "RUNNING"
    /\ Answer(c)
    /\ UNCHANGED <<guild, request, schedule, channel, starts, lost, faults>>

\* markMemberSyncIdle
SetIdle(c) ==
    /\ call[c] = "setIdle"
    /\ state' = "IDLE"
    /\ Answer(c)
    /\ lost' = \E d \in Calls \ {c} : owner[d] = None /\ call[d] # "free"
    /\ UNCHANGED <<guild, request, schedule, channel, starts, faults>>

\* The bot sees call c fail, whether or not it goes on in the API.
Abandon(c) == {call, [call EXCEPT ![c] = "free"]}

\* The call is sent again, that of the catch too, or the catch says that the
\* sync is done.
CallRepeats(c) ==
    /\ owner[c] # None
    /\ Fault
    /\ lost' = TRUE
    /\ \E rest \in Abandon(c), d \in Calls, step \in {run[owner[c]], "again"} :
          /\ rest[d] = "free"
          /\ run' = [run EXCEPT ![owner[c]] = step]
          /\ call' = [rest EXCEPT ![d] = Entry(step)]
          /\ owner' = [owner EXCEPT ![c] = None, ![d] = owner[c]]
          /\ left' = IF step = "batch" THEN left ELSE [left EXCEPT ![owner[c]] = Batches]
    /\ UNCHANGED <<state, guild, request, schedule, channel, starts>>

\* The call of the catch has failed as often as it is sent.
CallGivesUp(c) ==
    /\ owner[c] # None /\ run[owner[c]] = "again"
    /\ Fault
    /\ lost' = TRUE
    /\ call' \in Abandon(c)
    /\ run' = [run EXCEPT ![owner[c]] = "idle"]
    /\ owner' = [owner EXCEPT ![c] = None]
    /\ UNCHANGED <<state, guild, request, schedule, channel, left, starts>>

-----------------------------------------------------------------------------
Disconnect ==
    /\ connected
    /\ Fault
    /\ connected' = FALSE
    /\ inbox' = {}
    /\ lost' = TRUE
    /\ UNCHANGED <<state, guild, request, schedule, queued, handled, syncs, starts>>

\* The bot dies: its calls go on in the API, nobody waits for them.
Crash ==
    /\ Fault
    /\ connected' = FALSE
    /\ inbox' = {}
    /\ lost' = TRUE
    /\ run' = [r \in Runs |-> "idle"]
    /\ left' = [r \in Runs |-> Batches]
    /\ owner' = [c \in Calls |-> None]
    /\ UNCHANGED <<state, guild, request, schedule, queued, handled, call, starts>>

Connect ==
    /\ ~connected
    /\ connected' = TRUE
    /\ UNCHANGED <<state, guild, request, schedule, queued, inbox, handled, syncs, starts, lost, faults>>

Serve(c) == ReadState(c) \/ SetRunning(c) \/ SetIdle(c)

Next ==
    \/ ChangeLicense \/ Join \/ Leave
    \/ \E q \in Requests : Request(q)
    \/ \E w \in Workers : BeginPass(w) \/ EndPass(w) \/ RestartWorker(w)
    \/ NextBucket
    \/ \E v \in Events : Publish(v) \/ Receive(v) \/ Drop(v)
    \/ \E r \in Runs : Fetch(r) \/ Alert(r)
    \/ \E c \in Calls : Serve(c) \/ CallRepeats(c) \/ CallGivesUp(c)
    \/ Disconnect \/ Crash \/ Connect

Spec == Init /\ [][Next]_vars

\* Processes go on with what they have begun, and clocks run; of the workers
\* some one goes on.
Fairness ==
    /\ \A q \in Requests : WF_vars(Enqueue(q))
    /\ WF_vars(\E w \in Workers : BeginPass(w) \/ EndPass(w))
    /\ WF_vars(NextBucket)
    /\ \A v \in Events : WF_vars(Publish(v)) /\ WF_vars(Receive(v))
    /\ \A r \in Runs : WF_vars(Fetch(r) \/ Alert(r))
    /\ \A c \in Calls : WF_vars(Serve(c))
    /\ WF_vars(Connect)

FairSpec == Spec /\ Fairness

-----------------------------------------------------------------------------
Steps == {"idle", "fetch", "batch", "alerts", "done", "again"}

TypeOK ==
    /\ state \in {"IDLE", "QUEUED", "RUNNING"}
    /\ licensed \in BOOLEAN /\ member \in BOOLEAN /\ discovered \in BOOLEAN
    /\ request \in [Requests -> {"new", "marked", "over"}]
    /\ due \subseteq Workers /\ pass \subseteq Workers /\ created \subseteq Ticks
    /\ queued \subseteq Events /\ inbox \subseteq Events /\ handled \subseteq Events
    /\ connected \in BOOLEAN
    /\ run \in [Runs -> Steps]
    /\ left \in [Runs -> 1..Batches]
    /\ call \in [Calls -> {"free", "read", "setRunning", "setIdle"}]
    /\ owner \in [Calls -> Runs \cup {None}]
    /\ starts \in [Keys -> Nat]
    /\ lost \in BOOLEAN
    /\ faults \in 0..MaxFaults
    \* Every sync that waits has one call, and the right one.
    /\ \A r \in Runs : Waits(run[r]) =>
          \E c \in Calls : \A d \in Calls : owner[d] = r <=> d = c
    /\ \A c \in Calls : owner[c] # None =>
          IF run[owner[c]] = "batch"
          THEN call[c] \in {"read", "setRunning"}
          ELSE run[owner[c]] \in {"done", "again"} /\ call[c] = "setIdle"

\* However many workers run the schedule, however often they restart and an
\* event is published, a request, and a bucket, lead to one sync at most.
OneSyncPerKey == \A k \in Keys : starts[k] <= 1

\* A guild that is not IDLE has a sync that is running or on its way, unless
\* something was lost since it was last IDLE.
SyncIsOnItsWay ==
    state # "IDLE" /\ ~lost =>
        \/ \E q \in Requests : request[q] = "marked" \/ q \in (queued \cup inbox) \ handled
        \/ \E r \in Runs : run[r] # "idle"

\* As long as the guild is licensed and the bot is in it, the schedule makes
\* good for every loss.
SyncSettles == <>[](licensed /\ member) => <>[](state = "IDLE")

=============================================================================
