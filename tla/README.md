# A TLA+ model of the Protect platform

TLA+ specifications, TLC configurations and TLAPS proofs for the anti-cheat
platform in this repository: an HTTP API (`apps/api`, NestJS, Prisma over
Postgres, Redis), an outbox worker (`apps/worker`), a Discord bot (`apps/bot`),
a web dashboard (`apps/web`) and the contracts they share (`packages/shared`).
The models are written from the code. `PROJECT.json` gives, for every
definition, the lines it models, and lists the hazards with the properties that
are aimed at them.

    tlc -workers 2 -config OutboxSafe.cfg MCOutbox      # model-check a run
    tlapm OutboxProofs.tla                              # check the proofs of a module

## 1. The system

| Component | State it keeps | Operations | Interacts with | Correct when | Module |
| --- | --- | --- | --- | --- | --- |
| Outbox (`events/outbox.service.ts`, `worker/src/dispatch.ts`, `api/scripts/outbox-safe-requeue.ts`) | `outbox_events`, `processed_events`, Redis markers, the stream | enqueue, reclaim, claim, dispatch, finalise, retry, requeue | every API transaction writes to it; the bot reads what it publishes | every committed event is fanned out, once if leases and markers hold, and a row fails exactly at the attempt limit | `Outbox` |
| Reputation aggregate (`flags`, `admin-flags`, `domain/flag-policy`, `worker/src/decay-job.ts`) | `users.flag_score`, `flag_level`, `flags` | create, patch, delete flag, approve, decay | row locks in Postgres; outbox; user cache | the score is the sum of the flags; deadlocks end | `UserFlags` |
| User cache (`cache/user-cache.service.ts`, `users.service.ts`) | Redis `user:`, `user:neg:`, `user:stver:` | read through, set if newer, set authoritative, invalidate | the aggregate's writers | no stale profile survives | `UserCache` |
| Reports and tickets (`reports.service.ts`, `tickets.service.ts`) | `reports`, `support_tickets` | create, approve, reject, resolve, evidence, patch | aggregate, outbox | one decision and one flag per report; tickets agree with reports; no evidence is lost | `Moderation` |
| Report limits (`reports-anti-abuse.service.ts`) | day counter and cooldown markers in Redis, recent reports | check, take slots, give them back | the report transactions | cap, spacing, no duplicates | `ReportIntake` |
| Server configuration (`servers.service.ts`; the bot's `apiClient`, `serverConfigCache`, `circuitBreaker`, `eventSubscriber`) | `servers.config`; per bot a copy, a breaker, a subscription | upsert; publish, receive, dedupe, invalidate; fetch | outbox, Pub/Sub, HTTP | bots come to hold the current configuration | `BotConfig` |
| Member sync (`admin-guilds.service.ts`, `servers.service.ts`, `member-sync-schedule-job.ts`, the bot's `memberSync.ts`) | `member_sync_state`, entitlements, the bot's running syncs | request, schedule, start, upload, done, join, leave | outbox, Pub/Sub, HTTP | a key starts one sync; the state settles | `GuildSync` |
| Licences and guilds (`license-keys.service.ts`, `admin-guilds.service.ts`, `servers.service.ts`, the bot's `guildJoinLeave.ts` and `guildSnapshot`) | `license_keys`, `guild_entitlements`, `servers`, the blacklist | generate, revoke, redeem; set an entitlement; join, leave, snapshot | the bot; member sync | a key is worth one entitlement; a decision stands; the row says whether the bot is there | `Licensing` |
| Slash commands (`bot/src/commands`, `discordClient`, `apiClient`, `circuitBreaker`, `guildRateLimiter`, `main`) | per process buckets and a breaker; what Discord shows | reply, defer, edit; call, retry; start, stop | Discord, the API | people are told what happened; nothing is repeated unawares; every command is answered | `BotCommands` |
| Join policy (`guildMemberAdd.ts`, `joinHold.ts`, `joinHoldButton.ts`) | a member's timeout, cards with buttons | hold, kick, ban, notify; press | Discord, the API | nobody is silenced without a card | `JoinGate` |
| Ticket chat (`tickets.service.ts`, the web's `ticket-thread-client.tsx`) | `support_ticket_messages`, the ticket's assignee; a page's list and box | load, poll, send; decide | moderation | one copy for each send; a page catches up; a closed ticket is quiet | `TicketThread` |
| Audit log and its live feed (`audit.service.ts`, `dashboard.service.ts`, `me-dashboard.controller.ts`, the web's `LiveActivityFeed.tsx`) | `audit_logs`; per stream a watermark; a page's rows | log; open, poll, answer; load, receive, close | every admin action logs a row | no row is skipped by overlapping polls; rows in order, none twice | `ActivityStream` |
| Statistics, auth, other dashboards, metrics, alerts, web pages, deployment | little or none | queries, presentation | | | not modelled, section 16 |

What is hard here is concurrency between processes that share Postgres and
Redis without a common lock: any number of workers, API processes and bots.
Everything crosses an `await`. A row is read before a transaction and used in
it; a crash can fall between any two calls; Pub/Sub delivers at most once, the
outbox publishes until it has recorded that it did; a cache fill can be
overtaken by a newer write; a call that its client gave up on still runs in the
server.

How the components interact in the models: the outbox is modelled once, in
full, and proved to implement `EventDelivery`. The modules behind it
(`BotConfig`, `GuildSync`) take from it only that an event committed with a row
is published in the end (`EveryEventSettles`), and possibly again, so they stay
small.
Likewise `UserCache` takes from `UserFlags` that the aggregate's writers
serialise on the user's row, so that a version identifies a snapshot; and
`Moderation`'s transactions are those whose row locks `UserFlags` models.
`GuildSync` asks whether a guild is licensed, `Licensing` how it comes to be;
`BotCommands` takes its copy of the configuration from `BotConfig` (`ShowCopy`);
`TicketThread` takes from `Moderation` that a decision closes the ticket.
Three MC modules hold components that share nothing, so that a behaviour is
about one of them: the variable `part` picks it in the initial state. `MCBot`
has `BotCommands` and `JoinGate`, `MCModeration` has `Moderation` and
`ActivityStream`, and `MCCopies`, about what is kept in one place and shown from
another, has `TicketThread`, `UserCache` and `BotConfig`. `part` also splits an
instance whose bounds would be too large together (`MCBot`, `MCCopies`,
`MCGuildSync`).
What `user-consistency.service.ts` compares on an operator's request is spread
over the two modules that have the state: `ScoreIsSumOfFlags` in `UserFlags`,
`Aligned` in `UserCache`.

## 2. Conventions

A module has the state and the actions of one component; `MC...` gives
TLC its sets, `...Proofs` has the theorems. Five proof modules hold one component each
(`OutboxProofs`, `ReportIntakeProofs`, `GuildSyncProofs`, `LicensingProofs`,
`TicketThreadProofs`); three hold neighbours that share no state: `UserProofs`
(`UserFlags` and `UserCache`), `ModerationProofs` (`Moderation` and
`ActivityStream`) and `BotProofs` (`BotCommands`, `JoinGate` and `BotConfig`). Two
modules that both have an `Init` and a `pc` cannot be extended by one, so the
second one comes in through a view, a module that declares its constants and
variables under names of their own, instantiates it (`Cache!`, `Stream!`,
`Gate!`, `Config!`) and assumes what it assumes of its constants: `CacheView`,
`StreamView`, `GateView`, `ConfigView`. The runs of these modules extend the
same views. One action is one awaited
call, or one Postgres transaction where nothing inside it can be interfered
with. Local variables that live across an `await` are variables of the model.
Time is abstracted to the order of expirations: a lease, a marker, a cache
entry runs out in an action of its own, and where a deployment keeps two
durations apart a constant says so (`SlowWorkers`, `EarlyMarkerLoss`,
`SlowRequests`). `MaxFaults` bounds failures, crashes and losses together,
`MaxVersion` and `MaxCommits` the number of commits. Variables that are not in
the program
(histories, and the reasons for which a state may be out of date) are marked
as such where they are declared. Definitions that a property is tested
against, a dropped guard or an off-by-one, stand before the definition they
would replace and are not used by the specification; `PROJECT.json` lists
them under "mutants".

## 3. Plan

The order of the modules: the outbox and its promise (everything asynchronous
rests on it); the reputation aggregate and its cache (what the platform is
for); moderation and its limits (where people and requests race);
configuration and member sync (the ways through the bot); licences and the
guild's row; then what people see, commands, the join policy, the ticket chat
and the live feed. Each has a run, and of each every safety property a run
checks is proved, save the three that a run refutes (section 15).

What could follow:

1. **Abstract specifications**: what `Moderation`, `Licensing` and `GuildSync`
   promise, as `EventDelivery` and `Reputation` state it of the outbox and of the
   aggregate.
2. **A composition** of `Licensing` and `GuildSync` over one entitlement: a
   licence that ends in the middle of a sync is at present any change of
   `GuildSync`'s `licensed`.
3. **Statistics**: the counters that `stats.service.ts` recomputes beside the
   ones the worker increments.

## 4. Outbox (`EventDelivery`, `Outbox`, `MCOutbox`, `OutboxProofs`)

### The model

`Outbox` has a variable per column of `outbox_events` that matters (`status`,
`attempts`, `lease` for `processing_started_at`, `backoff` for
`next_retry_at`), the set `processed`, Redis's `marker` and the history
`fanout` of applied MULTI bundles, and a program counter with the local
variables of `processOutboxBatch` for each worker. One action is one awaited
call: `Reclaim`, `Claim`, then per row `GiveUp` or `CheckStatus`,
`CheckProcessed`, `CheckMarker`, `Publish`, `Finalize`, `Count`, or
`Reconcile`, or `Catch`. A failed call inside the `try` goes to `Catch`, one
outside it abandons the batch (`AbortBatch`). `Crash` and `Restart` are the
container's. An operator runs `outbox-safe-requeue --apply` (`OpScan` ...
`OpDone`), one call per step.

Clock readings are abstracted to "the lease has run out" (`LeaseExpires`) and
"the backoff is over" (`BackoffElapses`). Two switches name the assumptions a
deployment makes: `SlowWorkers = FALSE` says a live worker finishes its batch
within `PROCESSING_LEASE_SEC`; `EarlyMarkerLoss = FALSE` says Redis keeps a
marker until Postgres has recorded the event.

`EventDelivery` is the promise, a safety one: events are enqueued once, fanned
out only after that, not twice unless `MayRepeat`, and acknowledged only after a
fan-out. It does not say that a fan-out happens; that is `EveryEventSettles`.

### What is checked

| Run | Bounds | Shows |
| --- | --- | --- |
| `OutboxSafe` | 2 events, 2 workers, 1 operator, batches of 2, 2 attempts, 3 faults, both assumptions | a row has one holder, no event is fanned out twice, a row fails exactly at the attempt limit, `EventDelivery` is implemented with at most one fan-out |
| `OutboxLive` | 2 events (one of unknown type), 2 workers, batches of 2, 3 attempts, 2 faults, no assumption | nothing is recorded as dispatched before it was fanned out; every committed event settles |

Two workers and two events are enough for one worker to hold a row while the
other reclaims or claims it, with a second row in the same batch; three faults
allow a crash after the fan-out, a failed call in the pass that follows and a
third failure in the next one. In `OutboxLive` there are fewer faults than
attempts, since a row that fails as often as the limit allows ends FAILED.
Fairness: each worker's loop keeps taking steps (the poll loop never ends), a
crashed container is restarted (`restart: unless-stopped`), and time passes.
None is assumed of the operator, of enqueuing transactions, or of failures.

### What is proved

For every set of events, workers and operators, every batch size, attempt
limit and number of faults:

- `OutboxTypeOK`: types (with `RowInHand`: a worker between its checks and its
  writes has a row).
- `RecordedSafe`: `RecordedOnlyAfterFanout`, under no assumption. The
  invariant `Recorded` adds that a marker implies a fan-out and that a worker
  about to finalise holds a row that was fanned out.
- `NoDuplicateSafe`: `ExclusiveClaim` and `NoDuplicateFanout`, under `Guarded`
  (the two assumptions and no overlapping requeue runs). The invariant
  `Exclusive` says that a held row carries its holder's unexpired lease, a row
  selected for requeue stays FAILED, marker and `processed_events` together
  remember every fan-out, and a worker past its checks holds a row never
  fanned out.
- `ClaimsSafe`: the first half of it by itself, `ExclusiveClaim`.
- `FailsAtLimitSafe`: `FailsExactlyAtLimit`, under `Guarded`. The invariant
  `AtLimit` adds that the `attempts` a worker got with its claim are still the
  row's, which rests on `Exclusive`, and that a row in dispatch has one left.
- `OutboxImplementsPromise`: `Outbox` refines `EventDelivery`, with repetition
  allowed only when `Guarded` does not hold. A refinement of safety: nothing is
  recorded or repeated that should not be.

`EveryEventSettles` is only model-checked.

## 5. Reputation aggregate (`UserFlags`, `Reputation`, `MCUserFlags`, `UserProofs`)

### The model

One user: `weight` and `eff` are the rows of `flags`, `score` and `level` the
columns beside them, `userLock` and `flagLock` Postgres's row locks. Posters
(`createFlag`, instant reports, approvals) lock the user first (`LockUser`)
and then add by increment (`CommitAdd`). Admins (`deleteFlag`, `patchFlag`)
write a flag (`LockFlag`), read all flags (`SumFlags`) and update the user with
the absolute sum (`CommitEdit`), waiting for the row only then. Decayers
(`runDecayJob`) lock the user, read (`ReadFlags`) and write weights and sum
(`CommitDecay`), waiting for the flags' rows. What is uncommitted is private;
statements between which no other transaction can interfere are one step. The
two orders of locking can meet: `Deadlocked` is Postgres's detector, and either
side is rolled back. A second patch of one flag finds its idempotency key
taken (`KeyTaken`). How much a flag loses with age is any value the code's
formula may give (`Decays`): not more than before, and unchanged for
ADMIN_OVERRIDE.

`Reputation` is the promise to readers of the rows: reports (a flag, and its
weight added), edits (a flag removed, given a new weight or left alone, and the
score recounted) and decay passes (no flag heavier, lasting ones in full, the
score recounted) happen one after the other, flags and aggregate at once. An
edit may recount flags as they were, if it ran beside another transaction.

### What is checked

| Run | Bounds | Shows |
| --- | --- | --- |
| `FlagsLive` | 2 flags, weight 1, a poster, 2 admins, a decayer, a fault | the score is the sum of the flags unless the last edit summed flags that had changed; what a decay pass read is what it overwrites, though edits do not lock the user; `Reputation` is implemented; every request ends; where the decay job is switched on it repairs drift |

Two admins are needed for one edit to overwrite another's sum, two flags for
one to be added while another is summed. The first two thresholds lie
among the reachable sums. `drift` records that an edit wrote a sum it had computed from
flags that had changed before it got the user's row; `ScoreIsRight` allows no
other reason for a wrong score, and says that the next current sum ends it.
Fairness: strong, per transaction, because a row lock is given in the order of
waiting and a deadlock is broken after `deadlock_timeout`; weak for the decay
job, which the worker calls in every interval. The job returns at once unless
`FLAG_DECAY_ENABLED` is `'true'` (`decay-job.ts:64`; `.env.example:70` has
`false`): that is the constant `DecayEnabled`, and `DecayHealsDrift` is about
deployments where it is TRUE, as in the run. Without the job, as by default,
nothing but a later edit that no other transaction disturbs puts a drifted
score right. The property also leaves out users without flags, whom the job
does not visit, and edits that never stop. The proofs are for both values.

### What is proved

`Total`, the sum of the weights, is a constant operator with two assumptions
(zero of nothing, and it grows by a new flag's weight); TLC evaluates them for
the sum it uses.

- `UserFlagsTypeOK`, for everything. The invariant (`Typed`, `Serial`) also
  ties locks to program counters.
- `DecayReadsSafe`: `DecayReadsAreCurrent`. An edit that commits while the
  decay job is between its read and its write would have to hold a flag's row
  and the user's; the proof shows that the job's lock on the user excludes it.
- `ScoreSafe`: with ordered thresholds, `ScoreIsRight`, for any mix of reports,
  edits and decay passes.
- `UserFlagsImplementsReputation`: `UserFlags` refines `Reputation`; each commit is
  a step of it, every other step stutters. Decay passes rest on `Serial`, edits
  on `SumsAreOfFlags`: what is about to be written was summed of flags in use,
  and of the flags as they are if no second transaction exists.

## 6. User cache (`UserCache`, `CacheView`, `MCCopies`, `UserProofs`)

The row is known by its `state_version`, which every committed write of the
aggregate increments under the row's lock. `cached`, `stver` and `neg` are the
three keys. Readers fill from a row they read earlier (`ReadRow`, `Fill`);
reports store their transaction's snapshot through the Lua script
(`SetIfNewer`); edits and `repair` read again and store unconditionally
(`RefreshRead`, `RefreshStore`); the decay job deletes the profile but not its
version (`DecayInvalidate`). `Die` is a request that ends between two calls, or
whose Redis call fails.

`Copies` (part `cache`: two reporters, a reader, an editor who also repairs, a
decay job, 3 commits, one fault, requests that may outlive the TTL) checks that a
stored profile was committed and is guarded by its own version, whoever
stored, dropped or expired either; that a report never replaces a profile by an
older one; and that, once the writes stop, whatever stale profile or negative
marker is left goes for good. Two reporters are two commits that reach Redis in
the other order, and with the reader, the editor and the decay job there is
every race of two kinds; three commits leave a process two versions behind.
Fairness: a request proceeds, and keys with a TTL expire. With it convergence
needs no luck; without expiry it is false, since an edit's unconditional store
can leave an old profile. `Aligned` is what `validate` compares: no profile, or
the row's.

Proved for any processes, versions and faults: `UserCacheTypeOK`; `EntrySafe`
(`EntryIsGuarded`); `ReportNeverGoesBackSafe`. That a profile is current when all
is quiet is not true, since readers and edits store without a look at the
version; hence `CacheConverges`, which is model-checked.

## 7. Moderation (`Moderation`, `MCModeration`, `ModerationProofs`)

Per report: its status, whether `flag_id` is set, how many flags it made, its
ticket's status and links, and the idempotency keys that can come up twice. A
decision reads (`CheckApprove`, `CheckReject`, `Resolve`) and commits later
(`CommitApprove`, `CommitReject`) without looking again; evidence likewise
(`CheckEvidence`, `CommitEvidence`). A transaction is one step: it locks user,
report and ticket in this order and reads nothing else that can change.
`Patch`, `DeleteFlag` and the creations are what else touches the rows.

| Run | Bounds | Shows |
| --- | --- | --- |
| `ModerationTickets` (part `reports`) | a report, 2 moderators, an admin who sets any status by hand, one who deletes flags, 2 reporters' requests, 2 links, an image, a fault | one flag per report at most, and the one it names; a ticket that was not closed by hand agrees with its report when it is closed; an acknowledged link is lost only to a submission that overlapped |
| `ModerationTwice` | a report, 2 moderators | refuted: a report that is rejected has no flag |
| `EvidenceOverlap` | a report, an admin who asks for evidence, 2 reporters' requests, 2 links, an image | refuted: an acknowledged link is kept |

Two moderators decide contrarily on one report; reports do not interact, so
one is enough. Two requests with a link each are two submissions that overlap,
an image tells their keys apart (with equal counts the second is refused); two
links in one request and one in the other do so as well. Moderators, requests
and links are symmetric. What keeps the flags apart is only the unique key of
the approval's event, which is why `keys` is in the model.

Two histories say what the code does not keep: `byHand`, the tickets whose
status an admin set last, and `atRisk`, the links that another submission could
overwrite because it had read the ticket before they were written.

Proved, with no assumption on who runs beside whom: `ModerationTypeOK`,
`OneFlagSafe`, `ClosedTicketSafe` (`ClosedTicketAgrees`), and `EvidenceSafe`
(`NoEvidenceLost`), from the invariant that what a submission has read lacks only
links that are at risk (`SnapShort`).

## 8. Report limits (`ReportIntake`, `MCReportIntake`, `ReportIntakeProofs`)

One reporter. Every call of `assertCanReport`, of the report's transaction and
of `rollbackSlots` is a step: `Lookup`, `Incr`, `Expire`, `TakeCooldown`,
`Refund`, `Store` or `StoreFails`, `WriteCache`, `Clear`. The counter may be
without a TTL (a death between INCR and EXPIRE) and may end between an INCR
and its DECR, which then leaves -1. Histories count the reports stored in the
life of a counter and of a marker.

`ReportIntake` (3 requests, a guild and the global scope, one subject, a cap of
2, a fault; requests quicker than the cooldown; symmetric requests) checks
the cap, with one report more for each decrement that gave back what
was not held; at most one report per scope between two cooldowns; and no two
reports with one dedupe key in its window. The exceptions are exact: `stray` is
counted, and `undone` holds only the scopes where the slots of a stored report
were given back (the catch block after a lost COMMIT reply or a failed cache
write). Three requests: one that stores, one that races it and one more that
finds what they left.

Proved for any finite set of requests, all scopes, subjects, caps and faults:
`IntakeTypeOK`; `CapSafe` (the number of held slots and stored reports is never
more than the counter plus the stray decrements, by cardinalities);
`SpacedSafe` and `NoDuplicateSafe` if requests are quicker than the cooldown
(`~SlowRequests`). A slower one would delete a later request's marker, since
DEL does not look whose it is.

## 9. Server configuration (`BotConfig`, `ConfigView`, `MCCopies`, `MCBotConfig`, `BotProofs`)

A configuration is known by the number of its commit. `Publish` reaches the
connected bots only, and may be repeated; with `BOT_EVENT_DEDUPE` a bot first
sets a marker in Redis that all bots share (`Mark`), then drops its copy
(`Handle`, `Invalidate`). `getServer` is `Begin`, `ReadRow` in the API,
`Receive` or `CallFails`; the breaker counts failures and opens. `overtaken`,
`excused` and `skipped` record the three reasons for which a copy may stay out
of date with no event on its way: it was being fetched when the bot was told,
the message was lost, or the bot left it to another one that had the marker.

| Run | Bounds | Shows |
| --- | --- | --- |
| `Copies` (part `config`) | 2 bots that both dedupe, of which one has two calls, threshold 1, 2 commits, one fault | types, and nothing is ahead of the row; a stale copy has a later event on its way or one of the three excuses; in the end every bot holds the current copy or none |
| `ConfigDedupe` | 2 bots that both dedupe, a call each, 2 commits, no fault | refuted: every bot with a stale copy will be told, if no message was lost and none came while it was fetching |

Two bots are what the deployment guide calls parallel subscribers, two commits
are needed for a message about an older copy; with threshold 1 every failure
opens the circuit. Of the two bots only one asks for the configuration, twice
at once: the other takes markers. Fairness: the outbox publishes, handlers
run, clients reconnect, timers fire, and something in the guild keeps asking
for the configuration (every member who joins does).

Proved for all bots, with the marker or without it, concurrent calls,
thresholds, commits and faults: `BotConfigTypeOK` and `InvalidationSafe`
(`InvalidationReachesBot`). Convergence rests on the copy's TTL and is
model-checked.

## 10. Member sync (`GuildSync`, `MCGuildSync`, `GuildSyncProofs`)

One guild. `MarkQueued` and `Enqueue` are the two transactions of a request;
`BeginPass`, `CreateScheduled`, `EndPass` the workers' schedule with its bucket
key; `Publish`, `Receive`, `Drop` the event's way with its dedupe marker;
`Fetch`, `Answer` and the calls (`ReadState`, `SetRunning`, `SetIdle`) the
sync. After its last batch a sync posts alerts (`Alert`), which may take their
time or fail, and says that it is done in any case. A call
belongs to a sync until the bot gives up on it (`CallRepeats`,
`CallGivesUp`) or dies; it then goes on in the API, owned by nobody. `lost`
records that what would end the sync was lost since the state was last IDLE.
Licences and the bot's membership change at any time.

`GuildSync` (a request, 2 workers, 2 rows of the schedule, 2 syncs and 2 calls
at once, 2 batches, a fault) checks that a request and a bucket lead to one sync
at most, however often workers pass and restart and the outbox repeats; that a
guild which is not IDLE has a sync running or on its way unless something was
lost; and that the schedule makes good for every loss as long as the guild is
licensed and the bot is in it. A row of the outbox has an id of its own, and the
bot's marker is the id's: what keeps a bucket at one sync is the unique key of
the row, which a second row in the run would show to be missing. Two workers
whose passes meet and a worker that restarts each add one. The two are apart
(`MCGuildSync`): part `one` is a worker of a licensed guild with all the faults,
part `two` two workers without faults, while the licence comes and goes. Two
syncs are the request's and the schedule's at once; two batches give a first
answer and a last one; a second call is what overlaps with an abandoned one;
`sync-done` is a call like the others and may be repeated too. A bucket is a
day: a pass and the delivery of what it adds end in the bucket they began in.
The bot is one that has `BOT_EVENT_DEDUPE`. Fairness: some worker goes on with
its passes, processes go on with what they have begun, clients reconnect,
buckets pass.

Proved, for all numbers of requests, workers, syncs, calls and batches:
`GuildSyncTypeOK`, `OneSyncSafe`, `SyncIsOnItsWaySafe`. `SyncSettles` is
model-checked.

## 11. Licences and guilds (`Licensing`, `MCLicensing`, `LicensingProofs`)

### The model

The rows of `servers` (`known`, `removed`), `guild_entitlements` (`ent`) and
`license_keys` (`key`, `holder`). A redemption reads the key without a lock
(`BeginRedeem`), upserts the guild's row (`LockServer`) and writes entitlement
and key by id (`CommitRedeem`). A revocation is a read and an update
(`BeginRevoke`, `Revoke`). An admin's request writes the guild's row
(`UpsertServer`) and then the entitlement (`UpsertEntitlement`), or creates it
for a sync (`CreateEntitlement`). The bot's handlers of joins and leaves ask for
the licence first (`Summary`, `LeaveBlacklisted`) and then call the API, whose
transaction locks the guild's row (`Record`) and commits (`CommitRecord`), or
fails on a unique key (`Refused`, `GiveUp`): a guild that is joined again has
the key of its first `guild.discovered` event, so the transaction of the
second join is rolled back and `removed_at` stays set. Snapshots of a guild's
looks are asked for, taken, and recorded late or twice (`RequestRefresh` ...
`RecordSnapshot`): they upsert the row without touching `removed_at`. A call
whose answer is lost is sent again, also when it was carried out.

### What is checked

`Licensing` (2 guilds, a key, 2 redemptions, an admin, 2 handlers, a day, a
fault; at most two requests at work at a time; joins, leaves and admins in one
of the guilds; redemptions and handlers symmetric) checks that

- a key licenses one guild, the one its row names, unless two requests had read
  it before either wrote (`contested`);
- no report of the bot or sync overwrites an entitlement somebody decided on,
  or makes a second trial, unless a repeated call wrote an old decision again;
- a guild's row says whether the bot is there, unless the newest event was
  lost, refused, or overwritten by the slower handler of an earlier one.

Two guilds are what a key could pay for, two handlers what one guild's join
and leave need. Two requests at a time are a race of each pair of kinds; the
proofs are for any number. No liveness is stated: nothing in the code repairs a
row that is astray.

### What is proved

For any guilds, keys, requests, days and faults: `LicensingTypeOK` (with what a
request at each step has in hand); `KeySafe`, from the invariant that a key
which nobody else has read is UNUSED as long as a redemption has it in hand;
`DecisionSafe`, which is inductive by itself; `PresenceSafe`
(`RowShowsPresence`), from the invariant `Presence`: at most one handler of a
guild is at work on its newest event, that handler brings what is the case,
and once it has ended the row is right or the guild is astray.

## 12. Commands and the join policy (`BotCommands`, `JoinGate`, `GateView`, `MCBot`, `BotProofs`)

`BotCommands` follows each interaction from `Arrive` to the last message about
it. The first answer is a reply or a deferral (`Reply`, `Defer`,
`FirstAnswerFails`, then `Sorry`, whose failure nobody catches and ends the
process, `Uncaught`); then the rate limiter (`Consume`), the breaker, the
capabilities and the call. An attempt is carried out, refused (`Reject`), fails
with 500 before or after the commit (`Break`), is turned away with 429 or 503
(`Busy`: the throttler, or the middlewares for backpressure and read-only
mode), or has no answer (`LoseAnswer`), and may then be carried out later
(`ArriveLate`). `RetryMax` bounds the attempts. `Permits` is what the API checks
again, whatever the bot found. The process starts, registers, stops, crashes
and restarts, and forgets buckets and breaker.

`JoinGate` is `onGuildMemberAdd`: two reads at once, a decision by the policy,
the timeout, the card; and the buttons of the card, pressed by several people.
Members come, go, are flagged and are released by time; the configuration
changes between a read and its use.

`Bot` checks that what people are told is what happened; that a command is
carried out once, and once more for each attempt whose outcome the bot was not
told; that in no minute, of the limiter's windows or across two of them, a
guild gets two full windows' commands through; that every command the bot is
done with was answered, unless Discord refused the message; and that a member
who is held has a card whose buttons work, or one about to be sent. It has
three parts, over a limit of two commands a minute:

- `commands`: two interactions, one of which may be any command by anybody, in
  one minute, with one retry, a breaker with threshold 1 that opens for half of
  it, 2 faults. One interaction against another is what a breaker tells
  apart; a call takes one fault to be lost and another to have its repetition
  lost as well.
- `rate`: four interactions over three half minutes, checks and a flag, up to
  their calls and without failures. Four are what the burst at a boundary
  takes: one opens a window, one fills it at its end, one or two more come
  when the next opens. Three of them within a minute do
  happen; the fourth would be two windows' worth.
- `gate`: 2 members, 2 joins, 2 presses, five configurations, a fault. Two joins
  of one member are two cards.

No fairness is needed for these. The permission checks of the buttons are left
out.

Proved of `BotCommands`, for any interactions, offers, guilds, limits, numbers
of retries and faults:

- `BotCommandsTypeOK`.
- `AnswersSafe`, `RepeatsSafe`, `ThinkingSafe`: one invariant of each
  interaction, `Followed`. `AttemptsCounted` bounds what was carried out or may
  still arrive by the lost outcomes and by the attempts; `TruthKept` says that
  the answer in hand and the answer shown are true of what was carried out;
  `Shown` that an interaction past its answer has shown one or failed to. The
  first is needed for the second: "this failed" is true of a command that was
  carried out only because somewhere an outcome was lost.
- `RateSafe`, `RateIsBounded`: a bucket is `Fresh`, or its window is open
  (`WindowOpen`) and the calls let through since it opened are its count. The
  bound of two windows is strict, since the minute before a window opens saw
  fewer than a full one unless it saw nothing of it.

Proved of `JoinGate`, for any members, handlers, presses and configurations:
`JoinGateTypeOK`, and `HeldSafe` (`HeldMembersHaveACard`) from `HoldsKeepACard`: a
held member has a handler about to send its card, or a card that is open and
not spent; a hold and its card are two calls, and what the policy said in
between may have changed.

## 13. Ticket chat (`TicketThread`, `MCCopies`, `TicketThreadProofs`)

One ticket. A page loads ticket and messages in two calls, then asks for the
list every 2.5 seconds (`Pull`) without waiting for the last answer, and shows
whichever arrives last (`ShowList`). Sending (`Send`) starts a request in the
API, which is a read, an insert and an update without a transaction
(`ReadTicket`, `InsertMessage`, `TouchTicket`) and which may end in an error
anywhere (`PostFails`); the page then refreshes itself (`Sent`). When the answer
is lost (`AnswerLost`) the page shows an error in place of the conversation,
while the request goes on, and its reader may send the same again beside it:
`awaited` holds the requests whose page still waits, `setbacks` how often a
page was told that its message failed. An admin reads the report
(`CheckReport`) and decides it (`Decide`), which closes the ticket and assigns it,
also when another one has decided in between; an admin changes the status by
hand (`Patch`). The box of the code stays disabled until the list has been
asked for again; in the model the page may type at once, which allows more.

`Copies` has two parts of it, a reporter's and an admin's page, a message each, a
fault. In `lists` one post runs at a time, nobody decides, two lists are under
way to the reporter; in `posts` two posts run at a time, two admins decide, and
the pages do not ask by themselves. In both, a message is in the thread once,
and once more for each time its sender was told of a failure; a decided ticket
stays assigned to who decided it last, and nothing is added to a closed one,
except by who was half way. In `lists` every page that stays open comes to
show the whole thread although lists overtake each other; `posts` says nothing
of that, since its pages do not go on asking. Two lists are the least that can
overtake each other, two posts the least that a resend needs, two deciders the
least for a second decision. Fairness: a page that is loading or sending gets
its answers, requests end, and a page that is in view goes on asking
(`setInterval`).

Proved for any pages, admins, deciders, requests, texts and lists under way:
`TicketThreadTypeOK`; `QuietSafe`, the action property `ClosedThreadIsQuiet`, from
the invariant that who is about to insert into a closed ticket was half way when
it was closed (`InsertersWereHalfWay`); `DeciderSafe` (`DeciderIsAssigned`), from
the one that an admin who is half way has read who decided it, unless one was
half way at the decision (`DeciderIsSeen`); and `OneCopySafe`, `OneCopyPerSend`,
from a count over the thread and the requests that may still insert
(`CopiesAreCounted`): a text is in either as often as it failed, and once more
if its last try did not. `ThreadCatchesUp` is model-checked.

## 14. Live feed (`ActivityStream`, `StreamView`, `MCModeration`, `ModerationProofs`)

An audit row gets its timestamp when it is written (`Log`) and is visible when
its transaction commits (`Commit`), maybe later than a row with a later
timestamp. A page is rendered with the newest rows (`LoadPage`), its stream
starts some seconds back (`Open`, five in the code), and each tick of the
interval polls without waiting for the poll before (`Poll`, `Read`, `Answer`):
rows behind the `watermark` the poll began with, oldest first, a page full at
most. Each answer sets the watermark to what it had read up to, so a late one
takes it back. The page drops rows it has seen and keeps the newest few
(`Receive`). The stream ends for good with the first failure (`Close`). `from`,
`newest` and `overtaken` are not in the code: where the stream began, how far
any poll has read, and the rows that committed behind that, or that a full
poll cut off although they have the timestamp of its last row.

`ModerationTickets` (the other part: 3 rows, 2 symmetric polls, a poll of 2
rows, a start 1 tick back, 2 points of time) checks that a row which commits
while the stream is open is shown, on its way, or ahead of every poll to come,
unless it was overtaken (`NothingIsSkipped`); and that the feed has no row twice
and is in the log's order but for overtaken ones (`FeedIsInOrder`). Two polls
are what can overlap; three rows of which two fit are a full poll that cuts
one off, and two points of time tell rows of one timestamp from later ones.
Rows that were overtaken are never shown: that is what the code does, and no
document promises otherwise.

Proved for any rows, polls, page sizes and clocks: `ActivityStreamTypeOK`;
`SkippedSafe`, from `OwedIsAhead` (a row that is owed is ahead of the watermark,
of what each poll asked for and, if the poll left it out, of what it read up
to); `FeedSafe`, from `WireInOrder` and `RowsBeforeWire`, which order what was
shown, what is on its way and what the polls hold.

## 15. Disagreements

| Run | The code | What is said of it |
| --- | --- | --- |
| `ModerationTwice` | `approve` and `reject` check the status before their transactions and write whatever it is by then. An approval commits between the check of a rejection and its transaction: the report becomes REJECTED while the flag stands. (In the other order a rejected report becomes ACCEPTED.) | `reports.service.ts:729`: "Report is not pending"; line 197: "PENDING review, no flag until admin approves". |
| `EvidenceOverlap` | `submitEvidence` reads the ticket before its transaction and writes the list it read with its own links added: of two submissions that overlap the later one drops the links of the other, which was answered `{ ok: true }`. | `tickets.service.ts:373`: `const nextLinks = [...prevLinks, ...mergedLinks]`; line 312: "Evidence is not requested for this ticket". |
| `ConfigDedupe` | The marker `protect:subscriber:handled:<eventId>` (`eventSubscriber.ts:80`) is one for all bots, so only the first of several drops its copy; the others keep theirs until its TTL ends. Every process has a cache of its own. | `docs/runbooks/production-deploy.md:82`: "Parallel subscribers: use `BOT_EVENT_DEDUPE` (env) so duplicate Pub/Sub deliveries do not double-invalidate caches." |

These are in the models, as what a property allows, and are not runs:

- `recomputeUser` (`admin-flags.service.ts:24`) sums the flags it sees and
  overwrites the score without having locked the user's row, so a flag that
  commits in between is lost from it, until another edit or, where it is
  switched on, the decay job (`drift`). `user-row-lock.ts:3` says "Serialize
  concurrent flag/report/decay
  mutations for the same user (Postgres row lock)"; `deleteFlag` and
  `patchFlag` never take that lock.
- With failed calls an event can be FAILED though it was dispatched, because the
  statistics counter is incremented inside the `try` after the finalisation
  (`dispatch.ts:182`); and two requeue scripts at once can take a dispatched
  row back to PENDING (`outbox-safe-requeue.ts:117`).
- The idempotency key of a patch is the flag's, not the patch's
  (`admin-flags.service.ts:159`): the second patch of a flag fails (`KeyTaken`).
- A second join of a guild is refused by the key of its first
  (`servers.service.ts:229`), section 11.
- A request that dies between INCR and EXPIRE
  (`reports-anti-abuse.service.ts:69`) leaves a day counter without an end; the
  cap still holds, the reporter is refused for good.
- DEL of the cooldown's marker does not look whose it is
  (`reports-anti-abuse.service.ts:97`): `SpacedSafe` assumes timely requests.

## 16. Not modelled, and what is left to TLC

- Types are proved of every module, for all values of the constants; only the
  run `Copies` checks some as well (`ConfigTypeOK`, which says that no copy and
  no message is ahead of the row).
- Liveness (`EveryEventSettles`, `EveryRequestEnds`, `DecayHealsDrift`,
  `CacheConverges`, `ConfigConverges`, `SyncSettles`, `ThreadCatchesUp`) is
  checked on the instances above only: TLAPS has no rules for `ENABLED`, on
  which fairness rests.
- What a recursive or folded definition computes is assumed where a proof needs
  it (`Total`, section 5), and TLC evaluates the assumptions.
- `RejectedLeavesNoFlag`, `EvidenceKept` and `EveryBotIsTold` are refuted
  (section 15) and have no theorem.
- `upsertConfig` merges its patch into a row it read before the transaction
  (`servers.service.ts:71`), so that one of two patches at once may be lost; a
  configuration is a version in `BotConfig` and the merge is not seen.
- Files of a ticket are written before the transaction that names them and
  nothing reads them back. Platform statistics are recomputed counts that
  nothing else depends on.
- When backpressure and read-only mode refuse a request is left open; that they
  do, and what the bot makes of it, is `Busy`.
- Authentication, dashboards, metrics, the operator's command line, the web's
  other pages, alerts and embeds: no state that changes, or presentation.
- Postgres and Redis are modelled from how they are used: READ COMMITTED, row
  locks, unique keys, atomic MULTI and scripts, keys with a TTL, Pub/Sub. So is
  Discord: any call may be refused.
