------------------------------ MODULE Licensing ------------------------------
(***************************************************************************)
(* Guilds and their licences: the rows of "servers", "guild_entitlements"  *)
(* and "license_keys".  A user redeems a key (LicenseKeysService), a       *)
(* platform admin makes and revokes keys, sets an entitlement on the       *)
(* dashboard or with /sentra platform license, or queues a member sync     *)
(* (AdminGuildsService), and the bot reports that it joined or left a      *)
(* guild (guildJoinLeave, ServersService), and what the guild looks like   *)
(* (guildSnapshot).                                                        *)
(*                                                                         *)
(* Redemptions and the bot's reports are transactions at READ COMMITTED    *)
(* that first upsert the guild's row in "servers", which locks it if it is *)
(* changed; an admin's request is a series of statements on their own.     *)
(* The statements after this one write rows in one order, so that each of  *)
(* them waits for the transaction that wrote first, and are one step with  *)
(* COMMIT.  The bot repeats a call whose answer it did not get.            *)
(*                                                                         *)
(* The variables from "paid" on are not in the code: they record what the  *)
(* properties at the end are about.                                        *)
(***************************************************************************)
EXTENDS Naturals

CONSTANTS
    Guilds, Keys,
    Redeemers,  \* redemptions under way
    Operators,  \* requests of platform admins under way
    Handlers,   \* handlers of guildCreate and guildDelete in the bot
    Preset,     \* presetValidDays of each key, 0 for none
    TrialDays,  \* SENTRA_AUTO_TRIAL_DAYS
    Offers,     \* the entitlements admins choose
    None,
    MaxClock,   \* bound on the days that pass
    MaxFaults   \* bound on lost answers and failed calls

Statuses == {"INACTIVE", "TRIAL", "ACTIVE", "PAST_DUE", "CANCELED"}

Row(status, from, until) == [status |-> status, from |-> from, until |-> until]

Rows == [status : Statuses, from : Nat, until : Nat \cup {None}]

Procs == Redeemers \cup Operators \cup Handlers

ASSUME LicensingAssumption ==
    /\ Preset \in [Keys -> Nat]
    /\ TrialDays \in Nat
    /\ Offers \subseteq Rows
    /\ None \notin Nat \cup Rows \cup Procs \cup Guilds \cup Keys
    /\ Redeemers \cap Operators = {}
    /\ Handlers \cap (Redeemers \cup Operators) = {}
    /\ MaxClock \in Nat
    /\ MaxFaults \in Nat

VARIABLES
    clock,
    known, removed, \* guilds with a row in "servers", and with removed_at set
    ent,            \* guild_entitlements
    key, holder,    \* license_keys: status, redeemed_guild_id
    discovered,     \* guilds whose guild.discovered key is in the outbox
    blacklist,
    serverLock,     \* row locks of "servers"
    pc, guild, arg, \* each request's step, guild, and key, row or event
    missing,        \* handlers that found no entitlement
    present,        \* guilds the bot is in
    refreshes,      \* guilds with a guild.metadata.refresh event on its way
    snapshots,      \* guilds with a snapshot on its way to the API
    faults,
    paid,           \* the guilds a key has licensed
    contested,      \* keys that were used while another request had read them
    decided,        \* the first entitlement of a guild, or what a person chose since
    sent,           \* requests of admins that have been carried out before
    repeated,       \* guilds whose entitlement such a request wrote last
    late,           \* handlers whose guild has had a newer event
    astray          \* guilds whose newest event was lost or overwritten

licences == <<ent, key, holder, discovered, paid, contested, decided, repeated>>
guilds   == <<known, removed, blacklist, present, astray>>
calls    == <<serverLock, pc, guild, arg, missing, sent, late>>
looks    == <<refreshes, snapshots>>
vars     == <<clock, licences, guilds, calls, looks, faults>>

Init ==
    /\ clock = 0
    /\ known = {} /\ removed = {} /\ discovered = {} /\ blacklist = {} /\ present = {}
    /\ ent = [g \in Guilds |-> None]
    /\ key = [k \in Keys |-> "none"]
    /\ holder = [k \in Keys |-> None]
    /\ serverLock = [g \in Guilds |-> None]
    /\ pc = [p \in Procs |-> "idle"]
    /\ guild = [p \in Procs |-> None]
    /\ arg = [p \in Procs |-> None]
    /\ missing = {} /\ sent = {} /\ late = {}
    /\ refreshes = {} /\ snapshots = {}
    /\ faults = 0
    /\ paid = [k \in Keys |-> {}]
    /\ decided = [g \in Guilds |-> None]
    /\ contested = {} /\ repeated = {} /\ astray = {}

Fault == faults < MaxFaults /\ faults' = faults + 1

Goto(p, step) == pc' = [pc EXCEPT ![p] = step]

Start(p, step, g, a) ==
    /\ pc[p] = "idle"
    /\ Goto(p, step)
    /\ guild' = [guild EXCEPT ![p] = g]
    /\ arg' = [arg EXCEPT ![p] = a]

\* The upsert of the guild's row waits for the transaction that holds it.
ServerFree(p) == serverLock[guild[p]] = None

Lock(p) == ServerFree(p) /\ serverLock' = [serverLock EXCEPT ![guild[p]] = p]

Unlock(p) ==
    serverLock' = [g \in Guilds |-> IF serverLock[g] = p THEN None ELSE serverLock[g]]

\* The answer, or COMMIT or ROLLBACK: the lock goes, and so do the local values.
Done(p) ==
    /\ Goto(p, "idle")
    /\ guild' = [guild EXCEPT ![p] = None]
    /\ arg' = [arg EXCEPT ![p] = None]
    /\ Unlock(p)
    /\ missing' = missing \ {p} /\ sent' = sent \ {p} /\ late' = late \ {p}

Until(days) == IF days = 0 THEN None ELSE clock + days

-----------------------------------------------------------------------------
(* License keys                                                            *)

GenerateKey(k) ==
    /\ key[k] = "none"
    /\ key' = [key EXCEPT ![k] = "UNUSED"]
    /\ UNCHANGED <<clock, ent, holder, discovered, paid, contested, decided, repeated>>
    /\ UNCHANGED <<guilds, calls, faults>>

NotRevoked(k) == key[k] \in {"UNUSED", "REDEEMED"}

Redeemable(k) == key[k] = "UNUSED"

\* redeem: the key is read, without a lock.
BeginRedeem(r, k, g) ==
    /\ Redeemable(k)
    /\ Start(r, "read", g, k)
    /\ UNCHANGED <<clock, licences, guilds, serverLock, missing, sent, late, faults>>

\* The upsert changes nothing of a row that is there, and may not lock it then.
LockServer(r) ==
    /\ pc[r] = "read"
    /\ Lock(r) \/ (guild[r] \in known /\ UNCHANGED serverLock)
    /\ Goto(r, "locked")
    /\ UNCHANGED <<clock, licences, guilds, guild, arg, missing, sent, late, faults>>

\* Requests other than p that act on what they read of key k.
Readers(p, k) ==
    {q \in (Redeemers \cup Operators) \ {p} : pc[q] \in {"read", "locked", "revoke"} /\ arg[q] = k}

\* The guild's row, its entitlement and the key's row, which is found by id.
CommitRedeem(r) ==
    LET k == arg[r]  g == guild[r]
        row == Row("ACTIVE", clock, Until(Preset[k])) IN
    /\ pc[r] = "locked"
    /\ known' = known \cup {g}
    /\ ent' = [ent EXCEPT ![g] = row]
    /\ key' = [key EXCEPT ![k] = "REDEEMED"]
    /\ holder' = [holder EXCEPT ![k] = g]
    /\ paid' = [paid EXCEPT ![k] = @ \cup {g}]
    /\ contested' = IF Readers(r, k) = {} THEN contested ELSE contested \cup {k}
    /\ decided' = [decided EXCEPT ![g] = row]
    /\ repeated' = repeated \ {g}
    /\ Done(r)
    /\ UNCHANGED <<clock, discovered, removed, blacklist, present, astray, faults>>

RollBack(r) ==
    /\ pc[r] \in {"read", "locked"}
    /\ Fault
    /\ Done(r)
    /\ UNCHANGED <<clock, licences, guilds>>

\* revokeKey: the check and the update are two statements.
BeginRevoke(o, k) ==
    /\ key[k] \in {"UNUSED", "REVOKED"}
    /\ Start(o, "revoke", None, k)
    /\ UNCHANGED <<clock, licences, guilds, serverLock, missing, sent, late, faults>>

Revoke(o) ==
    LET k == arg[o] IN
    /\ pc[o] = "revoke"
    /\ key' = [key EXCEPT ![k] = "REVOKED"]
    /\ contested' =
         IF Readers(o, k) \cap Redeemers = {} THEN contested ELSE contested \cup {k}
    /\ Done(o)
    /\ UNCHANGED <<clock, ent, holder, discovered, paid, decided, repeated, guilds, faults>>

-----------------------------------------------------------------------------
(* Requests of platform admins                                             *)

BeginUpsert(o, g, row) ==
    /\ Start(o, "server", g, row)
    /\ UNCHANGED <<clock, licences, guilds, serverLock, missing, sent, late, faults>>

\* requestMemberSync for a guild without an entitlement; GuildSync has the rest.
BeginSync(o, g) ==
    /\ ent[g] = None
    /\ Start(o, "server", g, None)
    /\ UNCHANGED <<clock, licences, guilds, serverLock, missing, sent, late, faults>>

UpsertServer(o) ==
    /\ pc[o] = "server"
    /\ ServerFree(o) \/ guild[o] \in known
    /\ known' = known \cup {guild[o]}
    /\ Goto(o, "entitle")
    /\ UNCHANGED <<clock, licences, removed, blacklist, present, astray>>
    /\ UNCHANGED <<serverLock, guild, arg, missing, sent, late, faults>>

\* upsertEntitlement; when its answer is lost the bot sends the same call again.
UpsertEntitlement(o) ==
    LET g == guild[o] IN
    /\ pc[o] = "entitle"
    /\ arg[o] # None
    /\ ent' = [ent EXCEPT ![g] = arg[o]]
    /\ IF o \in sent
       THEN repeated' = repeated \cup {g} /\ UNCHANGED decided
       ELSE repeated' = repeated \ {g} /\ decided' = [decided EXCEPT ![g] = arg[o]]
    /\ \/ Done(o) /\ UNCHANGED faults
       \/ /\ Fault /\ Goto(o, "server") /\ sent' = sent \cup {o}
          /\ UNCHANGED <<serverLock, guild, arg, missing, late>>
    /\ UNCHANGED <<clock, key, holder, discovered, paid, contested, guilds>>

\* An entitlement that the system makes by itself.
FirstRow(g, row) ==
    /\ ent' = [ent EXCEPT ![g] = row]
    /\ decided' = IF decided[g] = None THEN [decided EXCEPT ![g] = row] ELSE decided

\* requestMemberSync creates the row, or fails when there is one by now.
CreateEntitlement(o) ==
    /\ pc[o] = "entitle"
    /\ arg[o] = None
    /\ IF ent[guild[o]] = None
       THEN FirstRow(guild[o], Row("INACTIVE", clock, None))
       ELSE UNCHANGED <<ent, decided>>
    /\ Done(o)
    /\ UNCHANGED <<clock, key, holder, discovered, paid, contested, repeated, guilds, faults>>

\* addGuildBlacklist
Blacklist(g) ==
    /\ blacklist' = blacklist \cup {g}
    /\ g \notin blacklist
    /\ UNCHANGED <<clock, licences, known, removed, present, astray, calls, faults>>

-----------------------------------------------------------------------------
(* The bot's guilds                                                        *)

\* Handlers at work on guild g.
Busy(g) == {h \in Handlers : pc[h] # "idle" /\ guild[h] = g}

BotJoins(h, g) ==
    /\ g \notin present
    /\ present' = present \cup {g}
    /\ late' = (late \cup Busy(g)) \ {h}
    /\ Start(h, "summary", g, "join")
    /\ UNCHANGED <<clock, licences, known, removed, blacklist, astray>>
    /\ UNCHANGED <<serverLock, missing, sent, faults>>

BotLeaves(h, g) ==
    /\ g \in present
    /\ present' = present \ {g}
    /\ late' = (late \cup Busy(g)) \ {h}
    /\ Start(h, "post", g, "leave")
    /\ UNCHANGED <<clock, licences, known, removed, blacklist, astray>>
    /\ UNCHANGED <<serverLock, missing, sent, faults>>

\* getGuildLicenseSummary: on when the guild is not blacklisted or the call fails.
Summary(h) ==
    /\ pc[h] = "summary"
    /\ (guild[h] \notin blacklist /\ UNCHANGED faults) \/ Fault
    /\ Goto(h, "post")
    /\ UNCHANGED <<clock, licences, guilds, serverLock, guild, arg, missing, sent, late>>

\* guild.leave(), and the guildDelete event that it brings about.
LeaveBlacklisted(h) ==
    LET g == guild[h] IN
    /\ pc[h] = "summary"
    /\ g \in blacklist
    /\ IF g \in present
       THEN /\ present' = present \ {g}
            /\ late' = (late \cup Busy(g)) \ {h}
            /\ Goto(h, "post")
            /\ arg' = [arg EXCEPT ![h] = "leave"]
            /\ UNCHANGED <<serverLock, guild, missing, sent>>
       ELSE Done(h) /\ UNCHANGED present
    /\ UNCHANGED <<clock, licences, known, removed, blacklist, astray, faults>>

\* recordBotGuildLifecycle: the guild's row, and the entitlement if there is one.
Record(h) ==
    /\ pc[h] = "post"
    /\ Lock(h)
    /\ missing' = IF ent[guild[h]] = None THEN missing \cup {h} ELSE missing \ {h}
    /\ Goto(h, "record")
    /\ UNCHANGED <<clock, licences, guilds, guild, arg, sent, late, faults>>

CreatesOnJoin(h) == h \in missing \/ arg[h] = "join"

Creates(h) == h \in missing

FirstEntitlement ==
    IF TrialDays = 0 THEN Row("INACTIVE", clock, None) ELSE Row("TRIAL", clock, clock + TrialDays)

\* An entitlement has been made meanwhile, or the guild was joined before: the
\* unique keys refuse the rows of this transaction.
Refused(h) ==
    \/ h \in missing /\ ent[guild[h]] # None
    \/ arg[h] = "join" /\ guild[h] \in discovered

\* A handler that comes last has the say; a late one may undo it.
Settle(h) ==
    LET g == guild[h] IN
    astray' = IF h \notin late THEN astray \ {g}
              ELSE IF Busy(g) \ late # {} THEN astray
              ELSE astray \cup {g}

NeverCleared(h) == IF arg[h] = "leave" THEN removed \cup {guild[h]} ELSE removed

RemovedAfter(h) == IF arg[h] = "leave" THEN removed \cup {guild[h]} ELSE removed \ {guild[h]}

CommitRecord(h) ==
    LET g == guild[h] IN
    /\ pc[h] = "record"
    /\ ~Refused(h)
    /\ known' = known \cup {g}
    /\ removed' = RemovedAfter(h)
    /\ discovered' = IF arg[h] = "join" THEN discovered \cup {g} ELSE discovered
    /\ IF Creates(h) THEN FirstRow(g, FirstEntitlement) ELSE UNCHANGED <<ent, decided>>
    /\ Settle(h)
    /\ \/ Done(h) /\ UNCHANGED faults
       \/ /\ Fault /\ Goto(h, "post") /\ Unlock(h)
          /\ UNCHANGED <<guild, arg, missing, sent, late>>
    /\ UNCHANGED <<clock, key, holder, paid, contested, repeated, blacklist, present>>

\* The event is lost: the transaction was refused, or the call failed for good.
GiveUp(h) ==
    /\ \/ pc[h] = "record" /\ Refused(h) /\ UNCHANGED faults
       \/ pc[h] \in {"post", "record"} /\ Fault
    /\ astray' = IF h \in late THEN astray ELSE astray \cup {guild[h]}
    /\ Done(h)
    /\ UNCHANGED <<clock, licences, known, removed, blacklist, present>>

-----------------------------------------------------------------------------
(* What a guild looks like                                                 *)

\* requestMetadataRefresh
RequestRefresh(g) ==
    /\ refreshes' = refreshes \cup {g}
    /\ UNCHANGED <<clock, licences, guilds, calls, snapshots, faults>>

\* pushGuildSnapshotToApi, for a guild that the bot is in.
Push(g) == g \in present /\ snapshots' = snapshots \cup {g}

\* The event is lost, or comes when the bot has left the guild, or is handled.
Refresh(g) ==
    /\ g \in refreshes
    /\ refreshes' = refreshes \ {g}
    /\ Push(g) \/ UNCHANGED snapshots
    /\ UNCHANGED <<clock, licences, guilds, calls, faults>>

\* After a join, and in every member sync.
TakeSnapshot(g) ==
    /\ Push(g)
    /\ UNCHANGED <<clock, licences, guilds, calls, refreshes, faults>>

\* recordBotGuildSnapshot: the guild's row, which stays removed if it is.  The
\* bot has its answer, or sends the snapshot again.
RecordSnapshot(g) ==
    /\ g \in snapshots
    /\ serverLock[g] = None
    /\ known' = known \cup {g}
    /\ snapshots' = snapshots \ {g} \/ UNCHANGED snapshots
    /\ UNCHANGED <<clock, licences, removed, blacklist, present, astray>>
    /\ UNCHANGED <<calls, refreshes, faults>>

LoseSnapshot(g) ==
    /\ g \in snapshots
    /\ snapshots' = snapshots \ {g}
    /\ UNCHANGED <<clock, licences, guilds, calls, refreshes, faults>>

-----------------------------------------------------------------------------
DayPasses ==
    /\ clock < MaxClock
    /\ clock' = clock + 1
    /\ UNCHANGED <<licences, guilds, calls, faults>>

Redemption(r) ==
    \/ LockServer(r) \/ CommitRedeem(r) \/ RollBack(r)
    \/ \E k \in Keys, g \in Guilds : BeginRedeem(r, k, g)

Administration(o) ==
    \/ Revoke(o) \/ UpsertServer(o) \/ UpsertEntitlement(o) \/ CreateEntitlement(o)
    \/ \E k \in Keys : BeginRevoke(o, k)
    \/ \E g \in Guilds : BeginSync(o, g) \/ \E row \in Offers : BeginUpsert(o, g, row)

Lifecycle(h) ==
    \/ Summary(h) \/ LeaveBlacklisted(h) \/ Record(h) \/ CommitRecord(h) \/ GiveUp(h)
    \/ \E g \in Guilds : BotJoins(h, g) \/ BotLeaves(h, g)

Appearance(g) ==
    \/ RequestRefresh(g) \/ Refresh(g) \/ TakeSnapshot(g)
    \/ RecordSnapshot(g) \/ LoseSnapshot(g)

Licence ==
    \/ DayPasses
    \/ \E k \in Keys : GenerateKey(k)
    \/ \E g \in Guilds : Blacklist(g)
    \/ \E r \in Redeemers : Redemption(r)
    \/ \E o \in Operators : Administration(o)
    \/ \E h \in Handlers : Lifecycle(h)

Next ==
    \/ Licence /\ UNCHANGED looks
    \/ \E g \in Guilds : Appearance(g)

Spec == Init /\ [][Next]_vars

-----------------------------------------------------------------------------
TypeOK ==
    /\ clock \in Nat /\ faults \in Nat
    /\ known \subseteq Guilds /\ removed \subseteq Guilds /\ discovered \subseteq Guilds
    /\ blacklist \subseteq Guilds /\ present \subseteq Guilds
    /\ ent \in [Guilds -> Rows \cup {None}]
    /\ key \in [Keys -> {"none", "UNUSED", "REDEEMED", "REVOKED"}]
    /\ holder \in [Keys -> Guilds \cup {None}]
    /\ serverLock \in [Guilds -> Procs \cup {None}]
    /\ pc \in [Procs -> {"idle", "read", "locked", "revoke", "server", "entitle",
                         "summary", "post", "record"}]
    /\ guild \in [Procs -> Guilds \cup {None}]
    /\ \A r \in Redeemers : arg[r] \in Keys \cup {None}
    /\ \A o \in Operators : arg[o] \in Keys \cup Rows \cup {None}
    /\ \A h \in Handlers : arg[h] \in {"join", "leave", None}
    /\ missing \subseteq Handlers /\ late \subseteq Handlers /\ sent \subseteq Operators
    /\ refreshes \subseteq Guilds /\ snapshots \subseteq Guilds
    /\ paid \in [Keys -> SUBSET Guilds]
    /\ contested \subseteq Keys
    /\ decided \in [Guilds -> Rows \cup {None}]
    /\ repeated \subseteq Guilds /\ astray \subseteq Guilds

\* A key licenses one guild, the one its row names, and none while it is unused
\* or once it was revoked, unless two requests had read it before either wrote.
KeyPaysOnce ==
    \A k \in Keys \ contested :
        paid[k] = IF key[k] = "REDEEMED" THEN {holder[k]} ELSE {}

\* Whatever the bot's reports of joins and leaves and the member syncs run
\* into, a guild keeps its first entitlement, with its one trial, until a
\* person decides otherwise, and then the last decision: save when a repeated
\* call of the bot wrote an old decision again.
DecisionStands == \A g \in Guilds \ repeated : ent[g] = decided[g]

\* When no handler is at work on a guild, its row tells whether the bot is in
\* it, unless its newest event was lost, was refused for a guild joined before,
\* or was overwritten by the slower handler of an earlier event.
RowShowsPresence ==
    \A g \in Guilds \ astray : Busy(g) = {} =>
        /\ g \in present => g \in known /\ g \notin removed
        /\ g \in discovered \ present => g \in removed

=============================================================================
