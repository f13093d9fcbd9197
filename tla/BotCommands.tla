---------------------------- MODULE BotCommands ----------------------------
(***************************************************************************)
(* The slash commands of the bot, from the interaction Discord delivers to *)
(* the last message about it: the handlers of /sentra, the rate limiter of *)
(* a guild, the calls of ApiClient with their retries and the circuit      *)
(* breaker they share, and what the API makes of each attempt.             *)
(*                                                                         *)
(* An interaction has one first answer, a reply or a deferral, and after a *)
(* deferral its message is edited.  Each of these is a call to Discord and *)
(* may fail.  When the last reply of createDiscordClient fails as well,    *)
(* nothing catches the rejection and the process ends.                     *)
(*                                                                         *)
(* An attempt of a call whose answer is lost may have been carried out, or *)
(* be carried out later.  A tick of the clock is half a minute.            *)
(***************************************************************************)
EXTENDS Integers, FiniteSets

CONSTANTS
    Interactions, Guilds,
    Offers,     \* the requests that each interaction may be
    PerMinute,  \* GUILD_COMMANDS_PER_MINUTE
    RetryMax,   \* API_RETRY_MAX
    Threshold,  \* CIRCUIT_FAILURE_THRESHOLD
    OpenFor,    \* CIRCUIT_OPEN_MS, in ticks
    BootTries,  \* attempts to reach the API, and to register commands
    None,
    MaxClock,   \* bound on time
    MaxFaults   \* bound on failures

Window == 2

\* What a command's calls do in the API: "Shows" only read; a repeated "Once"
\* is refused there, a repeated "Again" is carried out again.
Local  == {"help", "setup", "support", "support_dm", "legacy", "unknown"}
Shows  == {"config_show", "check", "reports_mine", "report_status", "reports_pending"}
Once   == {"report", "approve", "reject", "unflag"}
Again  == {"config_set", "flag", "license", "sync_members"}

\* After it has committed the API still refreshes a cache or writes an audit row.
GoesOn == {"report", "approve", "unflag", "flag", "license", "sync_members"}

Commands == Local \cup Shows \cup Once \cup Again

Platform == {"license", "sync_members"}
Staff    == {"reports_pending", "approve", "reject", "unflag"}
Limited  == {"config_show", "config_set", "check", "report", "flag"}

\* Who asks, where, and whether the options make sense; "admin" is what the
\* bot's ADMIN_DISCORD_IDS say, "roles" what the API knows: an account with
\* access, a trusted user, an admin.
Requests == [cmd : Commands, guild : Guilds \cup {None}, licensed : BOOLEAN,
             manages : BOOLEAN, options : BOOLEAN, admin : BOOLEAN,
             roles : SUBSET {"user", "trusted", "admin"}]

ASSUME BotCommandsAssumption ==
    /\ Offers \in [Interactions -> SUBSET Requests]
    /\ PerMinute \in Nat /\ RetryMax \in Nat /\ OpenFor \in Nat
    /\ Threshold \in Nat \ {0} /\ BootTries \in Nat \ {0}
    /\ None \notin Guilds \cup Requests
    /\ MaxClock \in Nat /\ MaxFaults \in Nat

VARIABLES
    clock,
    boot, bootTry,  \* the bot's start
    bucket,         \* GuildRateLimiter, by guild: count and resetAt
    circuit,        \* CircuitBreaker: failures and openedUntil
    pc, req,        \* each interaction's step and request
    tries,          \* attempts of the call under way
    answer,         \* what is about to be said
    shown, told,    \* what Discord shows, and says
    late,           \* attempts at the API that nobody waits for
    \* not in the code: what the API did for an interaction, of how many attempts
    \* the bot was not told the outcome, whether Discord refused a message, and the commands let
    \* through since the bot's start, by guild and tick
    applied, lost, snag, passed,
    faults

process == <<boot, bootTry, bucket, circuit, passed>>
asked   == <<pc, req, tries, answer>>
seen    == <<shown, told, snag>>
api     == <<late, applied, lost>>
vars    == <<clock, process, asked, seen, api, faults>>

FreshBuckets == [g \in Guilds |-> [count |-> 0, resetAt |-> 0]]
Closed == [failures |-> 0, until |-> 0]
NonePassed == [g \in Guilds |-> [t \in 0 .. MaxClock |-> 0]]

Init ==
    /\ clock = 0
    /\ boot = "waiting" /\ bootTry = 1
    /\ bucket = FreshBuckets /\ circuit = Closed /\ passed = NonePassed
    /\ pc = [i \in Interactions |-> "new"]
    /\ req = [i \in Interactions |-> None]
    /\ tries = [i \in Interactions |-> 0]
    /\ answer = [i \in Interactions |-> "none"]
    /\ shown = [i \in Interactions |-> "nothing"]
    /\ told = [i \in Interactions |-> "none"]
    /\ snag = [i \in Interactions |-> FALSE]
    /\ late = [i \in Interactions |-> 0]
    /\ applied = [i \in Interactions |-> 0]
    /\ lost = [i \in Interactions |-> 0]
    /\ faults = 0

Fault == faults < MaxFaults /\ faults' = faults + 1

Goto(i, step) == pc' = [pc EXCEPT ![i] = step]

Cmd(i) == req[i].cmd

-----------------------------------------------------------------------------
(* The process.                                                            *)

\* waitForApiReady
ApiReady ==
    /\ boot = "waiting"
    /\ boot' = "registering" /\ bootTry' = 1
    /\ UNCHANGED <<clock, bucket, circuit, passed, asked, seen, api, faults>>

ApiNotReady ==
    /\ boot = "waiting"
    /\ Fault
    /\ IF bootTry < BootTries THEN bootTry' = bootTry + 1 /\ UNCHANGED boot
       ELSE bootTry' = 1 /\ boot' = "down"
    /\ UNCHANGED <<clock, bucket, circuit, passed, asked, seen, api>>

\* registerSlashCommands: interactions arrive meanwhile, and after it gave up.
Register ==
    /\ boot = "registering"
    /\ \/ boot' = "serving" /\ bootTry' = 1 /\ UNCHANGED faults
       \/ /\ Fault
          /\ IF bootTry < BootTries THEN bootTry' = bootTry + 1 /\ UNCHANGED boot
             ELSE boot' = "serving" /\ bootTry' = 1
    /\ UNCHANGED <<clock, bucket, circuit, passed, asked, seen, api>>

Up == boot \in {"registering", "serving"}

UnderWay == {i \in Interactions : pc[i] \notin {"new", "end", "dropped"}}

\* All that the process was doing is gone; the API goes on with what it has.
Exit ==
    /\ boot' = "down" /\ bootTry' = 1
    /\ bucket' = FreshBuckets /\ circuit' = Closed /\ passed' = NonePassed
    /\ pc' = [i \in Interactions |-> IF i \in UnderWay THEN "dropped" ELSE pc[i]]
    /\ tries' = [i \in Interactions |-> 0]
    /\ answer' = [i \in Interactions |-> "none"]
    /\ late' = [i \in Interactions |-> IF pc[i] = "sent" THEN late[i] + 1 ELSE late[i]]
    /\ lost' = [i \in Interactions |-> IF pc[i] = "sent" THEN lost[i] + 1 ELSE lost[i]]

\* SIGTERM, or the container is killed.
Stop ==
    /\ Up
    /\ Fault
    /\ Exit
    /\ UNCHANGED <<clock, req, seen, applied>>

Restart ==
    /\ boot = "down"
    /\ boot' = "waiting"
    /\ UNCHANGED <<clock, bootTry, bucket, circuit, passed, asked, seen, api, faults>>

-----------------------------------------------------------------------------
(* Messages to Discord.                                                    *)

\* The message is accepted.
Says(i, what) ==
    /\ shown' = [shown EXCEPT ![i] = "answer"]
    /\ told' = [told EXCEPT ![i] = what]
    /\ UNCHANGED snag

Refused(i) == snag' = [snag EXCEPT ![i] = TRUE] /\ UNCHANGED <<shown, told>>

Arrive(i, r) ==
    /\ Up
    /\ pc[i] = "new"
    /\ Goto(i, "first")
    /\ req' = [req EXCEPT ![i] = r]
    /\ UNCHANGED <<clock, process, tries, answer, seen, api, faults>>

\* What the handlers look at before they defer.
ConfigViewRefuses(r) == r.guild = None \/ ~r.manages
ConfigSetRefuses(r)  == ConfigViewRefuses(r) \/ ~r.options
PlatformRefuses(r)   == ~r.admin
OutsideGuild(r)      == r.guild = None

RefusesAtOnce(r) ==
    \/ r.cmd = "config_show" /\ ConfigViewRefuses(r)
    \/ r.cmd = "config_set" /\ ConfigSetRefuses(r)
    \/ r.cmd \in Platform /\ PlatformRefuses(r)
    \/ r.cmd \in {"report", "flag"} /\ OutsideGuild(r)

Reply(i) ==
    /\ pc[i] = "first"
    /\ RefusesAtOnce(req[i]) \/ Cmd(i) \in Local
    /\ Says(i, IF Cmd(i) \in Local THEN "shown" ELSE "refused")
    /\ Goto(i, IF Cmd(i) = "support_dm" THEN "dm" ELSE "end")
    /\ UNCHANGED <<clock, process, req, tries, answer, api, faults>>

Defer(i) ==
    /\ pc[i] = "first"
    /\ ~RefusesAtOnce(req[i]) /\ Cmd(i) \notin Local
    /\ shown' = [shown EXCEPT ![i] = "thinking"]
    /\ Goto(i, "deferred")
    /\ UNCHANGED <<clock, process, req, tries, answer, told, snag, api, faults>>

FirstAnswerFails(i) ==
    /\ pc[i] = "first"
    /\ Fault
    /\ Refused(i)
    /\ Goto(i, "sorry")
    /\ UNCHANGED <<clock, process, req, tries, answer, api>>

\* The catch block of createDiscordClient: neither replied nor deferred.
Sorry(i) ==
    /\ pc[i] = "sorry"
    /\ Says(i, "failed")
    /\ Goto(i, "end")
    /\ UNCHANGED <<clock, process, req, tries, answer, api, faults>>

\* Its reply fails too, and ends the process.
Uncaught(i) ==
    /\ pc[i] = "sorry"
    /\ Fault
    /\ Exit
    /\ UNCHANGED <<clock, req, seen, applied>>

\* The links by DM, or a followUp when DMs are closed.
DirectMessage(i) ==
    /\ pc[i] = "dm"
    /\ Goto(i, "end")
    /\ UNCHANGED <<clock, process, req, tries, answer, seen, api, faults>>

\* editReply, inside a handler's try block or ("plain") outside of one.
Edit(i) ==
    /\ pc[i] \in {"edit", "plain"}
    /\ Says(i, answer[i])
    /\ Goto(i, IF Cmd(i) = "check" /\ answer[i] = "shown" THEN "after" ELSE "end")
    /\ answer' = [answer EXCEPT ![i] = "none"]
    /\ UNCHANGED <<clock, process, req, tries, api, faults>>

\* The catch block says that the command failed, whatever was to be said.
EditFails(i) ==
    /\ pc[i] = "edit"
    /\ Fault
    /\ Refused(i)
    /\ Goto(i, "plain")
    /\ answer' = [answer EXCEPT ![i] = "failed"]
    /\ UNCHANGED <<clock, process, req, tries, api>>

\* The interaction was deferred: the outer catch block only logs.
PlainEditFails(i) ==
    /\ pc[i] = "plain"
    /\ Fault
    /\ Refused(i)
    /\ Goto(i, "end")
    /\ answer' = [answer EXCEPT ![i] = "none"]
    /\ UNCHANGED <<clock, process, req, tries, api>>

-----------------------------------------------------------------------------
(* The limiter and the breaker.                                            *)

NewWindow == [count |-> 0, resetAt |-> clock + Window]

BucketOfHalfAMinute(g) == IF clock + 1 >= bucket[g].resetAt THEN NewWindow ELSE bucket[g]

Bucket(g) == IF clock >= bucket[g].resetAt THEN NewWindow ELSE bucket[g]

Room(b) == b.count < PerMinute

\* tryConsume, in a guild; a command outside of one is not limited.
Consume(i, step) ==
    LET g == req[i].guild IN
    IF g = None THEN Goto(i, step) /\ UNCHANGED <<bucket, passed, answer>>
    ELSE LET b == Bucket(g) IN
         IF Room(b)
         THEN /\ bucket' = [bucket EXCEPT ![g] = [b EXCEPT !.count = @ + 1]]
              /\ passed' = [passed EXCEPT ![g][clock] = @ + 1]
              /\ Goto(i, step)
              /\ UNCHANGED answer
         ELSE /\ bucket' = [bucket EXCEPT ![g] = b]
              /\ answer' = [answer EXCEPT ![i] = "limited"]
              /\ Goto(i, "plain")
              /\ UNCHANGED passed

\* executeConfigView, executeConfigSet, executeCheck, executeFlag and
\* executeReport, which first asks for the reporter's capabilities.
BeginLimited(i) ==
    /\ pc[i] = "deferred"
    /\ Cmd(i) \in Limited
    /\ Consume(i, IF Cmd(i) = "report" THEN "capabilities" ELSE "call")
    /\ UNCHANGED <<clock, boot, bootTry, circuit, req, tries, seen, api, faults>>

\* executeSentraAdmin
BeginPlatform(i) ==
    /\ pc[i] = "deferred"
    /\ Cmd(i) \in Platform
    /\ Goto(i, "call")
    /\ UNCHANGED <<clock, process, req, tries, answer, seen, api, faults>>

\* executeSentraPlatform, for one's own reports
BeginMine(i) ==
    /\ pc[i] = "deferred"
    /\ Cmd(i) \in {"reports_mine", "report_status"}
    /\ Goto(i, "call")
    /\ UNCHANGED <<clock, process, req, tries, answer, seen, api, faults>>

BeginStaff(i) ==
    /\ pc[i] = "deferred"
    /\ Cmd(i) \in Staff
    /\ IF req[i].admin THEN Goto(i, "call") /\ UNCHANGED answer
       ELSE Goto(i, "edit") /\ answer' = [answer EXCEPT ![i] = "refused"]
    /\ UNCHANGED <<clock, process, req, tries, seen, api, faults>>

RecordFailure ==
    circuit' = IF circuit.failures + 1 >= Threshold
               THEN [failures |-> 0, until |-> clock + OpenFor]
               ELSE [circuit EXCEPT !.failures = @ + 1]

RecordSuccess == circuit' = [circuit EXCEPT !.failures = 0]

Open == clock < circuit.until

-----------------------------------------------------------------------------
(* Calls of the API.                                                       *)

FailsSilently(i) == Goto(i, "end") /\ UNCHANGED answer

\* A handler's catch block.
Fails(i) == Goto(i, "plain") /\ answer' = [answer EXCEPT ![i] = "failed"]

\* discordCapabilities
CanReport(r) == r.roles # {}

CircuitOpen(i) ==
    /\ pc[i] \in {"capabilities", "call"}
    /\ Open
    /\ Fails(i)
    /\ UNCHANGED <<clock, process, req, tries, seen, api, faults>>

\* getDiscordCapabilities: who may not report is told so.
Capabilities(i) ==
    /\ pc[i] = "capabilities"
    /\ ~Open
    /\ RecordSuccess
    /\ IF CanReport(req[i]) THEN Goto(i, "call") /\ UNCHANGED answer
       ELSE Goto(i, "edit") /\ answer' = [answer EXCEPT ![i] = "refused"]
    /\ UNCHANGED <<clock, boot, bootTry, bucket, passed, req, tries, seen, api, faults>>

CapabilitiesFail(i) ==
    /\ pc[i] = "capabilities"
    /\ ~Open
    /\ Fault
    /\ RecordFailure
    /\ Fails(i)
    /\ UNCHANGED <<clock, boot, bootTry, bucket, passed, req, tries, seen, api>>

Send(i) ==
    /\ pc[i] = "call"
    /\ ~Open
    /\ Goto(i, "sent")
    /\ tries' = [tries EXCEPT ![i] = 1]
    /\ UNCHANGED <<clock, process, req, answer, seen, api, faults>>

\* The API looks at the actor itself, whatever the bot has found.
ReportEligible(r) == CanReport(r) /\ r.licensed

Permits(r) ==
    /\ r.options
    /\ r.cmd \in Staff \cup Platform => "admin" \in r.roles
    /\ r.cmd = "flag" => "trusted" \in r.roles
    /\ r.cmd = "report" => ReportEligible(r)

AcceptsAll(i) == Permits(req[i])

\* It also refuses what it did already.
Accepts(i) == Permits(req[i]) /\ ~(Cmd(i) \in Once /\ applied[i] > 0)

Carried(i) == IF Cmd(i) \in Shows THEN applied ELSE [applied EXCEPT ![i] = @ + 1]

Answered(i, step, what) ==
    /\ Goto(i, step)
    /\ answer' = [answer EXCEPT ![i] = what]
    /\ tries' = [tries EXCEPT ![i] = 0]

\* 2xx
Succeed(i) ==
    /\ pc[i] = "sent"
    /\ Accepts(i)
    /\ applied' = Carried(i)
    /\ RecordSuccess
    /\ Answered(i, "edit", IF Cmd(i) \in Shows THEN "shown" ELSE "done")
    /\ UNCHANGED <<clock, boot, bootTry, bucket, passed, req, seen, late, lost, faults>>

TakenForSuccess(i) == Answered(i, "edit", "done")

NotOk(i) == Answered(i, "plain", "failed")

\* 4xx, which is not held against the API
Reject(i) ==
    /\ pc[i] = "sent"
    /\ ~Accepts(i)
    /\ NotOk(i)
    /\ UNCHANGED <<clock, process, req, seen, api, faults>>

\* 500, and not tried again: rolled back, or done but for the cache or the audit.
Break(i) ==
    /\ pc[i] = "sent"
    /\ Fault
    /\ RecordFailure
    /\ Answered(i, "plain", "failed")
    /\ \/ UNCHANGED <<applied, lost>>
       \/ /\ Cmd(i) \in GoesOn /\ Accepts(i)
          /\ applied' = Carried(i)
          /\ lost' = [lost EXCEPT ![i] = @ + 1]
    /\ UNCHANGED <<clock, boot, bootTry, bucket, passed, req, seen, late>>

TriesLeft(i) == tries[i] <= RetryMax

\* fetchWithRetry goes on to the next attempt, or throws.
Repeat(i) ==
    IF TriesLeft(i)
    THEN tries' = [tries EXCEPT ![i] = @ + 1] /\ UNCHANGED <<pc, answer, circuit>>
    ELSE Answered(i, "plain", "failed") /\ RecordFailure

\* The throttler's 429, or 503 while the backlog of the outbox is long: nothing
\* was done.
Busy(i) ==
    /\ pc[i] = "sent"
    /\ Fault
    /\ Repeat(i)
    /\ UNCHANGED <<clock, boot, bootTry, bucket, passed, req, seen, api>>

\* 502, or the connection fails, after the API has done its part or before.
LoseAnswer(i) ==
    /\ pc[i] = "sent"
    /\ Fault
    /\ \/ Accepts(i) /\ applied' = Carried(i) /\ UNCHANGED late
       \/ late' = [late EXCEPT ![i] = @ + 1] /\ UNCHANGED applied
    /\ lost' = [lost EXCEPT ![i] = @ + 1]
    /\ Repeat(i)
    /\ UNCHANGED <<clock, boot, bootTry, bucket, passed, req, seen>>

\* An attempt that nobody waits for is carried out, or comes to nothing.
ArriveLate(i) ==
    /\ late[i] > 0
    /\ late' = [late EXCEPT ![i] = @ - 1]
    /\ applied' \in {applied} \cup (IF Accepts(i) THEN {Carried(i)} ELSE {})
    /\ UNCHANGED <<clock, process, asked, seen, lost, faults>>

\* getServer: the bot has a copy of the configuration, which it also falls back
\* on when the call fails (BotConfig).
ShowCopy(i) ==
    /\ pc[i] \in {"call", "sent"}
    /\ Cmd(i) = "config_show"
    /\ \/ pc[i] = "call" /\ UNCHANGED <<circuit, faults>>
       \/ pc[i] = "sent" /\ Fault /\ RecordFailure
    /\ Answered(i, "edit", "shown")
    /\ UNCHANGED <<clock, boot, bootTry, bucket, passed, req, seen, api>>

\* After a check: the counter and the alert, whose errors nobody sees.
AfterCheck(i) ==
    /\ pc[i] = "after"
    /\ Goto(i, "end")
    /\ \/ UNCHANGED <<circuit, faults>>
       \/ ~Open /\ RecordSuccess /\ UNCHANGED faults
       \/ ~Open /\ RecordFailure /\ Fault
    /\ UNCHANGED <<clock, boot, bootTry, bucket, passed, req, tries, answer, seen, api>>

-----------------------------------------------------------------------------
Tick ==
    /\ clock < MaxClock
    /\ clock' = clock + 1
    /\ UNCHANGED <<process, asked, seen, api, faults>>

Lifecycle == ApiReady \/ ApiNotReady \/ Register \/ Stop \/ Restart

FirstAnswer(i) == Reply(i) \/ Defer(i) \/ FirstAnswerFails(i) \/ Sorry(i) \/ Uncaught(i)

Begin(i) == BeginLimited(i) \/ BeginPlatform(i) \/ BeginMine(i) \/ BeginStaff(i)

Call(i) ==
    \/ CircuitOpen(i) \/ Capabilities(i) \/ CapabilitiesFail(i) \/ Send(i)
    \/ Succeed(i) \/ Reject(i) \/ Break(i) \/ Busy(i) \/ LoseAnswer(i)
    \/ ShowCopy(i)

Finish(i) == DirectMessage(i) \/ Edit(i) \/ EditFails(i) \/ PlainEditFails(i) \/ AfterCheck(i)

Next ==
    \/ Lifecycle \/ Tick
    \/ \E i \in Interactions :
         \/ \E r \in Offers[i] : Arrive(i, r)
         \/ FirstAnswer(i) \/ Begin(i) \/ Call(i) \/ Finish(i) \/ ArriveLate(i)

Spec == Init /\ [][Next]_vars

-----------------------------------------------------------------------------
Steps == {"new", "first", "sorry", "dm", "deferred", "capabilities", "call", "sent",
          "edit", "plain", "after", "end", "dropped"}

Answers == {"none", "shown", "done", "refused", "limited", "failed"}

TypeOK ==
    /\ clock \in 0 .. MaxClock /\ faults \in Nat
    /\ boot \in {"waiting", "registering", "serving", "down"} /\ bootTry \in 1 .. BootTries
    /\ bucket \in [Guilds -> [count : Nat, resetAt : Nat]]
    /\ circuit \in [failures : 0 .. Threshold - 1, until : Nat]
    /\ passed \in [Guilds -> [0 .. MaxClock -> Nat]]
    /\ pc \in [Interactions -> Steps]
    /\ req \in [Interactions -> (UNION {Offers[i] : i \in Interactions}) \cup {None}]
    /\ tries \in [Interactions -> 0 .. RetryMax + 1]
    /\ answer \in [Interactions -> Answers] /\ told \in [Interactions -> Answers]
    /\ shown \in [Interactions -> {"nothing", "thinking", "answer"}]
    /\ snag \in [Interactions -> BOOLEAN]
    /\ late \in [Interactions -> Nat]
    /\ applied \in [Interactions -> Nat] /\ lost \in [Interactions -> Nat]

\* What a person was last told is what happened: "done" was done, a refused or
\* limited command was not, and one that is said to have failed did so unless
\* the API's answer was lost, the API failed after it had committed, or Discord
\* refused to show the true answer.
AnswersAreTrue ==
    \A i \in Interactions :
        /\ told[i] = "done" => applied[i] > 0
        /\ told[i] \in {"refused", "limited"} => applied[i] = 0
        /\ told[i] = "failed" /\ applied[i] > 0 => lost[i] > 0 \/ snag[i]

\* A command is carried out once, and only once more for every attempt whose
\* outcome the bot was not told, no more than API_RETRY_MAX times; a report and a decision
\* about one are never repeated.
RepeatsAreBounded ==
    \A i \in Interactions : req[i] # None =>
        /\ applied[i] <= lost[i] + 1
        /\ applied[i] <= RetryMax + 1
        /\ Cmd(i) \in Once => applied[i] <= 1

\* In any minute, not only in those of the limiter's own windows, a guild has
\* less than two windows' commands let through, as long as the bot runs.
RateIsBounded ==
    \A g \in Guilds, t \in 0 .. MaxClock - 1 :
        LET n == passed[g][t] + passed[g][t + 1] IN n = 0 \/ n < 2 * PerMinute

\* A command that the bot is done with was answered, on every path through its
\* handler, unless Discord refused a message of it.
NobodyLeftThinking ==
    \A i \in Interactions : pc[i] = "end" => shown[i] = "answer" \/ snag[i]

=============================================================================
