--------------------------- MODULE LicensingProofs ---------------------------
(***************************************************************************)
(* Proofs about Licensing, for any sets of guilds, keys and requests, any  *)
(* number of days, and any number of failures.                             *)
(***************************************************************************)
EXTENDS Licensing, TLAPS

LicencesOK ==
    /\ ent \in [Guilds -> Rows \cup {None}]
    /\ key \in [Keys -> {"none", "UNUSED", "REDEEMED", "REVOKED"}]
    /\ holder \in [Keys -> Guilds \cup {None}]
    /\ discovered \subseteq Guilds
    /\ paid \in [Keys -> SUBSET Guilds]
    /\ contested \subseteq Keys
    /\ decided \in [Guilds -> Rows \cup {None}]
    /\ repeated \subseteq Guilds

GuildsOK ==
    /\ known \subseteq Guilds /\ removed \subseteq Guilds
    /\ blacklist \subseteq Guilds /\ present \subseteq Guilds /\ astray \subseteq Guilds

Args == Keys \cup Rows \cup {"join", "leave", None}

Steps == {"idle", "read", "locked", "revoke", "server", "entitle", "summary", "post", "record"}

\* What a request at a given step has in hand.
InHand(p) ==
    /\ pc[p] = "idle" => arg[p] = None
    /\ pc[p] \in {"read", "locked"} => p \in Redeemers /\ guild[p] \in Guilds /\ arg[p] \in Keys
    /\ pc[p] = "revoke" => p \in Operators /\ arg[p] \in Keys
    /\ pc[p] \in {"server", "entitle"} =>
          p \in Operators /\ guild[p] \in Guilds /\ arg[p] \in Rows \cup {None}
    /\ pc[p] \in {"summary", "post", "record"} =>
          p \in Handlers /\ guild[p] \in Guilds /\ arg[p] \in {"join", "leave"}

CallsOK ==
    /\ serverLock \in [Guilds -> Procs \cup {None}]
    /\ pc \in [Procs -> Steps]
    /\ guild \in [Procs -> Guilds \cup {None}]
    /\ arg \in [Procs -> Args]
    /\ missing \subseteq Handlers /\ late \subseteq Handlers /\ sent \subseteq Operators
    /\ \A p \in Procs : InHand(p)

Typed == LicencesOK /\ GuildsOK /\ CallsOK /\ clock \in Nat /\ faults \in Nat

LooksOK == refreshes \subseteq Guilds /\ snapshots \subseteq Guilds

LEMMA ProcKinds ==
    Redeemers \subseteq Procs /\ Operators \subseteq Procs /\ Handlers \subseteq Procs
  BY DEF Procs

LEMMA RowTypes ==
    ASSUME Typed
    PROVE  /\ \A k \in Keys : Row("ACTIVE", clock, Until(Preset[k])) \in Rows
           /\ Row("INACTIVE", clock, None) \in Rows
           /\ FirstEntitlement \in Rows
  <1>1. clock \in Nat /\ TrialDays \in Nat /\ \A k \in Keys : Preset[k] \in Nat
    BY LicensingAssumption DEF Typed
  <1>2. \A k \in Keys : Until(Preset[k]) \in Nat \cup {None}
    BY <1>1 DEF Until
  <1> QED
    BY <1>1, <1>2 DEF Row, Rows, Statuses, FirstEntitlement

LEMMA InitTyped == Init => Typed
  <1> SUFFICES ASSUME Init PROVE Typed
    OBVIOUS
  <1>1. LicencesOK /\ GuildsOK
    BY DEF Init, LicencesOK, GuildsOK
  <1>2. CallsOK
    BY DEF Init, CallsOK, Args, Steps, InHand
  <1> QED
    BY <1>1, <1>2 DEF Init, Typed

\* A request that ends.
LEMMA DoneCalls ==
    ASSUME CallsOK, NEW p \in Procs, Done(p)
    PROVE  CallsOK'
  <1>1. serverLock' \in [Guilds -> Procs \cup {None}]
    BY DEF CallsOK, Done, Unlock
  <1>2. pc' \in [Procs -> Steps] /\ guild' \in [Procs -> Guilds \cup {None}] /\ arg' \in [Procs -> Args]
    BY DEF CallsOK, Done, Goto, Steps, Args
  <1>3. missing' \subseteq Handlers /\ late' \subseteq Handlers /\ sent' \subseteq Operators
    BY DEF CallsOK, Done
  <1>4. \A q \in Procs : InHand(q)'
    BY DEF CallsOK, Done, Goto, InHand
  <1> QED
    BY <1>1, <1>2, <1>3, <1>4 DEF CallsOK

\* A request that goes on to its next step with what it has.
LEMMA GotoCalls ==
    ASSUME CallsOK, NEW p \in Procs, NEW step \in Steps, Goto(p, step),
           UNCHANGED <<guild, arg>>,
           serverLock' \in [Guilds -> Procs \cup {None}],
           missing' \subseteq Handlers, late' \subseteq Handlers, sent' \subseteq Operators,
           \/ pc[p] \in {"read", "locked"} /\ step \in {"read", "locked"}
           \/ pc[p] \in {"server", "entitle"} /\ step \in {"server", "entitle"}
           \/ pc[p] \in {"summary", "post", "record"} /\ step \in {"summary", "post", "record"}
    PROVE  CallsOK'
  <1>1. pc' \in [Procs -> Steps] /\ guild' \in [Procs -> Guilds \cup {None}] /\ arg' \in [Procs -> Args]
    BY DEF CallsOK, Goto
  <1>2. \A q \in Procs : InHand(q)'
    BY DEF CallsOK, Goto, InHand
  <1> QED
    BY <1>1, <1>2 DEF CallsOK

\* A request that begins.
LEMMA StartCalls ==
    ASSUME CallsOK, NEW p \in Procs, NEW step \in Steps, NEW g \in Guilds \cup {None},
           NEW a \in Args, Start(p, step, g, a),
           UNCHANGED <<serverLock, missing, sent>>, late' \subseteq Handlers,
           \/ step = "read" /\ p \in Redeemers /\ g \in Guilds /\ a \in Keys
           \/ step = "revoke" /\ p \in Operators /\ a \in Keys
           \/ step = "server" /\ p \in Operators /\ g \in Guilds /\ a \in Rows \cup {None}
           \/ step \in {"summary", "post"} /\ p \in Handlers /\ g \in Guilds /\ a \in {"join", "leave"}
    PROVE  CallsOK'
  <1>1. pc' \in [Procs -> Steps] /\ guild' \in [Procs -> Guilds \cup {None}] /\ arg' \in [Procs -> Args]
    BY DEF CallsOK, Start, Goto
  <1>2. \A q \in Procs : InHand(q)'
    BY DEF CallsOK, Start, Goto, InHand
  <1> QED
    BY <1>1, <1>2 DEF CallsOK

LEMMA LockCalls ==
    ASSUME CallsOK, NEW p \in Procs, Lock(p)
    PROVE  serverLock' \in [Guilds -> Procs \cup {None}]
  BY DEF CallsOK, Lock

LEMMA UnlockCalls ==
    ASSUME CallsOK, NEW p \in Procs, Unlock(p)
    PROVE  serverLock' \in [Guilds -> Procs \cup {None}]
  BY DEF CallsOK, Unlock

\* Every step of Next is one of these.
LEMMA StepCases ==
    ASSUME [Next]_vars
    PROVE  \/ DayPasses
           \/ \E k \in Keys : GenerateKey(k)
           \/ \E g \in Guilds : Blacklist(g)
           \/ \E r \in Redeemers : LockServer(r) \/ CommitRedeem(r) \/ RollBack(r)
           \/ \E r \in Redeemers, k \in Keys, g \in Guilds : BeginRedeem(r, k, g)
           \/ \E o \in Operators :
                Revoke(o) \/ UpsertServer(o) \/ UpsertEntitlement(o) \/ CreateEntitlement(o)
           \/ \E o \in Operators, k \in Keys : BeginRevoke(o, k)
           \/ \E o \in Operators, g \in Guilds : BeginSync(o, g)
           \/ \E o \in Operators, g \in Guilds, row \in Offers : BeginUpsert(o, g, row)
           \/ \E h \in Handlers :
                Summary(h) \/ LeaveBlacklisted(h) \/ Record(h) \/ CommitRecord(h) \/ GiveUp(h)
           \/ \E h \in Handlers, g \in Guilds : BotJoins(h, g) \/ BotLeaves(h, g)
           \/ \E g \in Guilds : Appearance(g)
           \/ UNCHANGED vars
  BY DEF Next, Licence, Redemption, Administration, Lifecycle

\* The steps of a redemption.
LEMMA RedemptionTyped ==
    ASSUME Typed, NEW r \in Redeemers,
           \/ LockServer(r) \/ CommitRedeem(r) \/ RollBack(r)
           \/ \E k \in Keys, g \in Guilds : BeginRedeem(r, k, g)
    PROVE  Typed'
  <1>parts. LicencesOK /\ GuildsOK /\ CallsOK /\ clock \in Nat /\ faults \in Nat
    BY DEF Typed
  <1>r. r \in Procs
    BY ProcKinds
  <1>1. CASE LockServer(r)
    <2>1. CallsOK'
      BY <1>1, <1>parts, <1>r, GotoCalls, LockCalls DEF LockServer, Steps, CallsOK
    <2>2. LicencesOK' /\ GuildsOK' /\ clock' \in Nat /\ faults' \in Nat
      BY <1>1, <1>parts DEF LockServer, licences, guilds, LicencesOK, GuildsOK
    <2> QED
      BY <2>1, <2>2 DEF Typed
  <1>2. CASE CommitRedeem(r)
    <2>1. guild[r] \in Guilds /\ arg[r] \in Keys
      BY <1>2, <1>parts, <1>r DEF CommitRedeem, CallsOK, InHand
    <2>2. Row("ACTIVE", clock, Until(Preset[arg[r]])) \in Rows
      BY <2>1, RowTypes
    <2>3. CallsOK'
      BY <1>2, <1>parts, <1>r, DoneCalls DEF CommitRedeem
    <2>4. LicencesOK'
      <3>1. ent' \in [Guilds -> Rows \cup {None}] /\ decided' \in [Guilds -> Rows \cup {None}]
        BY <1>2, <1>parts, <2>2 DEF CommitRedeem, LicencesOK
      <3>2. /\ key' \in [Keys -> {"none", "UNUSED", "REDEEMED", "REVOKED"}]
            /\ holder' \in [Keys -> Guilds \cup {None}]
            /\ paid' \in [Keys -> SUBSET Guilds]
        BY <1>2, <1>parts, <2>1 DEF CommitRedeem, LicencesOK
      <3>3. discovered' \subseteq Guilds /\ contested' \subseteq Keys /\ repeated' \subseteq Guilds
        BY <1>2, <1>parts, <2>1 DEF CommitRedeem, LicencesOK
      <3> QED
        BY <3>1, <3>2, <3>3 DEF LicencesOK
    <2>5. GuildsOK' /\ clock' \in Nat /\ faults' \in Nat
      BY <1>2, <1>parts, <2>1 DEF CommitRedeem, GuildsOK
    <2> QED
      BY <2>3, <2>4, <2>5 DEF Typed
  <1>3. CASE RollBack(r)
    <2>1. CallsOK'
      BY <1>3, <1>parts, <1>r, DoneCalls DEF RollBack
    <2>2. LicencesOK' /\ GuildsOK' /\ clock' \in Nat /\ faults' \in Nat
      BY <1>3, <1>parts DEF RollBack, Fault, licences, guilds, LicencesOK, GuildsOK
    <2> QED
      BY <2>1, <2>2 DEF Typed
  <1>4. ASSUME NEW k \in Keys, NEW g \in Guilds, BeginRedeem(r, k, g)
        PROVE  Typed'
    <2>1. CallsOK'
      BY <1>4, <1>parts, <1>r, StartCalls DEF BeginRedeem, Steps, Args, CallsOK
    <2>2. LicencesOK' /\ GuildsOK' /\ clock' \in Nat /\ faults' \in Nat
      BY <1>4, <1>parts DEF BeginRedeem, licences, guilds, LicencesOK, GuildsOK
    <2> QED
      BY <2>1, <2>2 DEF Typed
  <1> QED
    BY <1>1, <1>2, <1>3, <1>4

\* A first entitlement is a row.
LEMMA FirstRowTyped ==
    ASSUME LicencesOK, NEW g \in Guilds, NEW row \in Rows, FirstRow(g, row)
    PROVE  ent' \in [Guilds -> Rows \cup {None}] /\ decided' \in [Guilds -> Rows \cup {None}]
  BY DEF FirstRow, LicencesOK

\* The steps of an admin's request.
LEMMA AdministrationTyped ==
    ASSUME Typed, NEW o \in Operators,
           \/ Revoke(o) \/ UpsertServer(o) \/ UpsertEntitlement(o) \/ CreateEntitlement(o)
           \/ \E k \in Keys : BeginRevoke(o, k)
           \/ \E g \in Guilds : BeginSync(o, g)
           \/ \E g \in Guilds, row \in Offers : BeginUpsert(o, g, row)
    PROVE  Typed'
  <1>parts. LicencesOK /\ GuildsOK /\ CallsOK /\ clock \in Nat /\ faults \in Nat
    BY DEF Typed
  <1>o. o \in Procs
    BY ProcKinds
  <1>1. CASE Revoke(o)
    <2>1. arg[o] \in Keys
      BY <1>1, <1>parts, <1>o DEF Revoke, CallsOK, InHand
    <2>2. CallsOK'
      BY <1>1, <1>parts, <1>o, DoneCalls DEF Revoke
    <2>3. key' \in [Keys -> {"none", "UNUSED", "REDEEMED", "REVOKED"}] /\ contested' \subseteq Keys
      BY <1>1, <1>parts, <2>1 DEF Revoke, LicencesOK
    <2>4. LicencesOK' /\ GuildsOK' /\ clock' \in Nat /\ faults' \in Nat
      BY <1>1, <1>parts, <2>3 DEF Revoke, guilds, LicencesOK, GuildsOK
    <2> QED
      BY <2>2, <2>4 DEF Typed
  <1>2. CASE UpsertServer(o)
    <2>1. guild[o] \in Guilds
      BY <1>2, <1>parts, <1>o DEF UpsertServer, CallsOK, InHand
    <2>2. CallsOK'
      BY <1>2, <1>parts, <1>o, GotoCalls DEF UpsertServer, Steps, CallsOK
    <2>3. LicencesOK' /\ GuildsOK' /\ clock' \in Nat /\ faults' \in Nat
      BY <1>2, <1>parts, <2>1 DEF UpsertServer, licences, LicencesOK, GuildsOK
    <2> QED
      BY <2>2, <2>3 DEF Typed
  <1>3. CASE UpsertEntitlement(o)
    <2>1. guild[o] \in Guilds /\ arg[o] \in Rows
      BY <1>3, <1>parts, <1>o DEF UpsertEntitlement, CallsOK, InHand
    <2>2. CallsOK'
      <3>1. CASE Done(o)
        BY <1>parts, <1>o, <3>1, DoneCalls
      <3>2. CASE ~Done(o)
        <4>1. Goto(o, "server") /\ sent' = sent \cup {o} /\ UNCHANGED <<serverLock, guild, arg, missing, late>>
          BY <1>3, <3>2 DEF UpsertEntitlement
        <4>2. pc[o] = "entitle"
          BY <1>3 DEF UpsertEntitlement
        <4> QED
          BY <1>parts, <1>o, <4>1, <4>2, GotoCalls DEF CallsOK, Steps
      <3> QED
        BY <3>1, <3>2
    <2>3. ent' \in [Guilds -> Rows \cup {None}] /\ decided' \in [Guilds -> Rows \cup {None}]
      BY <1>3, <1>parts, <2>1 DEF UpsertEntitlement, LicencesOK
    <2>4. repeated' \subseteq Guilds
      BY <1>3, <1>parts, <2>1 DEF UpsertEntitlement, LicencesOK
    <2>5. LicencesOK'
      BY <1>3, <1>parts, <2>3, <2>4 DEF UpsertEntitlement, LicencesOK
    <2>6. GuildsOK' /\ clock' \in Nat /\ faults' \in Nat
      BY <1>3, <1>parts DEF UpsertEntitlement, Fault, guilds, GuildsOK
    <2> QED
      BY <2>2, <2>5, <2>6 DEF Typed
  <1>4. CASE CreateEntitlement(o)
    <2>1. guild[o] \in Guilds
      BY <1>4, <1>parts, <1>o DEF CreateEntitlement, CallsOK, InHand
    <2>2. ent' \in [Guilds -> Rows \cup {None}] /\ decided' \in [Guilds -> Rows \cup {None}]
      BY <1>4, <1>parts, <2>1, FirstRowTyped, RowTypes DEF CreateEntitlement, LicencesOK
    <2>3. CallsOK'
      BY <1>4, <1>parts, <1>o, DoneCalls DEF CreateEntitlement
    <2>4. LicencesOK' /\ GuildsOK' /\ clock' \in Nat /\ faults' \in Nat
      BY <1>4, <1>parts, <2>2 DEF CreateEntitlement, guilds, LicencesOK, GuildsOK
    <2> QED
      BY <2>3, <2>4 DEF Typed
  <1>5. ASSUME NEW k \in Keys, BeginRevoke(o, k)
        PROVE  Typed'
    <2>1. CallsOK'
      BY <1>5, <1>parts, <1>o, StartCalls DEF BeginRevoke, Steps, Args, CallsOK
    <2>2. LicencesOK' /\ GuildsOK' /\ clock' \in Nat /\ faults' \in Nat
      BY <1>5, <1>parts DEF BeginRevoke, licences, guilds, LicencesOK, GuildsOK
    <2> QED
      BY <2>1, <2>2 DEF Typed
  <1>6. ASSUME NEW g \in Guilds, BeginSync(o, g)
        PROVE  Typed'
    <2>1. CallsOK'
      BY <1>6, <1>parts, <1>o, StartCalls DEF BeginSync, Steps, Args, CallsOK
    <2>2. LicencesOK' /\ GuildsOK' /\ clock' \in Nat /\ faults' \in Nat
      BY <1>6, <1>parts DEF BeginSync, licences, guilds, LicencesOK, GuildsOK
    <2> QED
      BY <2>1, <2>2 DEF Typed
  <1>7. ASSUME NEW g \in Guilds, NEW row \in Offers, BeginUpsert(o, g, row)
        PROVE  Typed'
    <2>1. row \in Rows
      BY LicensingAssumption
    <2>2. CallsOK'
      BY <1>7, <1>parts, <1>o, <2>1, StartCalls DEF BeginUpsert, Steps, Args, CallsOK
    <2>3. LicencesOK' /\ GuildsOK' /\ clock' \in Nat /\ faults' \in Nat
      BY <1>7, <1>parts DEF BeginUpsert, licences, guilds, LicencesOK, GuildsOK
    <2> QED
      BY <2>2, <2>3 DEF Typed
  <1> QED
    BY <1>1, <1>2, <1>3, <1>4, <1>5, <1>6, <1>7

\* The bot's guilds: joins and leaves as they happen.
LEMMA PresenceTyped ==
    ASSUME Typed, NEW h \in Handlers, NEW g \in Guilds, BotJoins(h, g) \/ BotLeaves(h, g)
    PROVE  Typed'
  <1>parts. LicencesOK /\ GuildsOK /\ CallsOK /\ clock \in Nat /\ faults \in Nat
    BY DEF Typed
  <1>h. h \in Procs
    BY ProcKinds
  <1>busy. Busy(g) \subseteq Handlers
    BY DEF Busy
  <1>1. CallsOK'
    <2>1. late' \subseteq Handlers /\ UNCHANGED <<serverLock, missing, sent>>
      BY <1>parts, <1>busy DEF BotJoins, BotLeaves, CallsOK
    <2>2. "join" \in Args /\ "leave" \in Args /\ "summary" \in Steps /\ "post" \in Steps
      BY DEF Args, Steps
    <2>3. CASE BotJoins(h, g)
      BY <1>parts, <1>h, <2>1, <2>2, <2>3, StartCalls DEF BotJoins
    <2>4. CASE BotLeaves(h, g)
      BY <1>parts, <1>h, <2>1, <2>2, <2>4, StartCalls DEF BotLeaves
    <2> QED
      BY <2>3, <2>4
  <1>2. LicencesOK' /\ GuildsOK' /\ clock' \in Nat /\ faults' \in Nat
    BY <1>parts DEF BotJoins, BotLeaves, licences, LicencesOK, GuildsOK
  <1> QED
    BY <1>1, <1>2 DEF Typed

\* The steps of a handler in the bot.
LEMMA HandlerTyped ==
    ASSUME Typed, NEW h \in Handlers,
           Summary(h) \/ LeaveBlacklisted(h) \/ Record(h) \/ CommitRecord(h) \/ GiveUp(h)
    PROVE  Typed'
  <1>parts. LicencesOK /\ GuildsOK /\ CallsOK /\ clock \in Nat /\ faults \in Nat
    BY DEF Typed
  <1>h. h \in Procs
    BY ProcKinds
  <1>1. CASE Summary(h)
    <2>1. CallsOK'
      BY <1>1, <1>parts, <1>h, GotoCalls DEF Summary, Steps, CallsOK
    <2>2. LicencesOK' /\ GuildsOK' /\ clock' \in Nat /\ faults' \in Nat
      BY <1>1, <1>parts DEF Summary, Fault, licences, guilds, LicencesOK, GuildsOK
    <2> QED
      BY <2>1, <2>2 DEF Typed
  <1>2. CASE LeaveBlacklisted(h)
    <2>1. guild[h] \in Guilds /\ pc[h] = "summary"
      BY <1>2, <1>parts, <1>h DEF LeaveBlacklisted, CallsOK, InHand
    <2>2. CallsOK'
      <3>1. CASE guild[h] \notin present
        BY <1>2, <1>parts, <1>h, <3>1, DoneCalls DEF LeaveBlacklisted
      <3>2. CASE guild[h] \in present
        <4>1. /\ Goto(h, "post") /\ arg' = [arg EXCEPT ![h] = "leave"]
              /\ UNCHANGED <<serverLock, guild, missing, sent>>
              /\ late' = (late \cup Busy(guild[h])) \ {h}
          BY <1>2, <3>2 DEF LeaveBlacklisted
        <4>2. late' \subseteq Handlers
          BY <1>parts, <4>1 DEF Busy, CallsOK
        <4>3. pc' \in [Procs -> Steps] /\ arg' \in [Procs -> Args]
          BY <1>parts, <4>1 DEF Goto, CallsOK, Steps, Args
        <4>4. \A q \in Procs : InHand(q)'
          BY <1>parts, <1>h, <2>1, <4>1 DEF Goto, CallsOK, InHand
        <4> QED
          BY <1>parts, <4>1, <4>2, <4>3, <4>4 DEF CallsOK
      <3> QED
        BY <3>1, <3>2
    <2>3. LicencesOK' /\ GuildsOK' /\ clock' \in Nat /\ faults' \in Nat
      BY <1>2, <1>parts DEF LeaveBlacklisted, licences, LicencesOK, GuildsOK
    <2> QED
      BY <2>2, <2>3 DEF Typed
  <1>3. CASE Record(h)
    <2>1. CallsOK'
      <3>1. missing' \subseteq Handlers
        BY <1>3, <1>parts DEF Record, CallsOK
      <3> QED
        BY <1>3, <1>parts, <1>h, <3>1, GotoCalls, LockCalls DEF Record, Steps, CallsOK
    <2>2. LicencesOK' /\ GuildsOK' /\ clock' \in Nat /\ faults' \in Nat
      BY <1>3, <1>parts DEF Record, licences, guilds, LicencesOK, GuildsOK
    <2> QED
      BY <2>1, <2>2 DEF Typed
  <1>4. CASE CommitRecord(h)
    <2>1. guild[h] \in Guilds /\ pc[h] = "record"
      BY <1>4, <1>parts, <1>h DEF CommitRecord, CallsOK, InHand
    <2>2. CallsOK'
      <3>1. CASE Done(h)
        BY <1>parts, <1>h, <3>1, DoneCalls
      <3>2. CASE ~Done(h)
        <4>1. Goto(h, "post") /\ Unlock(h) /\ UNCHANGED <<guild, arg, missing, sent, late>>
          BY <1>4, <3>2 DEF CommitRecord
        <4> QED
          BY <1>parts, <1>h, <2>1, <4>1, GotoCalls, UnlockCalls DEF CallsOK, Steps
      <3> QED
        BY <3>1, <3>2
    <2>3. ent' \in [Guilds -> Rows \cup {None}] /\ decided' \in [Guilds -> Rows \cup {None}]
      BY <1>4, <1>parts, <2>1, FirstRowTyped, RowTypes DEF CommitRecord, LicencesOK
    <2>4. discovered' \subseteq Guilds
      BY <1>4, <1>parts, <2>1 DEF CommitRecord, LicencesOK
    <2>5. LicencesOK'
      BY <1>4, <1>parts, <2>3, <2>4 DEF CommitRecord, LicencesOK
    <2>6. removed' \subseteq Guilds /\ astray' \subseteq Guilds
      BY <1>4, <1>parts, <2>1 DEF CommitRecord, RemovedAfter, Settle, GuildsOK
    <2>7. GuildsOK' /\ clock' \in Nat /\ faults' \in Nat
      BY <1>4, <1>parts, <2>1, <2>6 DEF CommitRecord, Fault, GuildsOK
    <2> QED
      BY <2>2, <2>5, <2>7 DEF Typed
  <1>5. CASE GiveUp(h)
    <2>1. guild[h] \in Guilds
      BY <1>5, <1>parts, <1>h DEF GiveUp, CallsOK, InHand
    <2>2. CallsOK'
      BY <1>5, <1>parts, <1>h, DoneCalls DEF GiveUp
    <2>3. LicencesOK' /\ GuildsOK' /\ clock' \in Nat /\ faults' \in Nat
      BY <1>5, <1>parts, <2>1 DEF GiveUp, Fault, licences, LicencesOK, GuildsOK
    <2> QED
      BY <2>2, <2>3 DEF Typed
  <1> QED
    BY <1>1, <1>2, <1>3, <1>4, <1>5

\* The steps of a guild's snapshots change no licence and no request.
LEMMA AppearanceFrame ==
    ASSUME NEW g \in Guilds, Appearance(g)
    PROVE  UNCHANGED <<clock, licences, calls, faults>>
  BY DEF Appearance, RequestRefresh, Refresh, TakeSnapshot, RecordSnapshot, LoseSnapshot

LEMMA AppearanceTyped ==
    ASSUME Typed, NEW g \in Guilds, Appearance(g)
    PROVE  Typed'
  <1>1. LicencesOK /\ GuildsOK /\ CallsOK /\ clock \in Nat /\ faults \in Nat
    BY DEF Typed
  <1>2. CallsOK'
    BY <1>1, AppearanceFrame DEF calls, CallsOK, InHand
  <1>3. GuildsOK'
    BY <1>1 DEF Appearance, RequestRefresh, Refresh, TakeSnapshot, RecordSnapshot, LoseSnapshot,
       guilds, GuildsOK
  <1>4. LicencesOK' /\ clock' \in Nat /\ faults' \in Nat
    BY <1>1, AppearanceFrame DEF licences, LicencesOK
  <1> QED
    BY <1>2, <1>3, <1>4 DEF Typed

LEMMA NextLooks == LooksOK /\ [Next]_vars => LooksOK'
  <1> SUFFICES ASSUME LooksOK, [Next]_vars PROVE LooksOK'
    OBVIOUS
  <1>1. CASE UNCHANGED looks
    BY <1>1 DEF looks, LooksOK
  <1>2. ASSUME NEW g \in Guilds, Appearance(g)
        PROVE  LooksOK'
    BY <1>2 DEF Appearance, RequestRefresh, Refresh, TakeSnapshot, RecordSnapshot, LoseSnapshot,
       Push, LooksOK
  <1> QED
    BY <1>1, <1>2 DEF Next, vars

LEMMA NextTyped == Typed /\ [Next]_vars => Typed'
  <1> SUFFICES ASSUME Typed, [Next]_vars PROVE Typed'
    OBVIOUS
  <1>parts. LicencesOK /\ GuildsOK /\ CallsOK /\ clock \in Nat /\ faults \in Nat
    BY DEF Typed
  <1>1. CASE DayPasses \/ UNCHANGED vars
    <2>1. CallsOK'
      BY <1>1, <1>parts DEF DayPasses, vars, calls, CallsOK, InHand
    <2>2. LicencesOK' /\ GuildsOK' /\ clock' \in Nat /\ faults' \in Nat
      BY <1>1, <1>parts DEF DayPasses, vars, licences, guilds, LicencesOK, GuildsOK
    <2> QED
      BY <2>1, <2>2 DEF Typed
  <1>2. ASSUME NEW k \in Keys, GenerateKey(k)
        PROVE  Typed'
    <2>1. CallsOK'
      BY <1>2, <1>parts DEF GenerateKey, calls, CallsOK, InHand
    <2>2. LicencesOK' /\ GuildsOK' /\ clock' \in Nat /\ faults' \in Nat
      BY <1>2, <1>parts DEF GenerateKey, guilds, LicencesOK, GuildsOK
    <2> QED
      BY <2>1, <2>2 DEF Typed
  <1>3. ASSUME NEW g \in Guilds, Blacklist(g)
        PROVE  Typed'
    <2>1. CallsOK'
      BY <1>3, <1>parts DEF Blacklist, calls, CallsOK, InHand
    <2>2. LicencesOK' /\ GuildsOK' /\ clock' \in Nat /\ faults' \in Nat
      BY <1>3, <1>parts DEF Blacklist, licences, LicencesOK, GuildsOK
    <2> QED
      BY <2>1, <2>2 DEF Typed
  <1> QED
    BY <1>1, <1>2, <1>3, RedemptionTyped, AdministrationTyped, PresenceTyped, HandlerTyped,
       AppearanceTyped, StepCases

\* The licensing state keeps its types.
THEOREM LicensingTypeOK == Spec => []TypeOK
  <1>1. Typed /\ LooksOK => TypeOK
    <2> SUFFICES ASSUME Typed, LooksOK PROVE TypeOK
      OBVIOUS
    <2>1. LicencesOK /\ GuildsOK /\ CallsOK /\ clock \in Nat /\ faults \in Nat
      BY DEF Typed
    <2>2. \A r \in Redeemers : arg[r] \in Keys \cup {None}
      <3> TAKE r \in Redeemers
      <3>1. r \in Procs /\ InHand(r) /\ pc[r] \in Steps /\ r \notin Operators /\ r \notin Handlers
        BY <2>1, ProcKinds, LicensingAssumption DEF CallsOK
      <3> QED
        BY <3>1 DEF InHand, Steps
    <2>3. \A o \in Operators : arg[o] \in Keys \cup Rows \cup {None}
      <3> TAKE o \in Operators
      <3>1. o \in Procs /\ InHand(o) /\ pc[o] \in Steps /\ o \notin Handlers
        BY <2>1, ProcKinds, LicensingAssumption DEF CallsOK
      <3> QED
        BY <3>1 DEF InHand, Steps
    <2>4. \A h \in Handlers : arg[h] \in {"join", "leave", None}
      <3> TAKE h \in Handlers
      <3>1. h \in Procs /\ InHand(h) /\ pc[h] \in Steps /\ h \notin Redeemers /\ h \notin Operators
        BY <2>1, ProcKinds, LicensingAssumption DEF CallsOK
      <3> QED
        BY <3>1 DEF InHand, Steps
    <2> QED
      BY <2>1, <2>2, <2>3, <2>4 DEF TypeOK, LicencesOK, GuildsOK, CallsOK, LooksOK, Steps
  <1>2. Init => LooksOK
    BY DEF Init, LooksOK
  <1> QED
    BY <1>1, <1>2, InitTyped, NextTyped, NextLooks, PTL DEF Spec

-----------------------------------------------------------------------------
(* Keys: what a request has read of a key still holds, or the key is        *)
(* contested; so a redemption and a revocation find it as they read it.     *)

RedeemersReadTrue ==
    \A r \in Redeemers : pc[r] \in {"read", "locked"} =>
        arg[r] \in contested \/ key[arg[r]] = "UNUSED"

RevokersReadTrue ==
    \A o \in Operators : pc[o] = "revoke" =>
        arg[o] \in contested \/ key[arg[o]] \in {"UNUSED", "REVOKED"}

KeyInv == KeyPaysOnce /\ RedeemersReadTrue /\ RevokersReadTrue

LEMMA InitKey == Init => KeyInv
  BY ProcKinds DEF Init, KeyInv, KeyPaysOnce, RedeemersReadTrue, RevokersReadTrue

\* Nothing of the keys changes, and nobody reads one.
LEMMA KeyUnchanged ==
    ASSUME KeyInv, UNCHANGED <<key, holder, paid, contested>>,
           \A r \in Redeemers : pc'[r] \in {"read", "locked"} =>
             pc[r] \in {"read", "locked"} /\ arg'[r] = arg[r],
           \A o \in Operators : pc'[o] = "revoke" => pc[o] = "revoke" /\ arg'[o] = arg[o]
    PROVE  KeyInv'
  BY DEF KeyInv, KeyPaysOnce, RedeemersReadTrue, RevokersReadTrue

\* A key that is not contested keeps what it pays for while its row does.
LEMMA NextKey == Typed /\ KeyInv /\ [Next]_vars => KeyInv'
  <1> SUFFICES ASSUME Typed, KeyInv, [Next]_vars PROVE KeyInv'
    OBVIOUS
  <1>parts. LicencesOK /\ CallsOK /\ KeyPaysOnce /\ RedeemersReadTrue /\ RevokersReadTrue
    BY DEF Typed, KeyInv
  <1>kinds. Redeemers \subseteq Procs /\ Operators \subseteq Procs /\ Handlers \subseteq Procs
    BY ProcKinds
  <1>apart. \A r \in Redeemers : r \notin Operators
    BY LicensingAssumption
  <1>1. CASE DayPasses \/ UNCHANGED vars
    BY <1>1, KeyUnchanged DEF DayPasses, vars, licences, calls
  <1>2. ASSUME NEW g \in Guilds, Blacklist(g)
        PROVE  KeyInv'
    BY <1>2, KeyUnchanged DEF Blacklist, licences, calls
  <1>3. ASSUME NEW k \in Keys, GenerateKey(k)
        PROVE  KeyInv'
    <2>1. KeyPaysOnce'
      BY <1>3, <1>parts DEF GenerateKey, KeyPaysOnce, LicencesOK
    <2>2. RedeemersReadTrue' /\ RevokersReadTrue'
      BY <1>3, <1>parts, <1>kinds
         DEF GenerateKey, calls, RedeemersReadTrue, RevokersReadTrue, LicencesOK, CallsOK, InHand
    <2> QED
      BY <2>1, <2>2 DEF KeyInv
  <1>4. ASSUME NEW r \in Redeemers, LockServer(r) \/ RollBack(r)
        PROVE  KeyInv'
    <2>1. UNCHANGED licences
      BY <1>4 DEF LockServer, RollBack
    <2>2. \A q \in Procs : pc'[q] \in {"read", "locked", "revoke"} =>
            /\ arg'[q] = arg[q]
            /\ (pc'[q] = pc[q]) \/ (pc[q] = "read" /\ pc'[q] = "locked")
      <3>1. CASE LockServer(r)
        BY <3>1, <1>parts DEF LockServer, Goto, CallsOK
      <3>2. CASE RollBack(r)
        BY <3>2, <1>parts DEF RollBack, Goto, Done, CallsOK
      <3> QED
        BY <1>4, <3>1, <3>2
    <2> QED
      BY <1>kinds, <2>1, <2>2, KeyUnchanged DEF licences
  <1>5. ASSUME NEW r \in Redeemers, CommitRedeem(r)
        PROVE  KeyInv'
    <2> DEFINE k == arg[r]
    <2>1. r \in Procs /\ k \in Keys /\ guild[r] \in Guilds /\ pc[r] = "locked"
      BY <1>5, <1>parts, <1>kinds DEF CommitRedeem, CallsOK, InHand
    <2>2. /\ key' = [key EXCEPT ![k] = "REDEEMED"]
          /\ holder' = [holder EXCEPT ![k] = guild[r]]
          /\ paid' = [paid EXCEPT ![k] = paid[k] \cup {guild[r]}]
          /\ contested' = IF Readers(r, k) = {} THEN contested ELSE contested \cup {k}
      BY <1>5 DEF CommitRedeem
    <2>3. \A q \in Procs : pc'[q] \in {"read", "locked", "revoke"} =>
            q # r /\ pc'[q] = pc[q] /\ arg'[q] = arg[q]
      BY <1>5, <1>parts, <2>1 DEF CommitRedeem, Done, Goto, CallsOK
    <2>4. k \notin contested => paid[k] = {}
      BY <1>parts, <2>1 DEF KeyPaysOnce, RedeemersReadTrue
    <2>5. KeyPaysOnce'
      <3> SUFFICES ASSUME NEW j \in Keys, j \notin contested'
                   PROVE  paid'[j] = IF key'[j] = "REDEEMED" THEN {holder'[j]} ELSE {}
        BY DEF KeyPaysOnce
      <3>1. j \notin contested
        BY <2>2
      <3>2. CASE j = k
        BY <1>parts, <2>1, <2>2, <2>4, <3>1, <3>2 DEF LicencesOK
      <3>3. CASE j # k
        BY <1>parts, <2>1, <2>2, <3>1, <3>3 DEF LicencesOK, KeyPaysOnce
      <3> QED
        BY <3>2, <3>3
    <2>6. \A q \in (Redeemers \cup Operators) :
            pc'[q] \in {"read", "locked", "revoke"} =>
              arg[q] \in contested' \/ arg[q] # k
      BY <1>kinds, <2>2, <2>3 DEF Readers
    <2>7. RedeemersReadTrue'
      <3> SUFFICES ASSUME NEW q \in Redeemers, pc'[q] \in {"read", "locked"}
                   PROVE  arg'[q] \in contested' \/ key'[arg'[q]] = "UNUSED"
        BY DEF RedeemersReadTrue
      <3>1. pc[q] \in {"read", "locked"} /\ arg'[q] = arg[q] /\ q \in Procs
        BY <1>kinds, <2>3
      <3>2. arg[q] \in Keys
        BY <1>parts, <3>1 DEF CallsOK, InHand
      <3> QED
        BY <1>parts, <2>2, <2>6, <3>1, <3>2 DEF RedeemersReadTrue, LicencesOK
    <2>8. RevokersReadTrue'
      <3> SUFFICES ASSUME NEW q \in Operators, pc'[q] = "revoke"
                   PROVE  arg'[q] \in contested' \/ key'[arg'[q]] \in {"UNUSED", "REVOKED"}
        BY DEF RevokersReadTrue
      <3>1. pc[q] = "revoke" /\ arg'[q] = arg[q] /\ q \in Procs
        BY <1>kinds, <2>3
      <3>2. arg[q] \in Keys
        BY <1>parts, <3>1 DEF CallsOK, InHand
      <3> QED
        BY <1>parts, <2>2, <2>6, <3>1, <3>2 DEF RevokersReadTrue, LicencesOK
    <2> QED
      BY <2>5, <2>7, <2>8 DEF KeyInv
  <1>6. ASSUME NEW r \in Redeemers, NEW k \in Keys, NEW g \in Guilds, BeginRedeem(r, k, g)
        PROVE  KeyInv'
    <2>1. /\ key[k] = "UNUSED" /\ UNCHANGED <<key, holder, paid, contested>>
          /\ pc[r] = "idle" /\ pc' = [pc EXCEPT ![r] = "read"] /\ arg' = [arg EXCEPT ![r] = k]
      BY <1>6 DEF BeginRedeem, Redeemable, Start, Goto, licences
    <2>2. KeyPaysOnce'
      BY <1>parts, <2>1 DEF KeyPaysOnce
    <2>3. RedeemersReadTrue' /\ RevokersReadTrue'
      BY <1>parts, <1>kinds, <1>apart, <2>1 DEF RedeemersReadTrue, RevokersReadTrue, CallsOK
    <2> QED
      BY <2>2, <2>3 DEF KeyInv
  <1>7. ASSUME NEW o \in Operators, Revoke(o)
        PROVE  KeyInv'
    <2> DEFINE k == arg[o]
    <2>1. o \in Procs /\ k \in Keys /\ pc[o] = "revoke"
      BY <1>7, <1>parts, <1>kinds DEF Revoke, CallsOK, InHand
    <2>2. /\ key' = [key EXCEPT ![k] = "REVOKED"] /\ UNCHANGED <<holder, paid>>
          /\ contested' =
               IF Readers(o, k) \cap Redeemers = {} THEN contested ELSE contested \cup {k}
      BY <1>7 DEF Revoke
    <2>3. \A q \in Procs : pc'[q] \in {"read", "locked", "revoke"} =>
            q # o /\ pc'[q] = pc[q] /\ arg'[q] = arg[q]
      BY <1>7, <1>parts, <2>1 DEF Revoke, Done, Goto, CallsOK
    <2>4. k \notin contested => paid[k] = {}
      BY <1>parts, <2>1 DEF KeyPaysOnce, RevokersReadTrue
    <2>5. KeyPaysOnce'
      BY <1>parts, <2>1, <2>2, <2>4 DEF KeyPaysOnce, LicencesOK
    <2>6. \A q \in Redeemers : pc'[q] \in {"read", "locked"} =>
            arg[q] \in contested' \/ arg[q] # k
      BY <1>kinds, <2>2, <2>3 DEF Readers
    <2>7. RedeemersReadTrue'
      <3> SUFFICES ASSUME NEW q \in Redeemers, pc'[q] \in {"read", "locked"}
                   PROVE  arg'[q] \in contested' \/ key'[arg'[q]] = "UNUSED"
        BY DEF RedeemersReadTrue
      <3>1. pc[q] \in {"read", "locked"} /\ arg'[q] = arg[q] /\ q \in Procs
        BY <1>kinds, <2>3
      <3>2. arg[q] \in Keys
        BY <1>parts, <3>1 DEF CallsOK, InHand
      <3> QED
        BY <1>parts, <2>2, <2>6, <3>1, <3>2 DEF RedeemersReadTrue, LicencesOK
    <2>8. RevokersReadTrue'
      <3> SUFFICES ASSUME NEW q \in Operators, pc'[q] = "revoke"
                   PROVE  arg'[q] \in contested' \/ key'[arg'[q]] \in {"UNUSED", "REVOKED"}
        BY DEF RevokersReadTrue
      <3>1. pc[q] = "revoke" /\ arg'[q] = arg[q] /\ q \in Procs
        BY <1>kinds, <2>3
      <3>2. arg[q] \in Keys
        BY <1>parts, <3>1 DEF CallsOK, InHand
      <3> QED
        BY <1>parts, <2>2, <3>1, <3>2 DEF RevokersReadTrue, LicencesOK
    <2> QED
      BY <2>5, <2>7, <2>8 DEF KeyInv
  <1>8. ASSUME NEW o \in Operators, NEW k \in Keys, BeginRevoke(o, k)
        PROVE  KeyInv'
    <2>1. /\ key[k] \in {"UNUSED", "REVOKED"} /\ UNCHANGED <<key, holder, paid, contested>>
          /\ pc[o] = "idle" /\ pc' = [pc EXCEPT ![o] = "revoke"] /\ arg' = [arg EXCEPT ![o] = k]
      BY <1>8 DEF BeginRevoke, Start, Goto, licences
    <2>2. KeyPaysOnce'
      BY <1>parts, <2>1 DEF KeyPaysOnce
    <2>3. RedeemersReadTrue' /\ RevokersReadTrue'
      BY <1>parts, <1>kinds, <1>apart, <2>1 DEF RedeemersReadTrue, RevokersReadTrue, CallsOK
    <2> QED
      BY <2>2, <2>3 DEF KeyInv
  <1>9. ASSUME NEW o \in Operators,
               UpsertServer(o) \/ UpsertEntitlement(o) \/ CreateEntitlement(o)
        PROVE  KeyInv'
    <2>1. UNCHANGED <<key, holder, paid, contested>>
      BY <1>9 DEF UpsertServer, UpsertEntitlement, CreateEntitlement, licences
    <2>2. \A q \in Procs : pc'[q] \in {"read", "locked", "revoke"} =>
            pc'[q] = pc[q] /\ arg'[q] = arg[q]
      BY <1>9, <1>parts
         DEF UpsertServer, UpsertEntitlement, CreateEntitlement, Goto, Done, CallsOK
    <2> QED
      BY <1>kinds, <2>1, <2>2, KeyUnchanged
  <1>10. ASSUME NEW o \in Operators, NEW g \in Guilds,
                BeginSync(o, g) \/ \E row \in Offers : BeginUpsert(o, g, row)
         PROVE  KeyInv'
    <2>1. UNCHANGED <<key, holder, paid, contested>>
      BY <1>10 DEF BeginSync, BeginUpsert, licences
    <2>2. \A q \in Procs : pc'[q] \in {"read", "locked", "revoke"} =>
            pc'[q] = pc[q] /\ arg'[q] = arg[q]
      BY <1>10, <1>parts DEF BeginSync, BeginUpsert, Start, Goto, CallsOK
    <2> QED
      BY <1>kinds, <2>1, <2>2, KeyUnchanged
  <1>11. ASSUME NEW h \in Handlers,
                \/ Summary(h) \/ LeaveBlacklisted(h) \/ Record(h) \/ CommitRecord(h) \/ GiveUp(h)
                \/ \E g \in Guilds : BotJoins(h, g) \/ BotLeaves(h, g)
         PROVE  KeyInv'
    <2>1. UNCHANGED <<key, holder, paid, contested>>
      BY <1>11 DEF Summary, LeaveBlacklisted, Record, CommitRecord, GiveUp, BotJoins, BotLeaves,
         licences
    <2>2. \A q \in Procs : pc'[q] \in {"read", "locked", "revoke"} =>
            pc'[q] = pc[q] /\ arg'[q] = arg[q]
      <3>1. CASE Summary(h) \/ Record(h) \/ CommitRecord(h) \/ GiveUp(h)
        BY <3>1, <1>parts DEF Summary, Record, CommitRecord, GiveUp, Goto, Done, CallsOK
      <3>2. CASE LeaveBlacklisted(h)
        BY <3>2, <1>parts DEF LeaveBlacklisted, Goto, Done, CallsOK
      <3>3. CASE \E g \in Guilds : BotJoins(h, g) \/ BotLeaves(h, g)
        BY <3>3, <1>parts DEF BotJoins, BotLeaves, Start, Goto, CallsOK
      <3> QED
        BY <1>11, <3>1, <3>2, <3>3
    <2> QED
      BY <1>kinds, <2>1, <2>2, KeyUnchanged
  <1>12. ASSUME NEW g \in Guilds, Appearance(g)
         PROVE  KeyInv'
    BY <1>12, AppearanceFrame, KeyUnchanged DEF licences, calls
  <1> QED
    BY <1>1, <1>2, <1>3, <1>4, <1>5, <1>6, <1>7, <1>8, <1>9, <1>10, <1>11, <1>12, StepCases

\* However redemptions and revocations interleave, a key that no other request
\* had read when it was used has licensed the one guild its row names.
THEOREM KeySafe == Spec => []KeyPaysOnce
  <1>1. KeyInv => KeyPaysOnce
    BY DEF KeyInv
  <1> QED
    BY <1>1, InitTyped, NextTyped, InitKey, NextKey, PTL DEF Spec

-----------------------------------------------------------------------------
(* Entitlements.                                                            *)

\* Nothing of the entitlements changes.
LEMMA DecisionUnchanged ==
    ASSUME DecisionStands, UNCHANGED <<ent, decided, repeated>>
    PROVE  DecisionStands'
  BY DEF DecisionStands

\* A row that the system makes where there is none.
LEMMA FirstRowStands ==
    ASSUME LicencesOK, DecisionStands, NEW g \in Guilds, NEW row \in Rows, FirstRow(g, row),
           ent[g] = None, repeated' = repeated
    PROVE  DecisionStands'
  <1> SUFFICES ASSUME NEW j \in Guilds, j \notin repeated
               PROVE  ent'[j] = decided'[j]
    BY DEF DecisionStands
  <1>1. ent[j] = decided[j]
    BY DEF DecisionStands
  <1>2. CASE j = g
    BY <1>1, <1>2 DEF FirstRow, LicencesOK
  <1>3. CASE j # g
    BY <1>1, <1>3 DEF FirstRow, LicencesOK
  <1> QED
    BY <1>2, <1>3

LEMMA NextDecision == Typed /\ DecisionStands /\ [Next]_vars => DecisionStands'
  <1> SUFFICES ASSUME Typed, DecisionStands, [Next]_vars PROVE DecisionStands'
    OBVIOUS
  <1>parts. LicencesOK /\ CallsOK
    BY DEF Typed
  <1>kinds. Redeemers \subseteq Procs /\ Operators \subseteq Procs /\ Handlers \subseteq Procs
    BY ProcKinds
  <1>1. ASSUME UNCHANGED licences PROVE DecisionStands'
    BY <1>1, DecisionUnchanged DEF licences
  <1>2. DayPasses \/ UNCHANGED vars => UNCHANGED licences
    BY DEF DayPasses, vars
  <1>3. \A g \in Guilds : Blacklist(g) => UNCHANGED licences
    BY DEF Blacklist
  <1>4. \A r \in Redeemers : LockServer(r) \/ RollBack(r) => UNCHANGED licences
    BY DEF LockServer, RollBack
  <1>5. \A r \in Redeemers, k \in Keys, g \in Guilds : BeginRedeem(r, k, g) => UNCHANGED licences
    BY DEF BeginRedeem
  <1>6. ASSUME NEW k \in Keys, GenerateKey(k) PROVE DecisionStands'
    BY <1>6, DecisionUnchanged DEF GenerateKey
  <1>7. ASSUME NEW r \in Redeemers, CommitRedeem(r) PROVE DecisionStands'
    <2>1. guild[r] \in Guilds
      BY <1>7, <1>parts, <1>kinds DEF CommitRedeem, CallsOK, InHand
    <2>2. PICK row : /\ ent' = [ent EXCEPT ![guild[r]] = row]
                     /\ decided' = [decided EXCEPT ![guild[r]] = row]
                     /\ repeated' = repeated \ {guild[r]}
      BY <1>7 DEF CommitRedeem
    <2> QED
      BY <1>parts, <2>1, <2>2 DEF LicencesOK, DecisionStands
  <1>8. ASSUME NEW o \in Operators, Revoke(o) PROVE DecisionStands'
    BY <1>8, DecisionUnchanged DEF Revoke
  <1>9. ASSUME NEW o \in Operators, UpsertEntitlement(o) PROVE DecisionStands'
    <2>1. guild[o] \in Guilds
      BY <1>9, <1>parts, <1>kinds DEF UpsertEntitlement, CallsOK, InHand
    <2>2. ent' = [ent EXCEPT ![guild[o]] = arg[o]]
      BY <1>9 DEF UpsertEntitlement
    <2>3. CASE o \in sent
      BY <1>9, <1>parts, <2>1, <2>2, <2>3 DEF UpsertEntitlement, LicencesOK, DecisionStands
    <2>4. CASE o \notin sent
      BY <1>9, <1>parts, <2>1, <2>2, <2>4 DEF UpsertEntitlement, LicencesOK, DecisionStands
    <2> QED
      BY <2>3, <2>4
  <1>10. ASSUME NEW o \in Operators, CreateEntitlement(o) PROVE DecisionStands'
    <2>1. guild[o] \in Guilds
      BY <1>10, <1>parts, <1>kinds DEF CreateEntitlement, CallsOK, InHand
    <2>2. CASE ent[guild[o]] = None
      BY <1>10, <1>parts, <2>1, <2>2, RowTypes, FirstRowStands DEF CreateEntitlement
    <2>3. CASE ent[guild[o]] # None
      BY <1>10, <2>3, DecisionUnchanged DEF CreateEntitlement
    <2> QED
      BY <2>2, <2>3
  <1>11. ASSUME NEW h \in Handlers, CommitRecord(h) PROVE DecisionStands'
    <2>1. guild[h] \in Guilds /\ repeated' = repeated
      BY <1>11, <1>parts, <1>kinds DEF CommitRecord, CallsOK, InHand
    <2>2. CASE h \in missing
      <3>1. ent[guild[h]] = None /\ FirstRow(guild[h], FirstEntitlement)
        BY <1>11, <2>2 DEF CommitRecord, Refused, Creates
      <3> QED
        BY <1>parts, <2>1, <3>1, RowTypes, FirstRowStands
    <2>3. CASE h \notin missing
      BY <1>11, <2>1, <2>3, DecisionUnchanged DEF CommitRecord, Creates
    <2> QED
      BY <2>2, <2>3
  <1>12. CASE \E o \in Operators : UpsertServer(o)
    BY <1>12, <1>1 DEF UpsertServer, licences
  <1>13. CASE \E o \in Operators, k \in Keys : BeginRevoke(o, k)
    BY <1>13, <1>1 DEF BeginRevoke
  <1>14. CASE \E o \in Operators, g \in Guilds : BeginSync(o, g)
    BY <1>14, <1>1 DEF BeginSync
  <1>15. CASE \E o \in Operators, g \in Guilds, row \in Offers : BeginUpsert(o, g, row)
    BY <1>15, <1>1 DEF BeginUpsert
  <1>16. CASE \E h \in Handlers : Summary(h) \/ LeaveBlacklisted(h) \/ Record(h) \/ GiveUp(h)
    BY <1>16, <1>1 DEF Summary, LeaveBlacklisted, Record, GiveUp
  <1>17. CASE \E h \in Handlers, g \in Guilds : BotJoins(h, g) \/ BotLeaves(h, g)
    BY <1>17, <1>1 DEF BotJoins, BotLeaves
  <1>18. CASE \E g \in Guilds : Appearance(g)
    BY <1>18, <1>1, AppearanceFrame
  <1> QED
    BY <1>1, <1>2, <1>3, <1>4, <1>5, <1>6, <1>7, <1>8, <1>9, <1>10, <1>11,
       <1>12, <1>13, <1>14, <1>15, <1>16, <1>17, <1>18, StepCases

\* No report of a join or a leave and no member sync takes a licence away,
\* shortens it or starts a second trial: the last decision stands.
THEOREM DecisionSafe == Spec => []DecisionStands
  <1>1. Init => DecisionStands
    BY DEF Init, DecisionStands
  <1> QED
    BY <1>1, InitTyped, NextTyped, NextDecision, PTL DEF Spec

-----------------------------------------------------------------------------
(* A guild's row and the bot's presence.                                    *)

\* Handler h is at work on the newest event of its guild.
Newest(h) == pc[h] # "idle" /\ h \notin late

\* The row of guild g tells whether the bot is in it.
Shown(g) ==
    /\ g \in present => g \in known /\ g \notin removed
    /\ g \in discovered \ present => g \in removed

\* The newest handler of a guild brings what is the case.
NewestIsRight ==
    \A h \in Handlers :
        /\ Newest(h) => (arg[h] = "join" <=> guild[h] \in present)
        /\ pc[h] = "summary" => arg[h] = "join"
        /\ h \in late => pc[h] # "idle"

OneNewest ==
    \A h, i \in Handlers : Newest(h) /\ Newest(i) /\ guild[h] = guild[i] => h = i

\* When the newest has been handled, late ones have not undone it unseen.
ShownWhenSettled ==
    \A g \in Guilds \ astray : (\A h \in Handlers : Newest(h) => guild[h] # g) => Shown(g)

Presence == NewestIsRight /\ OneNewest /\ ShownWhenSettled

LEMMA InitPresence == Init => Presence
  <1> SUFFICES ASSUME Init PROVE Presence
    OBVIOUS
  <1>1. \A h \in Handlers : pc[h] = "idle" /\ h \notin late
    BY ProcKinds DEF Init
  <1> QED
    BY <1>1 DEF Init, Presence, NewestIsRight, OneNewest, ShownWhenSettled, Newest, Shown

\* Steps in which no handler begins or ends, and no row changes but by being made.
LEMMA PresenceFrame ==
    ASSUME Presence,
           \A h \in Handlers :
               /\ (pc'[h] = "idle") <=> (pc[h] = "idle")
               /\ pc'[h] = "summary" => pc[h] = "summary"
               /\ guild'[h] = guild[h] /\ arg'[h] = arg[h]
               /\ (h \in late') <=> (h \in late),
           known \subseteq known', UNCHANGED <<removed, present, astray, discovered>>
    PROVE  Presence'
  <1>1. \A h \in Handlers : Newest(h)' <=> Newest(h)
    BY DEF Newest
  <1>2. NewestIsRight' /\ OneNewest'
    BY <1>1 DEF Presence, NewestIsRight, OneNewest
  <1>3. \A g \in Guilds : Shown(g) => Shown(g)'
    BY DEF Shown
  <1>4. ShownWhenSettled'
    BY <1>1, <1>3 DEF Presence, ShownWhenSettled
  <1> QED
    BY <1>2, <1>4 DEF Presence

\* A step of a redemption or of an admin's request moves no handler.
LEMMA OthersMove ==
    ASSUME CallsOK, NEW p \in Redeemers \cup Operators,
           \/ Done(p)
           \/ /\ UNCHANGED <<guild, arg, late>>
              /\ \E step \in Steps : Goto(p, step)
           \/ /\ UNCHANGED late
              /\ \E step \in Steps, g \in Guilds \cup {None}, a \in Args : Start(p, step, g, a)
    PROVE  \A h \in Handlers :
               /\ pc'[h] = pc[h] /\ guild'[h] = guild[h] /\ arg'[h] = arg[h]
               /\ (h \in late') <=> (h \in late)
  <1>1. \A h \in Handlers : h \in Procs /\ h # p
    BY ProcKinds, LicensingAssumption
  <1> QED
    BY <1>1 DEF CallsOK, Done, Goto, Start

\* A guild gets a new event, of which h is the handler.
LEMMA NewEvent ==
    ASSUME Typed, Presence, NEW h \in Handlers, NEW g \in Guilds, NEW step, NEW what,
           pc' = [pc EXCEPT ![h] = step], step \in {"summary", "post"},
           guild' = [guild EXCEPT ![h] = g], arg' = [arg EXCEPT ![h] = what],
           late' = (late \cup Busy(g)) \ {h},
           step = "summary" => what = "join",
           what = "join" <=> g \in present',
           \A j \in Guilds : j # g => (j \in present' <=> j \in present),
           pc[h] # "idle" => guild[h] = g,
           UNCHANGED <<known, removed, astray, discovered>>
    PROVE  Presence'
  <1>types. /\ pc \in [Procs -> Steps] /\ guild \in [Procs -> Guilds \cup {None}]
            /\ arg \in [Procs -> Args] /\ Handlers \subseteq Procs
            /\ \A i \in Handlers : pc[i] # "idle" => guild[i] \in Guilds
    BY ProcKinds, LicensingAssumption DEF Typed, CallsOK, InHand, Steps
  <1>1. Newest(h)' /\ guild'[h] = g /\ arg'[h] = what /\ pc'[h] = step /\ h \notin late'
    BY <1>types DEF Newest
  <1>2. \A i \in Handlers : i # h =>
          /\ pc'[i] = pc[i] /\ guild'[i] = guild[i] /\ arg'[i] = arg[i]
          /\ (i \in late') <=> (i \in late \/ (pc[i] # "idle" /\ guild[i] = g))
    BY <1>types DEF Busy
  <1>3. \A i \in Handlers : i # h => (Newest(i)' <=> (Newest(i) /\ guild[i] # g))
    BY <1>2 DEF Newest
  <1>4. NewestIsRight'
    <2>1. \A i \in Handlers : i # h /\ Newest(i)' =>
            (arg'[i] = "join" <=> guild'[i] \in present')
      BY <1>2, <1>3, <1>types DEF Presence, NewestIsRight, Newest
    <2>2. \A i \in Handlers : i # h => /\ pc'[i] = "summary" => arg'[i] = "join"
                                       /\ i \in late' => pc'[i] # "idle"
      BY <1>2 DEF Presence, NewestIsRight
    <2> QED
      BY <1>1, <2>1, <2>2 DEF NewestIsRight
  <1>5. OneNewest'
    BY <1>1, <1>2, <1>3 DEF Presence, OneNewest
  <1>6. ShownWhenSettled'
    <2> SUFFICES ASSUME NEW j \in Guilds \ astray,
                        \A i \in Handlers : Newest(i)' => guild'[i] # j
                 PROVE  Shown(j)'
      BY DEF ShownWhenSettled
    <2>1. j # g
      BY <1>1
    <2>2. \A i \in Handlers : Newest(i) => guild[i] # j
      BY <1>1, <1>2, <1>3, <2>1 DEF Newest
    <2>3. Shown(j)
      BY <2>2 DEF Presence, ShownWhenSettled
    <2> QED
      BY <2>1, <2>3 DEF Shown
  <1> QED
    BY <1>4, <1>5, <1>6 DEF Presence

\* Handler h ends, or stays with what it has; what its guild's row says may
\* change.  It must come right if h was the newest and did not give up, and
\* may go wrong if the guild is then astray.
LEMMA EventHandled ==
    ASSUME Typed, Presence, NEW h \in Handlers, pc[h] # "idle",
           NEW g \in Guilds, guild[h] = g,
           \/ Done(h)
           \/ UNCHANGED <<guild, arg, late>> /\ pc' = [pc EXCEPT ![h] = "post"],
           UNCHANGED present,
           \A j \in Guilds : j # g =>
               /\ (j \in known') <=> (j \in known)
               /\ (j \in removed') <=> (j \in removed)
               /\ (j \in discovered') <=> (j \in discovered)
               /\ (j \in astray') <=> (j \in astray),
           \/ g \in astray'
           \/ Shown(g)'
           \/ \E i \in Handlers : i # h /\ Newest(i) /\ guild[i] = g
           \/ h \in late /\ UNCHANGED <<known, removed, discovered, astray>>
    PROVE  Presence'
  <1>types. /\ pc \in [Procs -> Steps] /\ guild \in [Procs -> Guilds \cup {None}]
            /\ arg \in [Procs -> Args] /\ Handlers \subseteq Procs
    BY ProcKinds DEF Typed, CallsOK
  <1>1. \A i \in Handlers : i # h =>
          /\ pc'[i] = pc[i] /\ guild'[i] = guild[i] /\ arg'[i] = arg[i]
          /\ (i \in late') <=> (i \in late)
          /\ Newest(i)' <=> Newest(i)
    BY <1>types DEF Done, Goto, Newest
  <1>2. \/ pc'[h] = "idle" /\ h \notin late' /\ ~Newest(h)'
        \/ /\ pc'[h] = "post" /\ guild'[h] = g /\ arg'[h] = arg[h]
           /\ (h \in late') <=> (h \in late)
           /\ Newest(h)' <=> Newest(h)
    BY <1>types DEF Done, Goto, Newest
  <1>3. NewestIsRight' /\ OneNewest'
    BY <1>1, <1>2 DEF Presence, NewestIsRight, OneNewest
  <1>4. ShownWhenSettled'
    <2> SUFFICES ASSUME NEW j \in Guilds \ astray',
                        \A i \in Handlers : Newest(i)' => guild'[i] # j
                 PROVE  Shown(j)'
      BY DEF ShownWhenSettled
    <2>1. CASE j # g
      <3>1. \A i \in Handlers : Newest(i) => guild[i] # j
        BY <1>1, <2>1
      <3>2. Shown(j)
        BY <3>1, <2>1 DEF Presence, ShownWhenSettled
      <3> QED
        BY <3>2, <2>1 DEF Shown
    <2>2. CASE j = g
      <3>1. \A i \in Handlers : i # h => ~(Newest(i) /\ guild[i] = g)
        BY <1>1, <2>2
      <3>2. CASE Shown(g)'
        BY <3>2, <2>2
      <3>3. CASE h \in late /\ UNCHANGED <<known, removed, discovered, astray>>
        <4>1. \A i \in Handlers : Newest(i) => guild[i] # g
          BY <3>1, <3>3 DEF Newest
        <4>2. Shown(g)
          BY <4>1, <3>3, <2>2 DEF Presence, ShownWhenSettled
        <4> QED
          BY <4>2, <3>3, <2>2 DEF Shown
      <3> QED
        BY <2>2, <3>1, <3>2, <3>3
    <2> QED
      BY <2>1, <2>2
  <1> QED
    BY <1>3, <1>4 DEF Presence

LEMMA NextPresence == Typed /\ Presence /\ [Next]_vars => Presence'
  <1> SUFFICES ASSUME Typed, Presence, [Next]_vars PROVE Presence'
    OBVIOUS
  <1>parts. LicencesOK /\ GuildsOK /\ CallsOK
    BY DEF Typed
  <1>kinds. Redeemers \subseteq Procs /\ Operators \subseteq Procs /\ Handlers \subseteq Procs
    BY ProcKinds
  <1>rows. known \subseteq known' <=> \A g \in known : g \in known'
    OBVIOUS
  <1>1. ASSUME NEW p \in Redeemers \cup Operators,
               \/ Done(p)
               \/ /\ UNCHANGED <<guild, arg, late>>
                  /\ \E step \in Steps : Goto(p, step)
               \/ /\ UNCHANGED late
                  /\ \E step \in Steps, g \in Guilds \cup {None}, a \in Args :
                        Start(p, step, g, a),
               known \subseteq known', UNCHANGED <<removed, present, astray, discovered>>
        PROVE  Presence'
    BY <1>1, <1>parts, OthersMove, PresenceFrame
  <1>2. ASSUME UNCHANGED <<pc, guild, arg, late>>,
               known \subseteq known', UNCHANGED <<removed, present, astray, discovered>>
        PROVE  Presence'
    BY <1>2, PresenceFrame
  <1>3. CASE DayPasses \/ (\E k \in Keys : GenerateKey(k)) \/ (\E g \in Guilds : Blacklist(g))
             \/ UNCHANGED vars
    BY <1>3, <1>2 DEF DayPasses, GenerateKey, Blacklist, vars, licences, guilds, calls
  <1>4. CASE \E g \in Guilds : Appearance(g)
    <2>1. /\ UNCHANGED <<clock, licences, calls, faults>>
          /\ known \subseteq known' /\ UNCHANGED <<removed, present, astray>>
      BY <1>4, AppearanceFrame
         DEF Appearance, RequestRefresh, Refresh, TakeSnapshot, RecordSnapshot, LoseSnapshot, guilds
    <2> QED
      BY <2>1, <1>2 DEF licences, calls
  <1>5. CASE \E r \in Redeemers : LockServer(r) \/ CommitRedeem(r) \/ RollBack(r)
    BY <1>5, <1>1 DEF LockServer, CommitRedeem, RollBack, licences, guilds, Steps
  <1>6. CASE \E r \in Redeemers, k \in Keys, g \in Guilds : BeginRedeem(r, k, g)
    BY <1>6, <1>1 DEF BeginRedeem, licences, guilds, Steps, Args
  <1>7. CASE \E o \in Operators :
               Revoke(o) \/ UpsertServer(o) \/ UpsertEntitlement(o) \/ CreateEntitlement(o)
    BY <1>7, <1>1 DEF Revoke, UpsertServer, UpsertEntitlement, CreateEntitlement, licences, guilds, Steps
  <1>8. CASE \E o \in Operators, k \in Keys : BeginRevoke(o, k)
    BY <1>8, <1>1 DEF BeginRevoke, licences, guilds, Steps, Args
  <1>9. CASE \E o \in Operators, g \in Guilds : BeginSync(o, g)
    BY <1>9, <1>1 DEF BeginSync, licences, guilds, Steps, Args
  <1>10. CASE \E o \in Operators, g \in Guilds, row \in Offers : BeginUpsert(o, g, row)
    BY <1>10, <1>1, LicensingAssumption DEF BeginUpsert, licences, guilds, Steps, Args
  <1>11. ASSUME NEW h \in Handlers, Summary(h) \/ Record(h) PROVE Presence'
    <2>1. /\ pc[h] # "idle" /\ pc'[h] \in {"post", "record"}
          /\ \A i \in Handlers : i # h => pc'[i] = pc[i]
      BY <1>11, <1>parts, <1>kinds DEF Summary, Record, Goto, CallsOK
    <2>2. UNCHANGED <<guild, arg, late, known, removed, present, astray, discovered>>
      BY <1>11 DEF Summary, Record, licences, guilds
    <2> QED
      BY <2>1, <2>2, PresenceFrame
  <1>12. ASSUME NEW h \in Handlers, NEW g \in Guilds, BotJoins(h, g) PROVE Presence'
    BY <1>12, <1>parts, NewEvent DEF BotJoins, Start, Goto, licences, GuildsOK
  <1>13. ASSUME NEW h \in Handlers, NEW g \in Guilds, BotLeaves(h, g) PROVE Presence'
    BY <1>13, <1>parts, NewEvent DEF BotLeaves, Start, Goto, licences, GuildsOK
  <1>14. ASSUME NEW h \in Handlers, LeaveBlacklisted(h) PROVE Presence'
    <2>1. pc[h] = "summary" /\ guild[h] \in Guilds /\ arg[h] = "join"
      BY <1>14, <1>parts, <1>kinds DEF LeaveBlacklisted, CallsOK, InHand, Presence, NewestIsRight
    <2>2. CASE guild[h] \in present
      <3>1. /\ present' = present \ {guild[h]}
            /\ late' = (late \cup Busy(guild[h])) \ {h}
            /\ pc' = [pc EXCEPT ![h] = "post"]
            /\ arg' = [arg EXCEPT ![h] = "leave"]
            /\ guild' = guild
            /\ UNCHANGED <<known, removed, astray, discovered>>
        BY <1>14, <2>2 DEF LeaveBlacklisted, Goto, licences
      <3>2. guild' = [guild EXCEPT ![h] = guild[h]]
        BY <3>1, <1>parts, <1>kinds DEF CallsOK
      <3> QED
        BY <2>1, <3>1, <3>2, NewEvent
    <2>3. CASE guild[h] \notin present
      <3>1. h \in late
        BY <2>1, <2>3 DEF Presence, NewestIsRight, Newest
      <3>2. Done(h) /\ UNCHANGED <<known, removed, present, astray, discovered>>
        BY <1>14, <2>3 DEF LeaveBlacklisted, licences
      <3> QED
        BY <2>1, <3>1, <3>2, EventHandled
    <2> QED
      BY <2>2, <2>3
  <1>15. ASSUME NEW h \in Handlers, CommitRecord(h) PROVE Presence'
    <2>0. PICK g \in Guilds : guild[h] = g
      BY <1>15, <1>parts, <1>kinds DEF CommitRecord, CallsOK, InHand
    <2>1. pc[h] = "record" /\ arg[h] \in {"join", "leave"}
      BY <1>15, <1>parts, <1>kinds DEF CommitRecord, CallsOK, InHand
    <2>2. /\ known' = known \cup {g} /\ removed' = RemovedAfter(h)
          /\ discovered' = IF arg[h] = "join" THEN discovered \cup {g} ELSE discovered
          /\ Settle(h) /\ UNCHANGED present
      BY <1>15, <2>0 DEF CommitRecord
    <2>3. Done(h) \/ (UNCHANGED <<guild, arg, late>> /\ pc' = [pc EXCEPT ![h] = "post"])
      BY <1>15 DEF CommitRecord, Goto
    <2>4. \A j \in Guilds : j # g =>
            /\ (j \in known') <=> (j \in known)
            /\ (j \in removed') <=> (j \in removed)
            /\ (j \in discovered') <=> (j \in discovered)
            /\ (j \in astray') <=> (j \in astray)
      BY <2>0, <2>2 DEF RemovedAfter, Settle
    <2>5. \/ g \in astray' \/ Shown(g)'
          \/ \E i \in Handlers : i # h /\ Newest(i) /\ guild[i] = g
      <3>1. CASE h \notin late
        <4>1. arg[h] = "join" <=> g \in present
          BY <2>0, <2>1, <3>1 DEF Presence, NewestIsRight, Newest
        <4>2. removed' = IF arg[h] = "leave" THEN removed \cup {g} ELSE removed \ {g}
          BY <2>0, <2>2 DEF RemovedAfter
        <4> QED
          BY <2>1, <2>2, <4>1, <4>2 DEF Shown
      <3>2. CASE h \in late
        <4>1. CASE Busy(g) \ late # {}
          BY <3>2, <4>1 DEF Busy, Newest
        <4>2. CASE Busy(g) \ late = {}
          BY <2>0, <2>2, <3>2, <4>2 DEF Settle
        <4> QED
          BY <4>1, <4>2
      <3> QED
        BY <3>1, <3>2
    <2> QED
      BY <2>0, <2>1, <2>2, <2>3, <2>4, <2>5, EventHandled
  <1>16. ASSUME NEW h \in Handlers, GiveUp(h) PROVE Presence'
    <2>1. pc[h] \in {"post", "record"} /\ Done(h)
      BY <1>16 DEF GiveUp
    <2>2. /\ UNCHANGED <<known, removed, present, discovered>>
          /\ astray' = IF h \in late THEN astray ELSE astray \cup {guild[h]}
      BY <1>16 DEF GiveUp, licences
    <2>3. guild[h] \in Guilds
      BY <2>1, <1>parts, <1>kinds DEF CallsOK, InHand
    <2> QED
      BY <2>1, <2>2, <2>3, EventHandled
  <1> QED
    BY <1>3, <1>4, <1>5, <1>6, <1>7, <1>8, <1>9, <1>10, <1>11, <1>12, <1>13, <1>14, <1>15,
       <1>16, StepCases

\* However many handlers of joins and leaves overlap, a guild that no handler
\* is at work on is shown as it is, unless the guild is astray.
THEOREM PresenceSafe == Spec => []RowShowsPresence
  <1>1. Presence => RowShowsPresence
    BY DEF Presence, ShownWhenSettled, Shown, RowShowsPresence, Newest, Busy
  <1> QED
    BY <1>1, InitTyped, NextTyped, InitPresence, NextPresence, PTL DEF Spec

=============================================================================
