--------------------------- MODULE GuildSyncProofs ---------------------------
(* Proofs about GuildSync. *)
EXTENDS GuildSync, TLAPS

LEMMA StepCases ==
    ASSUME [Next]_vars
    PROVE  \/ ChangeLicense \/ Join \/ Leave \/ NextBucket
           \/ Disconnect \/ Crash \/ Connect
           \/ \E q \in Requests : MarkQueued(q) \/ Enqueue(q)
           \/ \E w \in Workers : BeginPass(w) \/ EndPass(w) \/ RestartWorker(w)
           \/ \E v \in Events : Publish(v) \/ Receive(v) \/ Drop(v)
           \/ \E r \in Runs : Fetch(r) \/ Alert(r)
           \/ \E c \in Calls : \/ ReadState(c) \/ SetRunning(c) \/ SetIdle(c)
                               \/ CallRepeats(c) \/ CallGivesUp(c)
           \/ UNCHANGED vars
  BY DEF Next, Request, Serve

LEMMA Chosen == ASSUME NEW S, S # {} PROVE (CHOOSE x \in S : TRUE) \in S
  OBVIOUS

LEMMA Inserted ==
    ASSUME Insert
    PROVE  \E t \in Ticks : created' = created \cup {t} /\ queued' = queued \cup {t}
  BY Chosen DEF Insert

-----------------------------------------------------------------------------
(* The syncs and their calls                                               *)

\* The part of TypeOK about syncs and calls.
SyncsOK ==
    /\ run \in [Runs -> Steps]
    /\ left \in [Runs -> 1..Batches]
    /\ call \in [Calls -> {"free", "read", "setRunning", "setIdle"}]
    /\ owner \in [Calls -> Runs \cup {None}]
    /\ \A r \in Runs : Waits(run[r]) =>
          \E c \in Calls : \A d \in Calls : owner[d] = r <=> d = c
    /\ \A c \in Calls : owner[c] # None =>
          IF run[owner[c]] = "batch"
          THEN call[c] \in {"read", "setRunning"}
          ELSE run[owner[c]] \in {"done", "again"} /\ call[c] = "setIdle"

\* Everything else.
RestOK ==
    /\ state \in {"IDLE", "QUEUED", "RUNNING"}
    /\ licensed \in BOOLEAN /\ member \in BOOLEAN /\ discovered \in BOOLEAN
    /\ request \in [Requests -> {"new", "marked", "over"}]
    /\ due \subseteq Workers /\ pass \subseteq Workers /\ created \subseteq Ticks
    /\ queued \subseteq Events /\ inbox \subseteq Events /\ handled \subseteq Events
    /\ connected \in BOOLEAN
    /\ starts \in [Keys -> Nat]
    /\ lost \in BOOLEAN
    /\ faults \in 0..MaxFaults

LEMMA TypeParts == TypeOK <=> SyncsOK /\ RestOK
  BY DEF TypeOK, SyncsOK, RestOK

\* Nobody waits for a call that is free, or for one of a sync that has none.
LEMMA Unowned ==
    ASSUME SyncsOK
    PROVE  /\ \A c \in Calls : call[c] = "free" => owner[c] = None
           /\ \A r \in Runs, c \in Calls : ~Waits(run[r]) => owner[c] # r
  BY SyncAssumption DEF SyncsOK, Waits

\* A sync gets a call for its next step: the one it had, or its first.
LEMMA Sent ==
    ASSUME SyncsOK, NEW r \in Runs, NEW c \in Calls, NEW step, Waits(step),
           owner[c] = r \/ (owner[c] = None /\ \A d \in Calls : owner[d] # r),
           Send(r, c, step), left' \in [Runs -> 1..Batches]
    PROVE  SyncsOK'
  <1>1. /\ run' = [run EXCEPT ![r] = step] /\ owner' = [owner EXCEPT ![c] = r]
        /\ call' = [call EXCEPT ![c] = Entry(step)] /\ r # None
        /\ run'[r] = step /\ owner'[c] = r /\ call'[c] = Entry(step)
    BY SyncAssumption DEF Send, SyncsOK
  <1>2. run' \in [Runs -> Steps] /\ owner' \in [Calls -> Runs \cup {None}]
    BY <1>1 DEF SyncsOK, Waits, Steps
  <1>3. call' \in [Calls -> {"free", "read", "setRunning", "setIdle"}]
    BY <1>1 DEF SyncsOK, Entry
  <1>4. ASSUME NEW d \in Calls, d # c
        PROVE  owner'[d] = owner[d] /\ call'[d] = call[d] /\ owner[d] # r
    <2>1. owner'[d] = owner[d] /\ call'[d] = call[d]
      BY <1>1, <1>4 DEF SyncsOK
    <2>2. CASE owner[c] = None
      BY <2>1, <2>2, <1>1
    <2>3. CASE owner[c] = r
      <3>1. Waits(run[r])
        BY <2>3, Unowned
      <3>2. PICK e \in Calls : \A f \in Calls : owner[f] = r <=> f = e
        BY <3>1 DEF SyncsOK
      <3> QED
        BY <2>1, <2>3, <3>2, <1>4
    <2> QED
      BY <2>2, <2>3
  <1>5. ASSUME NEW s \in Runs, Waits(run'[s])
        PROVE  \E e \in Calls : \A d \in Calls : owner'[d] = s <=> d = e
    <2>1. CASE s = r
      BY <2>1, <1>1, <1>4
    <2>2. CASE s # r
      <3>1. run'[s] = run[s]
        BY <2>2, <1>1 DEF SyncsOK
      <3>2. PICK e \in Calls : \A d \in Calls : owner[d] = s <=> d = e
        BY <1>5, <3>1 DEF SyncsOK
      <3>3. e # c
        BY <3>2, <2>2, SyncAssumption
      <3> QED
        BY <3>2, <3>3, <1>1, <1>4, <2>2
    <2> QED
      BY <2>1, <2>2
  <1>6. ASSUME NEW d \in Calls, owner'[d] # None
        PROVE  IF run'[owner'[d]] = "batch"
               THEN call'[d] \in {"read", "setRunning"}
               ELSE run'[owner'[d]] \in {"done", "again"} /\ call'[d] = "setIdle"
    <2>1. CASE d = c
      BY <2>1, <1>1 DEF Entry, Waits
    <2>2. CASE d # c
      <3>1. owner'[d] = owner[d] /\ call'[d] = call[d] /\ owner[d] # r /\ owner[d] \in Runs
        BY <2>2, <1>4, <1>6 DEF SyncsOK
      <3>2. run'[owner[d]] = run[owner[d]]
        BY <3>1, <1>1 DEF SyncsOK
      <3> QED
        BY <3>1, <3>2, <1>6 DEF SyncsOK
    <2> QED
      BY <2>1, <2>2
  <1> QED
    BY <1>2, <1>3, <1>5, <1>6 DEF SyncsOK

\* A sync ends with its call, or the call of nobody does.
LEMMA Released ==
    ASSUME SyncsOK, NEW c \in Calls, left' \in [Runs -> 1..Batches],
           NEW step \in {"idle", "alerts"},
           run' = IF owner[c] = None THEN run ELSE [run EXCEPT ![owner[c]] = step],
           call' = call \/ call' = [call EXCEPT ![c] = "free"],
           owner' = [owner EXCEPT ![c] = None]
    PROVE  SyncsOK'
  <1>1. /\ run' \in [Runs -> Steps] /\ owner' \in [Calls -> Runs \cup {None}]
        /\ call' \in [Calls -> {"free", "read", "setRunning", "setIdle"}]
        /\ left' \in [Runs -> 1..Batches]
    BY DEF SyncsOK, Steps
  <1>2. owner'[c] = None /\ \A d \in Calls : d # c => owner'[d] = owner[d] /\ call'[d] = call[d]
    BY DEF SyncsOK
  <1>3. ASSUME NEW s \in Runs, s # owner[c] PROVE run'[s] = run[s]
    BY <1>3 DEF SyncsOK
  <1>4. ASSUME NEW s \in Runs, s = owner[c] PROVE ~Waits(run'[s])
    BY <1>4, SyncAssumption DEF SyncsOK, Waits
  <1>5. ASSUME NEW s \in Runs, Waits(run'[s])
        PROVE  \E e \in Calls : \A d \in Calls : owner'[d] = s <=> d = e
    <2>1. s # owner[c] /\ Waits(run[s]) /\ s # None
      BY <1>3, <1>4, <1>5, SyncAssumption
    <2>2. PICK e \in Calls : \A d \in Calls : owner[d] = s <=> d = e
      BY <2>1 DEF SyncsOK
    <2> QED
      BY <1>2, <2>1, <2>2
  <1>6. ASSUME NEW d \in Calls, owner'[d] # None
        PROVE  IF run'[owner'[d]] = "batch"
               THEN call'[d] \in {"read", "setRunning"}
               ELSE run'[owner'[d]] \in {"done", "again"} /\ call'[d] = "setIdle"
    <2>1. d # c /\ owner'[d] = owner[d] /\ call'[d] = call[d] /\ owner[d] \in Runs
      BY <1>2, <1>6 DEF SyncsOK
    <2>2. owner[d] # owner[c]
      <3>1. Waits(run[owner[d]])
        BY <2>1, Unowned
      <3>2. PICK e \in Calls : \A f \in Calls : owner[f] = owner[d] <=> f = e
        BY <2>1, <3>1 DEF SyncsOK
      <3> QED
        BY <2>1, <3>2
    <2>3. run'[owner[d]] = run[owner[d]]
      BY <1>3, <2>1, <2>2
    <2> QED
      BY <2>1, <2>3, <1>6 DEF SyncsOK
  <1> QED
    BY <1>1, <1>5, <1>6 DEF SyncsOK

\* A sync sends its call again, or another one.
LEMMA Repeated == ASSUME SyncsOK, NEW c \in Calls, CallRepeats(c) PROVE SyncsOK'
  <1>r. /\ owner[c] \in Runs /\ owner[c] # None /\ run[owner[c]] \in {"batch", "done", "again"}
        /\ Batches \in Nat \ {0}
    BY SyncAssumption DEF CallRepeats, SyncsOK
  <1>1. PICK rest \in Abandon(c), d \in Calls, step \in {run[owner[c]], "again"} :
          /\ rest[d] = "free"
          /\ run' = [run EXCEPT ![owner[c]] = step]
          /\ call' = [rest EXCEPT ![d] = Entry(step)]
          /\ owner' = [owner EXCEPT ![c] = None, ![d] = owner[c]]
          /\ left' = IF step = "batch" THEN left ELSE [left EXCEPT ![owner[c]] = Batches]
    BY DEF CallRepeats
  <1>2. /\ rest \in [Calls -> {"free", "read", "setRunning", "setIdle"}]
        /\ \A e \in Calls : e # c => rest[e] = call[e]
        /\ Waits(step) /\ step \in Steps
    BY <1>1, <1>r DEF Abandon, SyncsOK, Waits, Steps
  <1>3. /\ run'[owner[c]] = step /\ call'[d] = Entry(step) /\ owner'[d] = owner[c]
        /\ \A s \in Runs : s # owner[c] => run'[s] = run[s]
    BY <1>1, <1>2, <1>r DEF SyncsOK
  <1>4. /\ run' \in [Runs -> Steps] /\ owner' \in [Calls -> Runs \cup {None}]
        /\ left' \in [Runs -> 1..Batches]
    BY <1>1, <1>2, <1>r DEF SyncsOK
  <1>5. call' \in [Calls -> {"free", "read", "setRunning", "setIdle"}]
    BY <1>1, <1>2 DEF Entry
  <1>6. PICK o \in Calls : \A e \in Calls : owner[e] = owner[c] <=> e = o
    BY <1>r DEF SyncsOK, Waits
  <1>7. ASSUME NEW e \in Calls, e # d
        PROVE  IF e = c THEN owner'[e] = None
               ELSE owner'[e] = owner[e] /\ call'[e] = call[e] /\ owner[e] # owner[c]
    BY <1>1, <1>2, <1>6, <1>7 DEF SyncsOK
  <1>8. owner[d] \in {None, owner[c]}
    <2>1. CASE d = c
      BY <2>1
    <2>2. CASE d # c
      BY <2>2, <1>1, <1>2, Unowned
    <2> QED
      BY <2>1, <2>2
  <1>9. ASSUME NEW s \in Runs, Waits(run'[s])
        PROVE  \E e \in Calls : \A f \in Calls : owner'[f] = s <=> f = e
    <2>1. CASE s = owner[c]
      BY <2>1, <1>3, <1>7, <1>r
    <2>2. CASE s # owner[c]
      <3>1. Waits(run[s]) /\ s # None
        BY <2>2, <1>3, <1>9, SyncAssumption
      <3>2. PICK e \in Calls : \A f \in Calls : owner[f] = s <=> f = e
        BY <3>1 DEF SyncsOK
      <3>3. e # d /\ e # c
        BY <3>1, <3>2, <2>2, <1>8
      <3> QED
        BY <3>1, <3>2, <3>3, <2>2, <1>3, <1>7
    <2> QED
      BY <2>1, <2>2
  <1>10. ASSUME NEW e \in Calls, owner'[e] # None
         PROVE  IF run'[owner'[e]] = "batch"
                THEN call'[e] \in {"read", "setRunning"}
                ELSE run'[owner'[e]] \in {"done", "again"} /\ call'[e] = "setIdle"
    <2>1. CASE e = d
      BY <2>1, <1>2, <1>3 DEF Entry, Waits
    <2>2. CASE e # d
      <3>1. /\ e # c /\ owner'[e] = owner[e] /\ call'[e] = call[e]
            /\ owner[e] # owner[c] /\ owner[e] \in Runs
        BY <2>2, <1>7, <1>10 DEF SyncsOK
      <3>2. run'[owner[e]] = run[owner[e]]
        BY <3>1, <1>3
      <3> QED
        BY <3>1, <3>2, <1>10 DEF SyncsOK
    <2> QED
      BY <2>1, <2>2
  <1> QED
    BY <1>4, <1>5, <1>9, <1>10 DEF SyncsOK

\* A sync begins, with no call yet.
LEMMA Started == ASSUME SyncsOK, Start, UNCHANGED <<left, call, owner>> PROVE SyncsOK'
  <1>1. PICK r \in Runs : run[r] = "idle" /\ run' = [run EXCEPT ![r] = "fetch"]
    BY Chosen DEF Start, IdleRuns
  <1>2. \A c \in Calls : owner[c] # r
    BY <1>1, Unowned DEF Waits
  <1>3. run' \in [Runs -> Steps] /\ run'[r] = "fetch" /\ \A s \in Runs : s # r => run'[s] = run[s]
    BY <1>1 DEF SyncsOK, Steps
  <1> QED
    BY <1>2, <1>3, SyncAssumption DEF SyncsOK, Waits

LEMMA Answered ==
    ASSUME SyncsOK, NEW c \in Calls, Answer(c)
    PROVE  SyncsOK'
  <1>0. Batches \in Nat \ {0}
    BY SyncAssumption
  <1>1. CASE owner[c] # None /\ run[owner[c]] = "batch" /\ left[owner[c]] > 1
    <2>1. /\ owner[c] \in Runs /\ left[owner[c]] \in 1..Batches
          /\ Send(owner[c], c, "batch")
          /\ left' = [left EXCEPT ![owner[c]] = @ - 1]
      BY <1>1 DEF Answer, SyncsOK
    <2>2. left' \in [Runs -> 1..Batches]
      BY <1>0, <1>1, <2>1 DEF SyncsOK
    <2> QED
      BY <2>1, <2>2, Sent DEF Waits
  <1>2. CASE ~(owner[c] # None /\ run[owner[c]] = "batch" /\ left[owner[c]] > 1)
    <2>1. /\ call' = [call EXCEPT ![c] = "free"] /\ owner' = [owner EXCEPT ![c] = None]
          /\ \E step \in {"idle", "alerts"} :
                run' = IF owner[c] = None THEN run ELSE [run EXCEPT ![owner[c]] = step]
      BY <1>2 DEF Answer
    <2>2. left' \in [Runs -> 1..Batches]
      BY <1>0, <1>2 DEF Answer, SyncsOK
    <2> QED
      BY <2>1, <2>2, Released
  <1> QED
    BY <1>1, <1>2

LEMMA Fetched == ASSUME SyncsOK, NEW r \in Runs, Fetch(r) \/ Alert(r) PROVE SyncsOK'
  <1>1. PICK c \in Calls, step \in Steps :
           Waits(step) /\ call[c] = "free" /\ Send(r, c, step)
    BY Chosen DEF Fetch, Alert, FreeCalls, Waits, Steps
  <1>2. left' \in [Runs -> 1..Batches]
    BY SyncAssumption DEF Fetch, Alert, SyncsOK
  <1>3. owner[c] = None /\ \A d \in Calls : owner[d] # r
    BY <1>1, Unowned DEF Fetch, Alert, Waits
  <1> QED
    BY <1>1, <1>2, <1>3, Sent

LEMMA NextSyncs == SyncsOK /\ [Next]_vars => SyncsOK'
  <1> SUFFICES ASSUME SyncsOK, [Next]_vars PROVE SyncsOK'
    OBVIOUS
  <1>same. UNCHANGED syncs => SyncsOK'
    BY DEF syncs, SyncsOK
  <1>1. CASE ChangeLicense \/ Leave \/ NextBucket \/ Disconnect \/ Connect \/ UNCHANGED vars
    BY <1>1, <1>same DEF ChangeLicense, Leave, NextBucket, Disconnect, Connect, vars
  <1>2. CASE Join
    BY <1>2, <1>same, Started DEF Join, syncs
  <1>3. ASSUME NEW q \in Requests, MarkQueued(q) \/ Enqueue(q) PROVE SyncsOK'
    BY <1>3, <1>same DEF MarkQueued, Enqueue
  <1>4. ASSUME NEW w \in Workers, BeginPass(w) \/ EndPass(w) \/ RestartWorker(w) PROVE SyncsOK'
    BY <1>4, <1>same DEF BeginPass, EndPass, RestartWorker
  <1>5. ASSUME NEW v \in Events, Publish(v) \/ Drop(v) PROVE SyncsOK'
    BY <1>5, <1>same DEF Publish, Drop
  <1>6. ASSUME NEW v \in Events, Receive(v) PROVE SyncsOK'
    BY <1>6, <1>same, Started DEF Receive, syncs
  <1>7. ASSUME NEW c \in Calls, ReadState(c) PROVE SyncsOK'
    <2>1. CASE state = "QUEUED"
      <3>1. /\ call' = [call EXCEPT ![c] = "setRunning"] /\ UNCHANGED <<run, left, owner>>
            /\ call[c] = "read"
        BY <1>7, <2>1 DEF ReadState
      <3> QED
        BY <3>1 DEF SyncsOK
    <2>2. CASE state # "QUEUED"
      BY <1>7, <2>2, Answered DEF ReadState
    <2> QED
      BY <2>1, <2>2
  <1>8. ASSUME NEW c \in Calls, SetRunning(c) \/ SetIdle(c) PROVE SyncsOK'
    BY <1>8, Answered DEF SetRunning, SetIdle
  <1>9. ASSUME NEW c \in Calls, CallGivesUp(c) PROVE SyncsOK'
    <2>1. /\ run' = IF owner[c] = None THEN run ELSE [run EXCEPT ![owner[c]] = "idle"]
          /\ call' = call \/ call' = [call EXCEPT ![c] = "free"]
          /\ owner' = [owner EXCEPT ![c] = None] /\ left' \in [Runs -> 1..Batches]
      BY <1>9 DEF CallGivesUp, Abandon, SyncsOK
    <2> QED
      BY <2>1, Released
  <1>10. CASE Crash
    BY <1>10, SyncAssumption DEF Crash, SyncsOK, Steps, Waits
  <1> QED
    BY <1>1, <1>2, <1>3, <1>4, <1>5, <1>6, <1>7, <1>8, <1>9, <1>10, Fetched, Repeated, StepCases

LEMMA InitTyped == Init => TypeOK
  <1> SUFFICES ASSUME Init PROVE TypeOK
    OBVIOUS
  <1>1. SyncsOK
    BY SyncAssumption DEF Init, SyncsOK, Steps, Waits
  <1>2. licensed \in BOOLEAN /\ member \in BOOLEAN /\ connected \in BOOLEAN /\ lost \in BOOLEAN
    BY DEF Init
  <1>3. discovered \in BOOLEAN
    BY <1>2 DEF Init
  <1>4. RestOK
    BY <1>2, <1>3, SyncAssumption DEF Init, RestOK
  <1> QED
    BY <1>1, <1>4, TypeParts

\* The variables that are TRUE or FALSE.
LEMMA NextFlags ==
    ASSUME RestOK, [Next]_vars
    PROVE  /\ licensed' \in BOOLEAN /\ member' \in BOOLEAN /\ discovered' \in BOOLEAN
           /\ connected' \in BOOLEAN /\ lost' \in BOOLEAN
  <1>flags. /\ licensed \in BOOLEAN /\ member \in BOOLEAN /\ discovered \in BOOLEAN
            /\ connected \in BOOLEAN /\ lost \in BOOLEAN
    BY DEF RestOK
  <1>1. ASSUME NEW c \in Calls, SetIdle(c)
        PROVE  lost' \in BOOLEAN /\ UNCHANGED <<licensed, member, discovered, connected>>
    BY <1>1 DEF SetIdle, guild, channel
  <1>2. ASSUME NEW v \in Events, Publish(v) \/ Receive(v) \/ Drop(v)
        PROVE  lost' \in {lost, TRUE} /\ UNCHANGED <<licensed, member, discovered, connected>>
    BY <1>2 DEF Publish, Receive, Drop, guild
  <1>3. CASE \/ ChangeLicense \/ Join \/ Leave \/ NextBucket
             \/ Disconnect \/ Crash \/ Connect \/ UNCHANGED vars
    BY <1>3, <1>flags DEF ChangeLicense, Join, Leave, NextBucket, Disconnect, Crash, Connect,
       vars, guild, channel
  <1>4. ASSUME NEW q \in Requests, MarkQueued(q) \/ Enqueue(q)
        PROVE  lost' \in {lost, TRUE} /\ UNCHANGED <<licensed, member, discovered, connected>>
    BY <1>4 DEF MarkQueued, Enqueue, guild, channel
  <1>5. ASSUME NEW w \in Workers, BeginPass(w) \/ EndPass(w) \/ RestartWorker(w)
        PROVE  UNCHANGED <<licensed, member, discovered, connected, lost>>
    BY <1>5 DEF BeginPass, EndPass, RestartWorker, guild, channel
  <1>6. ASSUME NEW r \in Runs, Fetch(r) \/ Alert(r)
        PROVE  UNCHANGED <<licensed, member, discovered, connected, lost>>
    BY <1>6 DEF Fetch, Alert, guild, channel
  <1>7. ASSUME NEW c \in Calls, ReadState(c) \/ SetRunning(c) \/ CallRepeats(c) \/ CallGivesUp(c)
        PROVE  lost' \in {lost, TRUE} /\ UNCHANGED <<licensed, member, discovered, connected>>
    BY <1>7 DEF ReadState, SetRunning, CallRepeats, CallGivesUp, guild, channel
  <1> QED
    BY <1>flags, <1>1, <1>2, <1>3, <1>4, <1>5, <1>6, <1>7, StepCases

LEMMA NextRest == RestOK /\ [Next]_vars => RestOK'
  <1> SUFFICES ASSUME RestOK, [Next]_vars PROVE RestOK'
    OBVIOUS
  <1>types. /\ state \in {"IDLE", "QUEUED", "RUNNING"}
            /\ request \in [Requests -> {"new", "marked", "over"}]
            /\ due \subseteq Workers /\ pass \subseteq Workers /\ created \subseteq Ticks
            /\ queued \subseteq Events /\ inbox \subseteq Events /\ handled \subseteq Events
            /\ starts \in [Keys -> Nat] /\ faults \in 0..MaxFaults /\ MaxFaults \in Nat
    BY SyncAssumption DEF RestOK
  <1> DEFINE Data ==
        /\ state \in {"IDLE", "QUEUED", "RUNNING"}
        /\ request \in [Requests -> {"new", "marked", "over"}]
        /\ due \subseteq Workers /\ pass \subseteq Workers /\ created \subseteq Ticks
        /\ queued \subseteq Events /\ inbox \subseteq Events /\ handled \subseteq Events
        /\ starts \in [Keys -> Nat] /\ faults \in 0..MaxFaults
  <1>fault. Fault => faults' \in 0..MaxFaults
    BY <1>types DEF Fault
  <1>1. CASE \/ ChangeLicense \/ Join \/ Leave \/ NextBucket
             \/ Disconnect \/ Crash \/ Connect \/ UNCHANGED vars
    <2>1. Data'
      BY <1>1, <1>types, <1>fault DEF ChangeLicense, Join, Leave, NextBucket, Disconnect, Crash,
         Connect, vars, schedule, channel
    <2> QED
      BY <2>1, NextFlags DEF RestOK
  <1>2. ASSUME NEW q \in Requests, MarkQueued(q) \/ Enqueue(q) PROVE RestOK'
    <2>1. Data'
      BY <1>2, <1>types, <1>fault DEF MarkQueued, Enqueue, schedule, channel, Events
    <2> QED
      BY <2>1, NextFlags DEF RestOK
  <1>3. ASSUME NEW w \in Workers, BeginPass(w) \/ EndPass(w) \/ RestartWorker(w) PROVE RestOK'
    <2>1. Data'
      BY <1>3, <1>types, <1>fault, Inserted DEF BeginPass, EndPass, RestartWorker,
         CreateScheduled, InsertIfNew, channel, Events
    <2> QED
      BY <2>1, NextFlags DEF RestOK
  <1>4. ASSUME NEW v \in Events, Publish(v) \/ Receive(v) \/ Drop(v) PROVE RestOK'
    <2>1. starts' \in [Keys -> Nat]
      BY <1>4, <1>types DEF Publish, Receive, Drop
    <2>2. Data'
      BY <1>4, <2>1, <1>types, <1>fault DEF Publish, Receive, Drop, schedule
    <2> QED
      BY <2>2, NextFlags DEF RestOK
  <1>5. ASSUME NEW r \in Runs, Fetch(r) \/ Alert(r) PROVE RestOK'
    <2>1. Data'
      BY <1>5, <1>types, <1>fault DEF Fetch, Alert, schedule, channel
    <2> QED
      BY <2>1, NextFlags DEF RestOK
  <1>6. ASSUME NEW c \in Calls,
               ReadState(c) \/ SetRunning(c) \/ SetIdle(c) \/ CallRepeats(c) \/ CallGivesUp(c)
        PROVE  RestOK'
    <2>1. Data'
      BY <1>6, <1>types, <1>fault DEF ReadState, SetRunning, SetIdle, CallRepeats, CallGivesUp,
         schedule, channel
    <2> QED
      BY <2>1, NextFlags DEF RestOK
  <1> QED
    BY <1>1, <1>2, <1>3, <1>4, <1>5, <1>6, StepCases

LEMMA NextTyped == TypeOK /\ [Next]_vars => TypeOK'
  BY NextSyncs, NextRest DEF TypeOK, SyncsOK, RestOK

\* The state keeps its types, every sync that has something to wait for waits
\* for one call, and for the right one.
THEOREM GuildSyncTypeOK == Spec => []TypeOK
  BY InitTyped, NextTyped, PTL DEF Spec

-----------------------------------------------------------------------------
(* One sync per key                                                        *)

KeyInv ==
    /\ starts \in [Keys -> Nat]
    /\ inbox \subseteq Events /\ queued \subseteq Events
    \* A request's event that was not handled has started nothing.
    /\ \A q \in Requests : starts[q] <= 1 /\ (q \notin handled => starts[q] = 0)
    \* The bucket has one row at most, and nothing else of it is under way.
    /\ \A v, w \in created : v = w
    /\ \A t \in Ticks : t \in queued \cup inbox => t \in created
    /\ starts[None] <= 1
    /\ starts[None] # 0 => \E w \in created : w \in handled

LEMMA InitKey == Init => KeyInv
  BY DEF Init, KeyInv, Keys

LEMMA KeyKept ==
    ASSUME KeyInv, UNCHANGED <<starts, created>>, handled \subseteq handled',
           inbox' \subseteq Events, queued' \subseteq Events,
           queued' \cup inbox' \subseteq queued \cup inbox \cup Requests
    PROVE  KeyInv'
  <1>1. Requests \cap Ticks = {}
    BY SyncAssumption
  <1> QED
    BY <1>1 DEF KeyInv

LEMMA ReceiveKey ==
    ASSUME KeyInv, NEW v \in Events, Receive(v)
    PROVE  KeyInv'
  <1>a. Requests \cap Ticks = {} /\ None \notin Requests
    BY SyncAssumption
  <1>1. /\ v \in inbox /\ inbox' = inbox \ {v} /\ handled' = handled \cup {v}
        /\ UNCHANGED <<queued, created>>
    BY DEF Receive, schedule
  <1>2. CASE UNCHANGED starts
    BY <1>1, <1>2, KeyKept DEF KeyInv
  <1>3. CASE v \notin handled /\ starts' = [starts EXCEPT ![KeyOf(v)] = starts[KeyOf(v)] + 1]
    <2>1. KeyOf(v) \in Keys /\ starts[KeyOf(v)] = 0
      <3>1. CASE v \in Requests
        BY <3>1, <1>3 DEF KeyInv, KeyOf, Keys
      <3>2. CASE v \in Ticks
        <4>1. v \in created /\ \A w \in created : w = v
          BY <3>2, <1>1 DEF KeyInv
        <4> QED
          BY <4>1, <3>2, <1>3, <1>a DEF KeyInv, KeyOf, Keys
      <3> QED
        BY <3>1, <3>2 DEF Events
    <2>2. /\ starts' \in [Keys -> Nat] /\ starts'[KeyOf(v)] = 1
          /\ \A k \in Keys : k # KeyOf(v) => starts'[k] = starts[k]
      BY <1>3, <2>1 DEF KeyInv
    <2>3. \A q \in Requests : starts'[q] <= 1 /\ (q \notin handled' => starts'[q] = 0)
      BY <1>1, <2>2, <1>a DEF KeyInv, KeyOf, Keys
    <2>4. starts'[None] <= 1 /\ (starts'[None] # 0 => \E w \in created : w \in handled')
      <3>1. CASE v \in Requests
        BY <3>1, <1>1, <2>2, <1>a DEF KeyInv, KeyOf, Keys
      <3>2. CASE v \in Ticks
        BY <3>2, <1>1, <2>2, <1>a DEF KeyInv, KeyOf
      <3> QED
        BY <3>1, <3>2 DEF Events
    <2>5. \A t \in Ticks : t \in queued' \cup inbox' => t \in created'
      BY <1>1 DEF KeyInv
    <2> QED
      BY <1>1, <2>2, <2>3, <2>4, <2>5 DEF KeyInv
  <1> QED
    BY <1>2, <1>3 DEF Receive

LEMMA NextKey == KeyInv /\ [Next]_vars => KeyInv'
  <1> SUFFICES ASSUME KeyInv, [Next]_vars PROVE KeyInv'
    OBVIOUS
  <1>1. CASE \/ ChangeLicense \/ Join \/ Leave \/ Disconnect \/ Crash \/ Connect
             \/ UNCHANGED vars
    <2>1. UNCHANGED <<starts, created, handled, queued>> /\ inbox' \in {inbox, {}}
      BY <1>1 DEF ChangeLicense, Join, Leave, Disconnect, Crash, Connect, vars, schedule, channel
    <2> QED
      BY <2>1, KeyKept DEF KeyInv
  <1>2. CASE NextBucket
    <2>1. /\ Ticks \cap (queued' \cup inbox') = {} /\ created' = {}
          /\ handled' = handled \ Ticks /\ starts' = [starts EXCEPT ![None] = 0]
          /\ UNCHANGED <<queued, inbox>>
      BY <1>2 DEF NextBucket
    <2>2. /\ starts' \in [Keys -> Nat] /\ starts'[None] = 0
          /\ \A q \in Requests : starts'[q] = starts[q]
      BY <2>1, SyncAssumption DEF KeyInv, Keys
    <2>3. \A q \in Requests : q \notin handled' => q \notin handled
      BY <2>1, SyncAssumption
    <2> QED
      BY <2>1, <2>2, <2>3 DEF KeyInv
  <1>3. ASSUME NEW q \in Requests, MarkQueued(q) \/ Enqueue(q) PROVE KeyInv'
    <2>1. /\ UNCHANGED <<starts, created, handled, inbox>>
          /\ queued' \in {queued, queued \cup {q}}
      BY <1>3 DEF MarkQueued, Enqueue, schedule, channel
    <2> QED
      BY <2>1, KeyKept DEF KeyInv, Events
  <1>4. ASSUME NEW w \in Workers, BeginPass(w) \/ EndPass(w) \/ RestartWorker(w) PROVE KeyInv'
    <2>1. UNCHANGED <<starts, handled, inbox>>
      BY <1>4 DEF BeginPass, EndPass, RestartWorker, channel
    <2>2. CASE UNCHANGED <<created, queued>>
      BY <2>1, <2>2, KeyKept DEF KeyInv
    <2>3. CASE created = {} /\ Insert
      <3>1. \E t \in Ticks : created' = {t} /\ queued' = queued \cup {t}
        BY <2>3, Inserted
      <3>2. starts[None] = 0
        BY <2>3 DEF KeyInv
      <3> QED
        BY <2>1, <2>3, <3>1, <3>2 DEF KeyInv, Events
    <2> QED
      BY <1>4, <2>2, <2>3 DEF BeginPass, EndPass, RestartWorker, CreateScheduled, InsertIfNew, channel
  <1>5. ASSUME NEW v \in Events, Publish(v) \/ Drop(v) PROVE KeyInv'
    <2>1. /\ UNCHANGED <<starts, created>> /\ handled \subseteq handled'
          /\ queued' \subseteq queued /\ inbox' \subseteq inbox \cup queued
      BY <1>5 DEF Publish, Drop, schedule
    <2> QED
      BY <2>1, KeyKept DEF KeyInv
  <1>6. ASSUME NEW r \in Runs, Fetch(r) \/ Alert(r) PROVE KeyInv'
    BY <1>6, KeyKept DEF Fetch, Alert, schedule, channel, KeyInv
  <1>7. ASSUME NEW c \in Calls,
               ReadState(c) \/ SetRunning(c) \/ SetIdle(c) \/ CallRepeats(c) \/ CallGivesUp(c)
        PROVE  KeyInv'
    <2>1. UNCHANGED <<starts, created, handled, queued, inbox>>
      BY <1>7 DEF ReadState, SetRunning, SetIdle, CallRepeats, CallGivesUp, schedule, channel
    <2> QED
      BY <2>1, KeyKept DEF KeyInv
  <1> QED
    BY <1>1, <1>2, <1>3, <1>4, <1>5, <1>6, <1>7, ReceiveKey, StepCases

\* Any number of workers, restarts, repeated publications and requests: one
\* sync for a request, and one for a bucket.
THEOREM OneSyncSafe == Spec => []OneSyncPerKey
  <1>1. KeyInv => OneSyncPerKey
    BY DEF KeyInv, OneSyncPerKey, Keys
  <1> QED
    BY <1>1, InitKey, NextKey, PTL DEF Spec

-----------------------------------------------------------------------------
(* A sync is on its way                                                    *)

SyncInv ==
    /\ SyncsOK
    /\ request \in [Requests -> {"new", "marked", "over"}]
    \* A request has no event before its last step.
    /\ \A q \in Requests : q \in queued \cup inbox \cup handled => request[q] = "over"
    \* A call that nobody waits for may set RUNNING late.
    /\ ~lost => \A c \in Calls : call[c] # "free" => owner[c] # None
    /\ SyncIsOnItsWay

Pending(q) == request[q] = "marked" \/ q \in (queued \cup inbox) \ handled

Busy == \E r \in Runs : run[r] # "idle"

LEMMA InitSync == Init => SyncInv
  BY InitTyped, TypeParts DEF Init, SyncInv, SyncIsOnItsWay

\* A step after which the guild is IDLE, or something is lost, or what was on
\* its way still is.
LEMMA WayKept ==
    ASSUME SyncIsOnItsWay,
           \/ state' = "IDLE" \/ lost' \/ Busy'
           \/ /\ state' = state /\ lost' = lost
              /\ Busy => Busy'
              /\ \A q \in Requests : Pending(q) => Pending(q)' \/ Busy'
    PROVE  SyncIsOnItsWay'
  BY DEF SyncIsOnItsWay, Pending, Busy

LEMMA EventsSync ==
    ASSUME SyncInv, SyncsOK', NEW v \in Events, Publish(v) \/ Receive(v) \/ Drop(v)
    PROVE  SyncInv'
  <1>1. UNCHANGED <<state, request, call, owner>>
    BY DEF Publish, Receive, Drop, syncs
  <1>2. \A q \in Requests : q \in queued' \cup inbox' \cup handled' =>
           q \in queued \cup inbox \cup handled
    BY DEF Publish, Receive, Drop
  <1>3. ~lost' => ~lost
    BY DEF Publish, Receive, Drop
  <1>4. SyncIsOnItsWay'
    <2>1. CASE lost'
      BY <2>1, WayKept DEF SyncInv
    <2>2. CASE Publish(v) /\ ~lost'
      BY <1>1, <2>2, WayKept DEF Publish, SyncInv, Pending, Busy, syncs
    <2>3. CASE Receive(v) /\ ~lost'
      <3>1. CASE v \in handled
        <4>1. UNCHANGED <<run, lost, queued>> /\ inbox' = inbox \ {v} /\ handled' = handled
          BY <2>3, <3>1 DEF Receive
        <4> QED
          BY <1>1, <3>1, <4>1, WayKept DEF SyncInv, Pending, Busy
      <3>2. CASE v \notin handled
        <4>1. Start
          BY <2>3, <3>2 DEF Receive
        <4>2. PICK r \in Runs : run' = [run EXCEPT ![r] = "fetch"]
          BY <4>1, Chosen DEF Start, IdleRuns
        <4>3. Busy'
          BY <4>2 DEF Busy, SyncInv, SyncsOK
        <4> QED
          BY <4>3, WayKept DEF SyncInv
      <3> QED
        BY <3>1, <3>2
    <2> QED
      BY <2>1, <2>2, <2>3 DEF Drop
  <1> QED
    BY <1>1, <1>2, <1>3, <1>4 DEF SyncInv

LEMMA CallsSync ==
    ASSUME SyncInv, SyncsOK', NEW c \in Calls,
           ReadState(c) \/ SetRunning(c) \/ SetIdle(c) \/ CallRepeats(c) \/ CallGivesUp(c)
    PROVE  SyncInv'
  <1>1. UNCHANGED <<request, queued, inbox, handled>>
    BY DEF ReadState, SetRunning, SetIdle, CallRepeats, CallGivesUp, channel
  <1>2. CASE CallRepeats(c) \/ CallGivesUp(c)
    <2>1. lost'
      BY <1>2 DEF CallRepeats, CallGivesUp
    <2> QED
      BY <1>1, <2>1, WayKept DEF SyncInv
  <1>3. CASE ReadState(c) \/ SetRunning(c)
    <2>1. call[c] \in {"read", "setRunning"} /\ lost' = lost
      BY <1>3 DEF ReadState, SetRunning
    <2>2. CASE lost'
      BY <1>1, <2>2, WayKept DEF SyncInv
    <2>3. CASE ~lost'
      <3>1. owner[c] \in Runs /\ owner[c] # None /\ run[owner[c]] = "batch"
        BY <2>1, <2>3 DEF SyncInv, SyncsOK
      <3>2. \/ UNCHANGED <<run, owner>> /\ call' = [call EXCEPT ![c] = "setRunning"]
            \/ Send(owner[c], c, "batch")
            \/ /\ call' = [call EXCEPT ![c] = "free"]
               /\ owner' = [owner EXCEPT ![c] = None]
               /\ run' = [run EXCEPT ![owner[c]] = "alerts"]
        BY <1>3, <3>1 DEF ReadState, SetRunning, Answer
      <3>3. run'[owner[c]] # "idle"
        BY <3>1, <3>2 DEF Send, SyncInv, SyncsOK
      <3>4. \A d \in Calls : call'[d] # "free" => owner'[d] # None
        BY <2>1, <2>3, <3>1, <3>2 DEF Send, SyncInv, SyncsOK
      <3>5. Busy'
        BY <3>1, <3>3 DEF Busy
      <3> QED
        BY <1>1, <3>4, <3>5, WayKept DEF SyncInv
    <2> QED
      BY <2>2, <2>3
  <1>4. CASE SetIdle(c)
    <2>1. /\ state' = "IDLE" /\ call[c] = "setIdle" /\ Answer(c)
          /\ lost' = \E d \in Calls \ {c} : owner[d] = None /\ call[d] # "free"
      BY <1>4 DEF SetIdle
    <2>2. ~(owner[c] # None /\ run[owner[c]] = "batch" /\ left[owner[c]] > 1)
      BY <2>1 DEF SyncInv, SyncsOK
    <2>3. call' = [call EXCEPT ![c] = "free"] /\ owner' = [owner EXCEPT ![c] = None]
      BY <2>1, <2>2 DEF Answer
    <2>4. ~lost' => \A d \in Calls : call'[d] # "free" => owner'[d] # None
      BY <2>1, <2>3 DEF SyncInv, SyncsOK
    <2> QED
      BY <1>1, <2>1, <2>4, WayKept DEF SyncInv
  <1> QED
    BY <1>2, <1>3, <1>4

LEMMA NextSync == SyncInv /\ [Next]_vars => SyncInv'
  <1> SUFFICES ASSUME SyncInv, [Next]_vars PROVE SyncInv'
    OBVIOUS
  <1>s. SyncsOK'
    BY NextSyncs DEF SyncInv
  <1>a. Requests \cap Ticks = {}
    BY SyncAssumption
  <1>1. CASE ChangeLicense \/ Leave \/ Connect \/ UNCHANGED vars
    <2>1. UNCHANGED <<state, request, queued, inbox, handled, run, call, owner, lost>>
      BY <1>1 DEF ChangeLicense, Leave, Connect, vars, channel, syncs
    <2> QED
      BY <1>s, <2>1, WayKept DEF SyncInv, Pending, Busy
  <1>2. CASE Disconnect \/ Crash
    <2>1. lost' /\ UNCHANGED <<request, queued, handled>> /\ inbox' = {}
      BY <1>2 DEF Disconnect, Crash
    <2> QED
      BY <1>s, <2>1, WayKept DEF SyncInv
  <1>3. CASE NextBucket
    <2>1. /\ UNCHANGED <<state, request, queued, inbox, run, call, owner, lost>>
          /\ handled' = handled \ Ticks
      BY <1>3 DEF NextBucket, syncs
    <2> QED
      BY <1>s, <1>a, <2>1, WayKept DEF SyncInv, Pending, Busy
  <1>4. CASE Join
    <2>1. UNCHANGED <<state, request, queued, inbox, handled, call, owner, lost>>
      BY <1>4 DEF Join, channel
    <2>2. Busy => Busy'
      <3>1. CASE UNCHANGED run
        BY <3>1 DEF Busy
      <3>2. CASE Start
        <4>1. PICK r \in Runs : run' = [run EXCEPT ![r] = "fetch"]
          BY <3>2, Chosen DEF Start, IdleRuns
        <4> QED
          BY <4>1 DEF Busy, SyncInv, SyncsOK
      <3> QED
        BY <1>4, <3>1, <3>2 DEF Join
    <2> QED
      BY <1>s, <2>1, <2>2, WayKept DEF SyncInv, Pending
  <1>5. ASSUME NEW q \in Requests, MarkQueued(q) PROVE SyncInv'
    <2>1. /\ UNCHANGED <<queued, inbox, handled, call, owner, lost>>
          /\ request[q] = "new" /\ request' = [request EXCEPT ![q] = "marked"]
      BY <1>5 DEF MarkQueued, channel, syncs
    <2>2. request'[q] = "marked" /\ request' \in [Requests -> {"new", "marked", "over"}]
      BY <2>1 DEF SyncInv
    <2>3. SyncIsOnItsWay'
      BY <2>2 DEF SyncIsOnItsWay
    <2>4. \A p \in Requests : p \in queued' \cup inbox' \cup handled' => request'[p] = "over"
      BY <2>1 DEF SyncInv
    <2> QED
      BY <1>s, <2>1, <2>2, <2>3, <2>4 DEF SyncInv
  <1>6. ASSUME NEW q \in Requests, Enqueue(q) PROVE SyncInv'
    <2>1. /\ UNCHANGED <<state, inbox, handled, run, call, owner>>
          /\ request[q] = "marked" /\ request' = [request EXCEPT ![q] = "over"]
          /\ (queued' = queued \cup {q} /\ lost' = lost) \/ (lost' /\ queued' = queued)
      BY <1>6 DEF Enqueue, syncs
    <2>2. /\ request'[q] = "over" /\ request' \in [Requests -> {"new", "marked", "over"}]
          /\ \A p \in Requests : p # q => request'[p] = request[p]
      BY <2>1 DEF SyncInv
    <2>3. \A p \in Requests : p \in queued' \cup inbox' \cup handled' => request'[p] = "over"
      BY <2>1, <2>2 DEF SyncInv
    <2>4. q \notin handled
      BY <2>1 DEF SyncInv
    <2>5. SyncIsOnItsWay'
      <3>1. CASE lost'
        BY <3>1, WayKept DEF SyncInv
      <3>2. CASE queued' = queued \cup {q} /\ lost' = lost
        BY <2>1, <2>2, <2>4, <3>2, WayKept DEF SyncInv, Pending, Busy
      <3> QED
        BY <2>1, <3>1, <3>2
    <2>6. ~lost' => \A c \in Calls : call'[c] # "free" => owner'[c] # None
      BY <2>1 DEF SyncInv
    <2> QED
      BY <1>s, <2>2, <2>3, <2>5, <2>6 DEF SyncInv
  <1>7. ASSUME NEW w \in Workers, BeginPass(w) \/ EndPass(w) \/ RestartWorker(w) PROVE SyncInv'
    <2>1. UNCHANGED <<state, request, inbox, handled, run, call, owner, lost>>
      BY <1>7 DEF BeginPass, EndPass, RestartWorker, channel, syncs
    <2>2. queued' = queued \/ \E t \in Ticks : queued' = queued \cup {t}
      BY <1>7, Inserted DEF BeginPass, EndPass, RestartWorker, CreateScheduled, InsertIfNew, channel
    <2> QED
      BY <1>s, <1>a, <2>1, <2>2, WayKept DEF SyncInv, Pending, Busy
  <1>8. ASSUME NEW r \in Runs, Fetch(r) \/ Alert(r) PROVE SyncInv'
    <2>1. PICK c \in Calls, step \in Steps :
             Waits(step) /\ call[c] = "free" /\ Send(r, c, step)
      BY <1>8, Chosen DEF Fetch, Alert, FreeCalls, Waits, Steps
    <2>2. UNCHANGED <<state, request, queued, inbox, handled, lost>>
      BY <1>8 DEF Fetch, Alert, channel
    <2>3. run'[r] # "idle" /\ owner'[c] = r /\ r # None
      BY <2>1, SyncAssumption DEF Send, SyncInv, SyncsOK, Waits
    <2>4. ~lost' => \A d \in Calls : call'[d] # "free" => owner'[d] # None
      BY <2>1, <2>2, <2>3 DEF Send, SyncInv, SyncsOK
    <2>5. Busy'
      BY <2>3 DEF Busy
    <2> QED
      BY <1>s, <2>2, <2>4, <2>5, WayKept DEF SyncInv
  <1> QED
    BY <1>s, <1>1, <1>2, <1>3, <1>4, <1>5, <1>6, <1>7, <1>8, EventsSync, CallsSync, StepCases

\* For any number of requests, syncs and calls in flight: a guild that is not
\* IDLE has a sync on its way, or something was lost since it was last IDLE.
THEOREM SyncIsOnItsWaySafe == Spec => []SyncIsOnItsWay
  <1>1. SyncInv => SyncIsOnItsWay
    BY DEF SyncInv
  <1> QED
    BY <1>1, InitSync, NextSync, PTL DEF Spec

=============================================================================
