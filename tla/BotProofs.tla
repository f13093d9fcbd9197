----------------------------- MODULE BotProofs -----------------------------
(***************************************************************************)
(* Proofs about what a bot does: BotCommands, and through the instances    *)
(* Gate and Config the modules JoinGate and BotConfig, which share no      *)
(* state with it.  They hold for any number of interactions, guilds, members,*)
(* handlers and bots, and any number of failures.                          *)
(***************************************************************************)
EXTENDS BotCommands, GateView, ConfigView, TLAPS

\* The steps of one interaction that leave the others alone.
OwnStep(i) ==
    \/ \E r \in Offers[i] : Arrive(i, r)
    \/ Reply(i) \/ Defer(i) \/ FirstAnswerFails(i) \/ Sorry(i)
    \/ Begin(i) \/ Call(i) \/ Finish(i) \/ ArriveLate(i)

\* The steps of Next, one disjunct each.
LEMMA StepCases ==
    ASSUME [Next]_vars
    PROVE  \/ \E i \in Interactions : OwnStep(i)
           \/ ApiReady \/ ApiNotReady \/ Register \/ Restart \/ Tick
           \/ Stop \/ \E i \in Interactions : Uncaught(i)
           \/ UNCHANGED vars
  BY DEF Next, Lifecycle, FirstAnswer, OwnStep

LEMMA OwnStepCases ==
    ASSUME NEW i, OwnStep(i)
    PROVE  \/ \E r \in Offers[i] : Arrive(i, r)
           \/ Reply(i) \/ Defer(i) \/ FirstAnswerFails(i) \/ Sorry(i)
           \/ BeginLimited(i) \/ BeginPlatform(i) \/ BeginMine(i) \/ BeginStaff(i)
           \/ CircuitOpen(i) \/ Capabilities(i) \/ CapabilitiesFail(i) \/ Send(i)
           \/ Succeed(i) \/ Reject(i) \/ Break(i) \/ Busy(i) \/ LoseAnswer(i) \/ ShowCopy(i)
           \/ DirectMessage(i) \/ Edit(i) \/ EditFails(i) \/ PlainEditFails(i) \/ AfterCheck(i)
           \/ ArriveLate(i)
  BY DEF OwnStep, Begin, Call, Finish

AllRequests == (UNION {Offers[i] : i \in Interactions}) \cup {None}

\* TypeOK in three parts: what belongs to the process, to the interactions,
\* and to the API.
ProcessOK ==
    /\ clock \in 0 .. MaxClock /\ faults \in Nat
    /\ boot \in {"waiting", "registering", "serving", "down"} /\ bootTry \in 1 .. BootTries
    /\ bucket \in [Guilds -> [count : Nat, resetAt : Nat]]
    /\ circuit \in [failures : 0 .. Threshold - 1, until : Nat]
    /\ passed \in [Guilds -> [0 .. MaxClock -> Nat]]

AskedOK ==
    /\ pc \in [Interactions -> Steps] /\ req \in [Interactions -> AllRequests]
    /\ tries \in [Interactions -> 0 .. RetryMax + 1] /\ answer \in [Interactions -> Answers]

SeenOK ==
    /\ shown \in [Interactions -> {"nothing", "thinking", "answer"}]
    /\ told \in [Interactions -> Answers] /\ snag \in [Interactions -> BOOLEAN]

ApiOK ==
    /\ late \in [Interactions -> Nat]
    /\ applied \in [Interactions -> Nat] /\ lost \in [Interactions -> Nat]

LEMMA TypeParts == TypeOK <=> ProcessOK /\ AskedOK /\ SeenOK /\ ApiOK
  BY DEF TypeOK, ProcessOK, AskedOK, SeenOK, ApiOK, AllRequests

LEMMA TypePartsNext == ProcessOK' /\ AskedOK' /\ SeenOK' /\ ApiOK' => TypeOK'
  BY DEF TypeOK, ProcessOK, AskedOK, SeenOK, ApiOK, AllRequests

LEMMA InitTypeOK == Init => TypeOK
  <1> SUFFICES ASSUME Init PROVE ProcessOK /\ AskedOK /\ SeenOK /\ ApiOK
    BY TypeParts
  <1>1. ProcessOK
    BY BotCommandsAssumption DEF Init, ProcessOK, FreshBuckets, Closed, NonePassed
  <1>2. AskedOK
    <2>1. pc \in [Interactions -> Steps] /\ answer \in [Interactions -> Answers]
      BY DEF Init, Steps, Answers
    <2>2. req \in [Interactions -> AllRequests]
      <3>1. None \in AllRequests
        BY DEF AllRequests
      <3> QED
        BY <3>1 DEF Init
    <2>3. tries \in [Interactions -> 0 .. RetryMax + 1]
      BY BotCommandsAssumption DEF Init
    <2> QED
      BY <2>1, <2>2, <2>3 DEF AskedOK
  <1>3. SeenOK /\ ApiOK
    <2>1. snag \in [Interactions -> BOOLEAN]
      BY DEF Init
    <2>2. /\ shown \in [Interactions -> {"nothing", "thinking", "answer"}]
          /\ told \in [Interactions -> Answers]
      BY DEF Init, Answers
    <2>3. ApiOK
      BY DEF Init, ApiOK
    <2> QED
      BY <2>1, <2>2, <2>3 DEF SeenOK
  <1> QED
    BY <1>1, <1>2, <1>3

LEMMA RecordsOK ==
    ASSUME ProcessOK, RecordFailure \/ RecordSuccess \/ circuit' = circuit
    PROVE  circuit' \in [failures : 0 .. Threshold - 1, until : Nat]
  <1>1. circuit \in [failures : 0 .. Threshold - 1, until : Nat]
        /\ clock \in Nat /\ OpenFor \in Nat /\ Threshold \in Nat \ {0}
    BY BotCommandsAssumption DEF ProcessOK
  <1>2. CASE RecordFailure
    <2>1. CASE circuit.failures + 1 >= Threshold
      BY <1>1, <1>2, <2>1 DEF RecordFailure
    <2>2. CASE ~(circuit.failures + 1 >= Threshold)
      BY <1>1, <1>2, <2>2 DEF RecordFailure
    <2> QED
      BY <2>1, <2>2
  <1>3. CASE RecordSuccess
    BY <1>1, <1>3 DEF RecordSuccess
  <1> QED
    BY <1>1, <1>2, <1>3

LEMMA ExitTypeOK ==
    ASSUME TypeOK, Exit, Fault, UNCHANGED <<clock, req, seen, applied>>
    PROVE  TypeOK'
  <1>1. ProcessOK'
    BY BotCommandsAssumption, TypeParts
       DEF ProcessOK, Exit, Fault, FreshBuckets, Closed, NonePassed
  <1>2. AskedOK'
    <2>1. pc' \in [Interactions -> Steps]
      BY TypeParts DEF AskedOK, Exit, UnderWay, Steps
    <2> QED
      BY <2>1, BotCommandsAssumption, TypeParts DEF AskedOK, Exit, Answers
  <1>3. SeenOK'
    BY TypeParts DEF SeenOK, seen
  <1>4. ApiOK'
    BY TypeParts DEF ApiOK, Exit
  <1> QED
    BY <1>1, <1>2, <1>3, <1>4, TypePartsNext

LEMMA CountOneMore ==
    ASSUME NEW f \in [0 .. MaxClock -> Nat], NEW t \in 0 .. MaxClock
    PROVE  [f EXCEPT ![t] = @ + 1] \in [0 .. MaxClock -> Nat]
  <1>1. f[t] \in Nat
    OBVIOUS
  <1> QED
    BY <1>1

LEMMA PassedOneMore ==
    ASSUME ProcessOK, NEW g \in Guilds
    PROVE  /\ passed[g] \in [0 .. MaxClock -> Nat]
           /\ [passed EXCEPT ![g][clock] = @ + 1] \in [Guilds -> [0 .. MaxClock -> Nat]]
  <1> DEFINE P == [passed[g] EXCEPT ![clock] = @ + 1]
  <1>1. passed[g] \in [0 .. MaxClock -> Nat] /\ clock \in 0 .. MaxClock
    BY DEF ProcessOK
  <1>2. P \in [0 .. MaxClock -> Nat]
    BY <1>1, CountOneMore
  <1>3. [passed EXCEPT ![g][clock] = @ + 1] = [passed EXCEPT ![g] = P]
    OBVIOUS
  <1> HIDE DEF P
  <1> QED
    BY <1>1, <1>2, <1>3 DEF ProcessOK

\* Nothing is written outside of a function's domain.
LEMMA OutOfDomain ==
    ASSUME NEW S, NEW R, NEW f \in [S -> R], NEW g, g \notin S, NEW b
    PROVE  [f EXCEPT ![g] = b] = f
  OBVIOUS

\* A consumed bucket is one of the guild's, and so is what it let through.
LEMMA ConsumeOK ==
    ASSUME ProcessOK, NEW i \in Interactions, NEW step, Consume(i, step)
    PROVE  /\ bucket' \in [Guilds -> [count : Nat, resetAt : Nat]]
           /\ passed' \in [Guilds -> [0 .. MaxClock -> Nat]]
  <1> DEFINE g == req[i].guild
  <1>1. CASE g = None
    BY <1>1 DEF Consume, ProcessOK
  <1>2. CASE g # None
    <2>1. /\ \/ bucket' = [bucket EXCEPT ![g] = [Bucket(g) EXCEPT !.count = @ + 1]]
             \/ bucket' = [bucket EXCEPT ![g] = Bucket(g)]
          /\ \/ passed' = [passed EXCEPT ![g][clock] = @ + 1]
             \/ passed' = passed
      BY <1>2 DEF Consume
    <2>2. CASE g \notin Guilds
      <3> DEFINE P == [passed[g] EXCEPT ![clock] = @ + 1]
      <3>2. [passed EXCEPT ![g][clock] = @ + 1] = [passed EXCEPT ![g] = P]
        OBVIOUS
      <3> HIDE DEF P
      <3>3. [passed EXCEPT ![g] = P] = passed
        BY <2>2, OutOfDomain DEF ProcessOK
      <3>4. ASSUME NEW b PROVE [bucket EXCEPT ![g] = b] = bucket
        BY <2>2, OutOfDomain DEF ProcessOK
      <3>1. passed' = passed /\ bucket' = bucket
        BY <2>1, <3>2, <3>3, <3>4, Zenon
      <3> QED
        BY <3>1 DEF ProcessOK
    <2>3. CASE g \in Guilds
      <3>1. Bucket(g) \in [count : Nat, resetAt : Nat]
        BY <2>3, BotCommandsAssumption DEF Bucket, NewWindow, ProcessOK, Window
      <3>2. [Bucket(g) EXCEPT !.count = @ + 1] \in [count : Nat, resetAt : Nat]
        BY <3>1
      <3>3. ASSUME NEW b \in [count : Nat, resetAt : Nat]
            PROVE  [bucket EXCEPT ![g] = b] \in [Guilds -> [count : Nat, resetAt : Nat]]
        BY <2>3 DEF ProcessOK
      <3>4. passed' \in [Guilds -> [0 .. MaxClock -> Nat]]
        <4>1. /\ passed \in [Guilds -> [0 .. MaxClock -> Nat]]
              /\ [passed EXCEPT ![g][clock] = @ + 1] \in [Guilds -> [0 .. MaxClock -> Nat]]
          BY <2>3, PassedOneMore, Zenon DEF ProcessOK
        <4> QED
          BY <2>1, <4>1, Zenon
      <3> QED
        BY <2>1, <3>1, <3>2, <3>3, <3>4
    <2> QED
      BY <2>2, <2>3
  <1> QED
    BY <1>1, <1>2

LEMMA NextTypeOK == TypeOK /\ [Next]_vars => TypeOK'
  <1> SUFFICES ASSUME TypeOK, [Next]_vars PROVE TypeOK'
    OBVIOUS
  <1>0. ProcessOK /\ AskedOK /\ SeenOK /\ ApiOK
    BY TypeParts
  <1> USE DEF process, asked, seen, api
  <1>1. ASSUME NEW i \in Interactions, OwnStep(i) PROVE TypeOK'
    <2>1. ProcessOK'
      <3>1. CASE BeginLimited(i)
        <4>1. bucket' \in [Guilds -> [count : Nat, resetAt : Nat]]
              /\ passed' \in [Guilds -> [0 .. MaxClock -> Nat]]
          BY <1>0, <3>1, ConsumeOK DEF BeginLimited
        <4> QED
          BY <1>0, <3>1, <4>1 DEF BeginLimited, ProcessOK
      <3>2. CASE ~BeginLimited(i)
        <4>1. /\ UNCHANGED <<clock, boot, bootTry, bucket, passed>>
              /\ faults' = faults \/ Fault
              /\ RecordFailure \/ RecordSuccess \/ circuit' = circuit
          BY <1>1, <3>2, OwnStepCases
             DEF Arrive, Reply, Defer, FirstAnswerFails, Sorry, BeginPlatform, BeginMine,
                 BeginStaff, CircuitOpen, Capabilities, CapabilitiesFail, Send, Succeed,
                 Reject, Break, Busy, LoseAnswer, Repeat, ShowCopy, DirectMessage, Edit,
                 EditFails, PlainEditFails, AfterCheck, ArriveLate
        <4>2. circuit' \in [failures : 0 .. Threshold - 1, until : Nat]
          BY <1>0, <4>1, RecordsOK
        <4> QED
          BY <1>0, <4>1, <4>2 DEF ProcessOK, Fault
      <3> QED
        BY <3>1, <3>2
    <2>2. AskedOK'
      <3> USE DEF AskedOK, Steps, Answers, Goto
      <3>1. CASE \E r \in Offers[i] : Arrive(i, r)
        BY <1>0, <3>1 DEF Arrive, AllRequests
      <3>2. CASE \/ Reply(i) \/ Defer(i) \/ FirstAnswerFails(i) \/ Sorry(i)
                 \/ DirectMessage(i) \/ AfterCheck(i) \/ ArriveLate(i)
        BY <1>0, <3>2
           DEF Reply, Defer, FirstAnswerFails, Sorry, DirectMessage, AfterCheck, ArriveLate
      <3>3. CASE Begin(i)
        BY <1>0, <3>3 DEF Begin, BeginLimited, BeginPlatform, BeginMine, BeginStaff, Consume
      <3>4. CASE CircuitOpen(i) \/ Capabilities(i) \/ CapabilitiesFail(i) \/ Send(i)
        BY <1>0, <3>4, BotCommandsAssumption
           DEF CircuitOpen, Capabilities, CapabilitiesFail, Send, Fails
      <3>5. CASE Succeed(i) \/ Reject(i) \/ Break(i) \/ ShowCopy(i)
        BY <1>0, <3>5, BotCommandsAssumption
           DEF Succeed, Reject, NotOk, Break, ShowCopy, Answered
      <3>6. CASE Busy(i) \/ LoseAnswer(i)
        <4>1. Repeat(i) /\ UNCHANGED req
          BY <3>6 DEF Busy, LoseAnswer
        <4> QED
          BY <1>0, <4>1, BotCommandsAssumption DEF Repeat, TriesLeft, Answered
      <3>7. CASE Edit(i) \/ EditFails(i) \/ PlainEditFails(i)
        BY <1>0, <3>7 DEF Edit, EditFails, PlainEditFails
      <3> QED
        BY <1>1, <3>1, <3>2, <3>3, <3>4, <3>5, <3>6, <3>7 DEF OwnStep, Call, Finish
    <2>3. SeenOK'
      <3>1. CASE Reply(i) \/ Defer(i) \/ FirstAnswerFails(i) \/ Sorry(i)
        BY <1>0, <3>1 DEF SeenOK, Answers, Reply, Defer, FirstAnswerFails, Sorry, Says, Refused
      <3>2. CASE Edit(i) \/ EditFails(i) \/ PlainEditFails(i)
        BY <1>0, <3>2 DEF SeenOK, AskedOK, Answers, Edit, EditFails, PlainEditFails, Says, Refused
      <3>3. CASE UNCHANGED seen
        BY <1>0, <3>3 DEF SeenOK
      <3> QED
        BY <1>1, <3>1, <3>2, <3>3, OwnStepCases
           DEF Arrive, BeginLimited, BeginPlatform, BeginMine, BeginStaff,
               CircuitOpen, Capabilities, CapabilitiesFail, Send, Succeed, Reject, Break,
               Busy, LoseAnswer, ShowCopy, DirectMessage, AfterCheck, ArriveLate
    <2>4. ApiOK'
      <3>1. Carried(i) \in [Interactions -> Nat]
        BY <1>0 DEF Carried, ApiOK
      <3>2. CASE Succeed(i) \/ Break(i)
        BY <1>0, <3>1, <3>2 DEF ApiOK, Succeed, Break
      <3>3. CASE LoseAnswer(i) \/ ArriveLate(i)
        BY <1>0, <3>1, <3>3 DEF ApiOK, LoseAnswer, ArriveLate
      <3>4. CASE UNCHANGED api
        BY <1>0, <3>4 DEF ApiOK
      <3> QED
        BY <1>1, <3>2, <3>3, <3>4, OwnStepCases
           DEF Arrive, Reply, Defer, FirstAnswerFails, Sorry, BeginLimited, BeginPlatform,
               BeginMine, BeginStaff, CircuitOpen, Capabilities, CapabilitiesFail, Send,
               Reject, Busy, ShowCopy, DirectMessage, Edit, EditFails, PlainEditFails,
               AfterCheck
    <2> QED
      BY <2>1, <2>2, <2>3, <2>4, TypePartsNext
  <1>2. CASE ApiReady \/ ApiNotReady \/ Register \/ Restart \/ Tick
    <2>1. ProcessOK'
      BY <1>0, <1>2, BotCommandsAssumption
         DEF ProcessOK, ApiReady, ApiNotReady, Register, Restart, Tick, Fault
    <2>2. UNCHANGED <<asked, seen, api>>
      BY <1>2 DEF ApiReady, ApiNotReady, Register, Restart, Tick
    <2> QED
      BY <1>0, <2>1, <2>2, TypePartsNext DEF AskedOK, SeenOK, ApiOK
  <1>3. CASE Stop \/ \E i \in Interactions : Uncaught(i)
    BY <1>3, ExitTypeOK DEF Stop, Uncaught
  <1>4. CASE UNCHANGED vars
    BY <1>0, <1>4, TypePartsNext DEF vars, ProcessOK, AskedOK, SeenOK, ApiOK
  <1> QED
    BY <1>1, <1>2, <1>3, <1>4, StepCases

\* The process, every interaction and what the API has done keep their types.
THEOREM BotCommandsTypeOK == Spec => []TypeOK
  BY InitTypeOK, NextTypeOK, PTL DEF Spec

-----------------------------------------------------------------------------
(* What becomes of an interaction.                                         *)

\* Before a call was sent the API has done nothing for it.
Early == {"new", "first", "sorry", "dm", "deferred", "capabilities", "call"}

Untold == Steps \ {"dm", "after", "end", "dropped"}

NothingDone(i) == applied[i] = 0 /\ late[i] = 0

\* An attempt the bot waits for, or one that nobody waits for, is one that was
\* paid for: with a try, and all but one with an outcome that was lost.
AttemptsCounted(i) ==
    /\ pc[i] \in Early => NothingDone(i) /\ lost[i] = 0
    /\ late[i] > 0 => lost[i] > 0
    /\ IF pc[i] = "sent"
       THEN /\ applied[i] + late[i] + 1 <= lost[i] + 1
            /\ applied[i] + late[i] + 1 <= tries[i]
       ELSE /\ applied[i] + late[i] <= lost[i] + 1
            /\ applied[i] + late[i] <= RetryMax + 1
    /\ Cmd(i) \in Once => applied[i] <= 1

\* What a message says is true while it is sent and afterwards.
TrueOf(i, what) ==
    /\ what = "done" => applied[i] > 0
    /\ what \in {"refused", "limited"} => NothingDone(i)
    /\ what = "failed" /\ applied[i] > 0 => lost[i] > 0 \/ snag[i]

TruthKept(i) ==
    /\ pc[i] \in {"edit", "plain"} => TrueOf(i, answer[i])
    /\ pc[i] \in Untold => told[i] = "none"
    /\ TrueOf(i, told[i])

Shown(i) == pc[i] \in {"dm", "after", "end"} => shown[i] = "answer" \/ snag[i]

Followed(i) == AttemptsCounted(i) /\ TruthKept(i) /\ Shown(i)

FollowedInv == \A i \in Interactions : Followed(i)

\* Nothing happens to an interaction.
Same(i) ==
    /\ pc'[i] = pc[i] /\ req'[i] = req[i] /\ tries'[i] = tries[i] /\ answer'[i] = answer[i]
    /\ shown'[i] = shown[i] /\ told'[i] = told[i] /\ snag'[i] = snag[i]
    /\ late'[i] = late[i] /\ applied'[i] = applied[i] /\ lost'[i] = lost[i]

LEMMA SameFollowed ==
    ASSUME NEW i \in Interactions, Followed(i), Same(i)
    PROVE  Followed(i)'
  BY DEF Followed, Same, AttemptsCounted, TruthKept, TrueOf, Shown, NothingDone, Cmd

\* A step of one interaction leaves the others alone.
LEMMA OthersSame ==
    ASSUME TypeOK, NEW i \in Interactions, OwnStep(i), NEW j \in Interactions, j # i
    PROVE  Same(j)
  <1>0. AskedOK /\ SeenOK /\ ApiOK
    BY TypeParts
  <1> USE DEF asked, seen, api, process, Goto
  <1>1. /\ pc'[j] = pc[j] /\ req'[j] = req[j] /\ tries'[j] = tries[j]
        /\ answer'[j] = answer[j]
    BY <1>0, OwnStepCases
       DEF AskedOK, Arrive, Reply, Defer, FirstAnswerFails, Sorry, BeginLimited, Consume,
           BeginPlatform, BeginMine, BeginStaff, CircuitOpen, Capabilities, CapabilitiesFail,
           Send, Succeed, Reject, NotOk, Break, Busy, LoseAnswer, Repeat, ShowCopy, Fails,
           Answered, DirectMessage, Edit, EditFails, PlainEditFails, AfterCheck, ArriveLate
  <1>2. shown'[j] = shown[j] /\ told'[j] = told[j] /\ snag'[j] = snag[j]
    BY <1>0, OwnStepCases
       DEF SeenOK, Arrive, Reply, Defer, FirstAnswerFails, Sorry, BeginLimited,
           BeginPlatform, BeginMine, BeginStaff, CircuitOpen, Capabilities, CapabilitiesFail,
           Send, Succeed, Reject, Break, Busy, LoseAnswer, ShowCopy, Says, Refused,
           DirectMessage, Edit, EditFails, PlainEditFails, AfterCheck, ArriveLate
  <1>3. late'[j] = late[j] /\ applied'[j] = applied[j] /\ lost'[j] = lost[j]
    BY <1>0, OwnStepCases
       DEF ApiOK, Arrive, Reply, Defer, FirstAnswerFails, Sorry, BeginLimited,
           BeginPlatform, BeginMine, BeginStaff, CircuitOpen, Capabilities, CapabilitiesFail,
           Send, Succeed, Reject, Break, Busy, LoseAnswer, ShowCopy, Carried,
           DirectMessage, Edit, EditFails, PlainEditFails, AfterCheck, ArriveLate
  <1> QED
    BY <1>1, <1>2, <1>3 DEF Same

LEMMA InitFollowed == Init => FollowedInv
  BY BotCommandsAssumption
     DEF Init, FollowedInv, Followed, AttemptsCounted, TruthKept, TrueOf, Shown, NothingDone,
         Early, Untold, Steps, Once, Cmd

\* The types of one interaction.
LEMMA TypesOf ==
    ASSUME TypeOK, NEW i \in Interactions
    PROVE  /\ pc[i] \in Steps /\ tries[i] \in 0 .. RetryMax + 1 /\ answer[i] \in Answers
           /\ shown[i] \in {"nothing", "thinking", "answer"} /\ told[i] \in Answers
           /\ snag[i] \in BOOLEAN
           /\ late[i] \in Nat /\ applied[i] \in Nat /\ lost[i] \in Nat
  BY TypeParts DEF AskedOK, SeenOK, ApiOK

\* The process ends: an attempt under way is one nobody waits for any more.
LEMMA ExitFollowed ==
    ASSUME TypeOK, FollowedInv, Exit, UNCHANGED <<clock, req, seen, applied>>,
           NEW i \in Interactions
    PROVE  Followed(i)'
  <1>0. Followed(i)
    BY DEF FollowedInv
  <1>1. /\ pc'[i] = IF pc[i] \in {"new", "end", "dropped"} THEN pc[i] ELSE "dropped"
        /\ req'[i] = req[i] /\ told'[i] = told[i] /\ snag'[i] = snag[i]
        /\ shown'[i] = shown[i] /\ applied'[i] = applied[i]
        /\ late'[i] = IF pc[i] = "sent" THEN late[i] + 1 ELSE late[i]
        /\ lost'[i] = IF pc[i] = "sent" THEN lost[i] + 1 ELSE lost[i]
    BY DEF Exit, UnderWay, seen
  <1>2. AttemptsCounted(i)'
    BY <1>0, <1>1, TypesOf, BotCommandsAssumption
       DEF Followed, AttemptsCounted, NothingDone, Early, Cmd
  <1>3. TruthKept(i)'
    BY <1>0, <1>1, TypesOf
       DEF Followed, AttemptsCounted, TruthKept, TrueOf, NothingDone, Early, Untold, Steps,
           Answers
  <1>4. Shown(i)'
    BY <1>0, <1>1 DEF Followed, Shown
  <1> QED
    BY <1>2, <1>3, <1>4 DEF Followed

LEMMA OwnFollowed ==
    ASSUME TypeOK, NEW i \in Interactions, Followed(i), OwnStep(i)
    PROVE  Followed(i)'
  <1>0. /\ AskedOK /\ SeenOK /\ ApiOK
        /\ pc[i] \in Steps /\ tries[i] \in 0 .. RetryMax + 1 /\ answer[i] \in Answers
        /\ snag[i] \in BOOLEAN /\ told[i] \in Answers /\ RetryMax \in Nat
        /\ late[i] \in Nat /\ applied[i] \in Nat /\ lost[i] \in Nat
    BY TypeParts, TypesOf, BotCommandsAssumption
  <1> USE DEF asked, seen, api, process, Goto, AskedOK, SeenOK, ApiOK, Answers
  <1>1. CASE \E r \in Offers[i] : Arrive(i, r)
    BY <1>0, <1>1
       DEF Arrive, Followed, AttemptsCounted, TruthKept, TrueOf, Shown, NothingDone, Early,
           Untold, Steps, Cmd
  <1>2. CASE \/ Reply(i) \/ Defer(i) \/ FirstAnswerFails(i) \/ Sorry(i) \/ DirectMessage(i)
             \/ AfterCheck(i)
    <2>1. /\ UNCHANGED api /\ UNCHANGED <<req, tries, answer>>
          /\ pc[i] \in {"first", "sorry", "dm", "after"}
          /\ pc'[i] \in {"dm", "end", "deferred", "sorry"}
          /\ pc[i] \in {"dm", "after"} => pc'[i] = "end" /\ UNCHANGED seen
      BY <1>0, <1>2
         DEF Reply, Defer, FirstAnswerFails, Sorry, DirectMessage, AfterCheck
    <2>2. AttemptsCounted(i)'
      BY <1>0, <2>1 DEF Followed, AttemptsCounted, NothingDone, Early, Cmd
    <2>3. CASE pc[i] \in {"dm", "after"}
      BY <1>0, <2>1, <2>2, <2>3 DEF Followed, TruthKept, TrueOf, Shown, NothingDone, Untold, Steps
    <2>4. CASE pc[i] \in {"first", "sorry"}
      <3>1. NothingDone(i) /\ NothingDone(i)'
        BY <1>0, <2>1, <2>4 DEF Followed, AttemptsCounted, NothingDone, Early
      <3>2. told'[i] \in {"none", "shown", "refused", "failed"}
            /\ (pc'[i] \in Untold => told'[i] = "none")
            /\ (pc'[i] \in {"dm", "after", "end"} => shown'[i] = "answer" \/ snag'[i])
        BY <1>0, <1>2, <2>4
           DEF Reply, Defer, FirstAnswerFails, Sorry, DirectMessage, AfterCheck, Says, Refused,
               Followed, TruthKept, Untold, Steps
      <3> QED
        BY <1>0, <2>1, <2>2, <3>1, <3>2 DEF Followed, TruthKept, TrueOf, Shown, NothingDone
    <2> QED
      BY <2>1, <2>3, <2>4
  <1>3. CASE \/ Begin(i) \/ CircuitOpen(i) \/ Capabilities(i) \/ CapabilitiesFail(i) \/ Send(i)
    <2>1. /\ UNCHANGED api /\ UNCHANGED seen /\ UNCHANGED req
          /\ pc[i] \in {"deferred", "capabilities", "call"}
          /\ pc'[i] \in {"capabilities", "call", "edit", "plain", "sent"}
          /\ pc'[i] \in {"edit", "plain"} => answer'[i] \in {"limited", "refused", "failed"}
          /\ pc'[i] = "sent" => tries'[i] = 1
      BY <1>0, <1>3
         DEF Begin, BeginLimited, Consume, BeginPlatform, BeginMine, BeginStaff, CircuitOpen,
             Capabilities, CapabilitiesFail, Send, Fails
    <2>2. NothingDone(i) /\ NothingDone(i)' /\ lost'[i] = 0 /\ told'[i] = "none"
          /\ (Cmd(i) \in Once)' = (Cmd(i) \in Once)
      BY <1>0, <2>1 DEF Followed, AttemptsCounted, TruthKept, NothingDone, Early, Untold, Steps, Cmd
    <2>3. AttemptsCounted(i)'
      BY <1>0, <2>1, <2>2 DEF Followed, AttemptsCounted, NothingDone, Early
    <2> QED
      BY <1>0, <2>1, <2>2, <2>3 DEF Followed, TruthKept, TrueOf, Shown, NothingDone, Untold, Steps
  <1>4. CASE Edit(i) \/ EditFails(i) \/ PlainEditFails(i)
    <2>1. /\ UNCHANGED api /\ UNCHANGED <<req, tries>>
          /\ pc[i] \in {"edit", "plain"} /\ pc'[i] \in {"plain", "after", "end"}
          /\ pc'[i] = "plain" => answer'[i] = "failed" /\ snag'[i] /\ told'[i] = told[i]
          /\ pc'[i] # "plain" => \/ shown'[i] = "answer" /\ told'[i] = answer[i] /\ snag'[i] = snag[i]
                                 \/ snag'[i] /\ told'[i] = told[i]
      <3>1. CASE Edit(i)
        <4>1. pc'[i] \in {"after", "end"}
          BY <1>0, <3>1 DEF Edit
        <4>2. /\ UNCHANGED api /\ UNCHANGED <<req, tries>> /\ pc[i] \in {"edit", "plain"}
              /\ shown'[i] = "answer" /\ told'[i] = answer[i] /\ snag' = snag
          BY <1>0, <3>1 DEF Edit, Says
        <4> QED
          BY <4>1, <4>2
      <3>2. CASE EditFails(i)
        BY <1>0, <3>2 DEF EditFails, Refused
      <3>3. CASE PlainEditFails(i)
        BY <1>0, <3>3 DEF PlainEditFails, Refused
      <3> QED
        BY <1>4, <3>1, <3>2, <3>3
    <2>2. AttemptsCounted(i)'
      BY <1>0, <2>1 DEF Followed, AttemptsCounted, NothingDone, Early, Cmd
    <2> QED
      BY <1>0, <2>1, <2>2 DEF Followed, TruthKept, TrueOf, Shown, NothingDone, Untold, Steps
  <1>5. CASE Succeed(i) \/ Reject(i) \/ Break(i) \/ Busy(i) \/ LoseAnswer(i)
    <2>1. /\ UNCHANGED seen /\ UNCHANGED req /\ pc[i] = "sent"
          /\ pc'[i] \in {"sent", "edit", "plain"}
          /\ pc'[i] = "sent" => tries'[i] = tries[i] + 1
      BY <1>0, <1>5
         DEF Succeed, Reject, NotOk, Break, Busy, LoseAnswer, Repeat, Answered
    <2>2. /\ pc'[i] = "sent" =>
               /\ applied'[i] + late'[i] <= applied[i] + late[i] + (lost'[i] - lost[i])
               /\ applied'[i] + late'[i] <= applied[i] + late[i] + 1
          /\ applied'[i] + late'[i] <= applied[i] + late[i] + 1
          /\ lost'[i] \in {lost[i], lost[i] + 1}
          /\ late'[i] > late[i] => lost'[i] > 0
          /\ pc'[i] = "plain" => answer'[i] = "failed"
          /\ applied'[i] = applied[i] \/ (applied'[i] = applied[i] + 1 /\ Accepts(i))
      BY <1>0, <1>5
         DEF Succeed, Reject, NotOk, Break, Busy, LoseAnswer, Repeat, Answered, Carried
    <2>3. /\ pc'[i] = "edit" => answer'[i] = "shown" \/ (answer'[i] = "done" /\ applied'[i] > 0)
          /\ pc'[i] # "edit" /\ applied'[i] > applied[i] => lost'[i] > 0
          /\ applied'[i] >= applied[i] /\ late'[i] >= late[i]
          /\ late'[i] \in Nat /\ applied'[i] \in Nat
      BY <1>0, <1>5
         DEF Succeed, Reject, NotOk, Break, Busy, LoseAnswer, Repeat, Answered, Carried
    <2>4. AttemptsCounted(i)'
      BY <1>0, <2>1, <2>2, <2>3
         DEF Followed, AttemptsCounted, NothingDone, Early, Cmd, Accepts
    <2> QED
      BY <1>0, <2>1, <2>2, <2>3, <2>4
         DEF Followed, AttemptsCounted, TruthKept, TrueOf, Shown, NothingDone, Untold, Steps
  <1>6. CASE ShowCopy(i)
    <2>1. /\ UNCHANGED seen /\ UNCHANGED req /\ UNCHANGED api
          /\ pc[i] \in {"call", "sent"} /\ pc'[i] = "edit" /\ answer'[i] = "shown"
      BY <1>0, <1>6 DEF ShowCopy, Answered
    <2> QED
      BY <1>0, <2>1
         DEF Followed, AttemptsCounted, TruthKept, TrueOf, Shown, NothingDone, Early, Untold,
             Steps, Cmd
  <1>7. CASE ArriveLate(i)
    <2>1. /\ UNCHANGED seen /\ UNCHANGED asked /\ lost' = lost
          /\ late[i] > 0 /\ late'[i] = late[i] - 1
          /\ applied'[i] = applied[i] \/ (applied'[i] = applied[i] + 1 /\ Accepts(i))
      BY <1>0, <1>7 DEF ArriveLate, Carried
    <2>2. AttemptsCounted(i)'
      BY <1>0, <2>1 DEF Followed, AttemptsCounted, NothingDone, Early, Cmd, Accepts
    <2> QED
      BY <1>0, <2>1, <2>2
         DEF Followed, AttemptsCounted, TruthKept, TrueOf, Shown, NothingDone, Early, Untold,
             Steps
  <1> QED
    BY <1>1, <1>2, <1>3, <1>4, <1>5, <1>6, <1>7 DEF OwnStep, Begin, Call, Finish

LEMMA NextFollowed ==
    TypeOK /\ FollowedInv /\ [Next]_vars => FollowedInv'
  <1> SUFFICES ASSUME TypeOK, FollowedInv, [Next]_vars, NEW j \in Interactions
               PROVE  Followed(j)'
    BY DEF FollowedInv
  <1>0. Followed(j)
    BY DEF FollowedInv
  <1>1. ASSUME NEW i \in Interactions, OwnStep(i) PROVE Followed(j)'
    <2>1. CASE i = j
      BY <1>0, <1>1, <2>1, OwnFollowed
    <2>2. CASE i # j
      BY <1>0, <1>1, <2>2, OthersSame, SameFollowed
    <2> QED
      BY <2>1, <2>2
  <1>2. CASE ApiReady \/ ApiNotReady \/ Register \/ Restart \/ Tick
    <2>1. UNCHANGED <<asked, seen, api>>
      BY <1>2 DEF ApiReady, ApiNotReady, Register, Restart, Tick
    <2> QED
      BY <1>0, <2>1, SameFollowed DEF asked, seen, api, Same
  <1>3. CASE Stop \/ \E i \in Interactions : Uncaught(i)
    BY <1>3, ExitFollowed DEF Stop, Uncaught
  <1>4. CASE UNCHANGED vars
    BY <1>0, <1>4, SameFollowed DEF vars, asked, seen, api, Same
  <1> QED
    BY <1>1, <1>2, <1>3, <1>4, StepCases

LEMMA FollowedHolds == Spec => []FollowedInv
  BY InitTypeOK, NextTypeOK, InitFollowed, NextFollowed, PTL DEF Spec

\* Whatever fails, and in whatever order late calls arrive: no message of the
\* bot claims what did not happen or denies what did, for any offers and any
\* number of interactions at once.
THEOREM AnswersSafe == Spec => []AnswersAreTrue
  <1>1. FollowedInv => AnswersAreTrue
    BY DEF FollowedInv, Followed, TruthKept, TrueOf, NothingDone, AnswersAreTrue
  <1> QED
    BY <1>1, FollowedHolds, PTL

\* Retries of withApiRetry and calls that arrive after the bot gave up repeat a
\* command at most once for each lost outcome; those of Once are not repeated.
THEOREM RepeatsSafe == Spec => []RepeatsAreBounded
  <1>1. TypeOK /\ FollowedInv => RepeatsAreBounded
    <2> SUFFICES ASSUME TypeOK, FollowedInv, NEW i \in Interactions
                 PROVE  /\ applied[i] <= lost[i] + 1
                        /\ applied[i] <= RetryMax + 1
                        /\ Cmd(i) \in Once => applied[i] <= 1
      BY DEF RepeatsAreBounded
    <2> QED
      BY TypesOf, BotCommandsAssumption DEF FollowedInv, Followed, AttemptsCounted
  <1> QED
    BY <1>1, FollowedHolds, BotCommandsTypeOK, PTL

\* Every path through a command's handler ends with an answer, unless Discord
\* refused a message of it.
THEOREM ThinkingSafe == Spec => []NobodyLeftThinking
  <1>1. FollowedInv => NobodyLeftThinking
    BY DEF FollowedInv, Followed, Shown, NobodyLeftThinking
  <1> QED
    BY <1>1, FollowedHolds, PTL

-----------------------------------------------------------------------------
(* The rate.                                                               *)

\* What a guild had let through in a tick, none in one beyond the bound.
Let(g, t) == IF t \in 0 .. MaxClock THEN passed[g][t] ELSE 0

\* A window is open since s; before it opened less than a window's commands went
\* through in the tick next to it, for another window began then or earlier.
Fresh(g) == bucket[g] = [count |-> 0, resetAt |-> 0] /\ \A t \in Int : Let(g, t) = 0

WindowOpen(g) ==
    LET s == bucket[g].resetAt - Window IN
    /\ s \in 0 .. clock
    /\ Let(g, s) + Let(g, s + 1) = bucket[g].count /\ bucket[g].count <= PerMinute
    /\ Let(g, s) > 0 \/ PerMinute = 0
    /\ \A t \in Int : t > clock \/ t > s + 1 => Let(g, t) = 0
    /\ Let(g, s - 1) = 0 \/ Let(g, s - 1) < PerMinute

RateKept(g) ==
    /\ Fresh(g) \/ WindowOpen(g)
    /\ \A t \in Int : Let(g, t) + Let(g, t + 1) = 0 \/ Let(g, t) + Let(g, t + 1) < 2 * PerMinute

RateInv == \A g \in Guilds : RateKept(g)

LEMMA LetIsNat ==
    ASSUME TypeOK, NEW g \in Guilds
    PROVE  \A t \in Int : Let(g, t) \in Nat
  BY TypeParts DEF ProcessOK, Let

LEMMA LetSame ==
    ASSUME NEW g \in Guilds, passed'[g] = passed[g]
    PROVE  \A t \in Int : Let(g, t)' = Let(g, t)
  BY DEF Let

LEMMA LetOneMore ==
    ASSUME TypeOK, NEW g \in Guilds, passed' = [passed EXCEPT ![g][clock] = @ + 1]
    PROVE  \A t \in Int : Let(g, t)' = IF t = clock THEN Let(g, t) + 1 ELSE Let(g, t)
  <1>1. passed \in [Guilds -> [0 .. MaxClock -> Nat]] /\ clock \in 0 .. MaxClock
    BY TypeParts DEF ProcessOK
  <1>2. passed'[g] = [passed[g] EXCEPT ![clock] = @ + 1]
    BY <1>1
  <1>3. \A t \in 0 .. MaxClock : passed'[g][t] = IF t = clock THEN passed[g][t] + 1 ELSE passed[g][t]
    BY <1>1, <1>2
  <1> QED
    BY <1>1, <1>3 DEF Let

LEMMA InitRate == Init => RateInv
  <1> SUFFICES ASSUME Init, NEW g \in Guilds PROVE RateKept(g)
    BY DEF RateInv
  <1>1. bucket[g] = [count |-> 0, resetAt |-> 0] /\ \A t \in Int : Let(g, t) = 0
    BY DEF Init, FreshBuckets, NonePassed, Let
  <1> QED
    BY <1>1 DEF RateKept, Fresh

LEMMA ExitRate ==
    ASSUME Exit, NEW g \in Guilds
    PROVE  RateKept(g)'
  <1>1. bucket'[g] = [count |-> 0, resetAt |-> 0] /\ \A t \in Int : Let(g, t)' = 0
    BY DEF Exit, FreshBuckets, NonePassed, Let
  <1> QED
    BY <1>1 DEF RateKept, Fresh

\* Time passes, or other guilds' commands do.
LEMMA IdleRate ==
    ASSUME TypeOK, TypeOK', NEW g \in Guilds, RateKept(g), bucket'[g] = bucket[g],
           passed'[g] = passed[g], clock' \in {clock, clock + 1}
    PROVE  RateKept(g)'
  <1>1. \A t \in Int : Let(g, t)' = Let(g, t)
    BY LetSame
  <1>2. /\ clock \in Int /\ bucket[g].resetAt \in Int
    BY TypeParts, BotCommandsAssumption DEF ProcessOK
  <1>3. CASE Fresh(g)
    BY <1>1, <1>3 DEF RateKept, Fresh
  <1>4. CASE WindowOpen(g)
    <2>1. WindowOpen(g)'
      BY <1>1, <1>2, <1>4 DEF WindowOpen, Window
    <2> QED
      BY <1>1, <2>1 DEF RateKept
  <1> QED
    BY <1>3, <1>4 DEF RateKept

\* A new window: what is left of the one before it lies in the tick just past.
LEMMA NewWindowRate ==
    ASSUME TypeOK, TypeOK', NEW g \in Guilds, RateKept(g), clock' = clock,
           clock >= bucket[g].resetAt, bucket'[g].resetAt = clock + Window,
           \/ /\ PerMinute > 0 /\ bucket'[g].count = 1
              /\ passed' = [passed EXCEPT ![g][clock] = @ + 1]
           \/ PerMinute = 0 /\ bucket'[g].count = 0 /\ passed' = passed
    PROVE  RateKept(g)'
  <1>1. /\ clock \in Nat /\ bucket[g].resetAt \in Nat /\ PerMinute \in Nat
        /\ bucket[g].count \in Nat
    BY TypeParts, BotCommandsAssumption DEF ProcessOK
  <1>2. \A t \in Int : Let(g, t) \in Nat
    BY LetIsNat
  <1>3. /\ \A t \in Int : t > clock - 1 => Let(g, t) = 0
        /\ Let(g, clock - 1) = 0 \/ Let(g, clock - 1) < PerMinute
    <2>1. CASE Fresh(g)
      BY <1>1, <2>1 DEF Fresh
    <2>2. CASE WindowOpen(g)
      <3> DEFINE s == bucket[g].resetAt - Window
      <3>1. /\ s \in Int /\ s + 1 <= clock - 1
            /\ Let(g, s) \in Nat /\ Let(g, s + 1) \in Nat
        BY <1>1, <1>2 DEF Window
      <3>2. \A t \in Int : t > s + 1 => Let(g, t) = 0
        BY <2>2 DEF WindowOpen
      <3>3. Let(g, s + 1) = 0 \/ Let(g, s + 1) < PerMinute
        BY <1>1, <2>2, <3>1 DEF WindowOpen
      <3> HIDE DEF s
      <3>4. \A t \in Int : t > clock - 1 => Let(g, t) = 0
        BY <1>1, <3>1, <3>2
      <3>5. CASE s + 1 = clock - 1
        BY <3>3, <3>4, <3>5
      <3>6. CASE s + 1 < clock - 1
        BY <1>1, <3>1, <3>2, <3>4, <3>6
      <3> QED
        BY <1>1, <3>1, <3>5, <3>6
    <2> QED
      BY <2>1, <2>2 DEF RateKept
  <1>4. \/ PerMinute > 0 /\ bucket'[g].count = 1
           /\ \A t \in Int : Let(g, t)' = IF t = clock THEN Let(g, t) + 1 ELSE Let(g, t)
        \/ PerMinute = 0 /\ bucket'[g].count = 0 /\ \A t \in Int : Let(g, t)' = Let(g, t)
    BY LetOneMore, LetSame
  <1>5. WindowOpen(g)'
    BY <1>1, <1>2, <1>3, <1>4 DEF WindowOpen, Window
  <1>6. ASSUME NEW t \in Int
        PROVE  Let(g, t)' + Let(g, t + 1)' = 0 \/ Let(g, t)' + Let(g, t + 1)' < 2 * PerMinute
    <2>1. /\ Let(g, t) + Let(g, t + 1) = 0 \/ Let(g, t) + Let(g, t + 1) < 2 * PerMinute
          /\ Let(g, t) \in Nat /\ Let(g, t + 1) \in Nat
      BY <1>2 DEF RateKept
    <2>2. CASE t = clock
      BY <1>1, <1>3, <1>4, <2>2
    <2>3. CASE t + 1 = clock
      BY <1>1, <1>3, <1>4, <2>1, <2>3
    <2>4. CASE t # clock /\ t + 1 # clock
      BY <1>1, <1>4, <2>1, <2>4
    <2> QED
      BY <2>2, <2>3, <2>4
  <1> QED
    BY <1>5, <1>6 DEF RateKept

\* One more in the window.
LEMMA InWindowRate ==
    ASSUME TypeOK, TypeOK', NEW g \in Guilds, RateKept(g), clock' = clock,
           clock < bucket[g].resetAt, bucket[g].count < PerMinute,
           bucket'[g] = [bucket[g] EXCEPT !.count = @ + 1],
           passed' = [passed EXCEPT ![g][clock] = @ + 1]
    PROVE  RateKept(g)'
  <1> DEFINE s == bucket[g].resetAt - Window
  <1>0. /\ clock \in Nat /\ PerMinute \in Nat
        /\ bucket[g] \in [count : Nat, resetAt : Nat]
    BY TypeParts, BotCommandsAssumption DEF ProcessOK
  <1>1. /\ clock \in Nat /\ bucket[g].resetAt \in Nat /\ PerMinute \in Nat /\ PerMinute > 0
        /\ bucket[g].count \in Nat /\ bucket[g] \in [count : Nat, resetAt : Nat]
    BY <1>0
  <1>2. \A t \in Int : Let(g, t) \in Nat
    BY LetIsNat
  <1>3. WindowOpen(g)
    BY <1>1 DEF RateKept, Fresh
  <1>4. s \in Int /\ s \in 0 .. clock /\ clock \in {s, s + 1}
    BY <1>1, <1>3 DEF WindowOpen, Window
  <1>5. bucket'[g].count = bucket[g].count + 1 /\ bucket'[g].resetAt = bucket[g].resetAt
    BY <1>1
  <1>6. \A t \in Int : Let(g, t)' = IF t = clock THEN Let(g, t) + 1 ELSE Let(g, t)
    BY LetOneMore
  <1>8. /\ Let(g, s) + Let(g, s + 1) = bucket[g].count
        /\ \A t \in Int : t > clock \/ t > s + 1 => Let(g, t) = 0
        /\ Let(g, s - 1) = 0 \/ Let(g, s - 1) < PerMinute
        /\ Let(g, s) > 0
    BY <1>1, <1>3 DEF WindowOpen
  <1>t. s' = s
    BY <1>5
  <1> HIDE DEF s
  <1>a. /\ Let(g, s)' + Let(g, s + 1)' = bucket[g].count + 1
        /\ Let(g, s)' > 0 /\ Let(g, s - 1)' = Let(g, s - 1)
    <2>1. Let(g, s) \in Nat /\ Let(g, s + 1) \in Nat
      BY <1>2, <1>4
    <2>2. CASE clock = s
      BY <1>4, <1>6, <1>8, <1>t, <2>1, <2>2 DEF Let
    <2>3. CASE clock = s + 1
      BY <1>4, <1>6, <1>8, <1>t, <2>1, <2>3 DEF Let
    <2> QED
      BY <1>4, <2>2, <2>3
  <1>b. \A t \in Int : t > clock \/ t > s + 1 => Let(g, t)' = 0
    BY <1>4, <1>6, <1>8
  <1>7. WindowOpen(g)'
    BY <1>1, <1>4, <1>5, <1>8, <1>a, <1>b, <1>t DEF WindowOpen, s
  <1>9. ASSUME NEW t \in Int
        PROVE  Let(g, t)' + Let(g, t + 1)' = 0 \/ Let(g, t)' + Let(g, t + 1)' < 2 * PerMinute
    <2>1. /\ Let(g, t) + Let(g, t + 1) = 0 \/ Let(g, t) + Let(g, t + 1) < 2 * PerMinute
          /\ Let(g, t) \in Nat /\ Let(g, t + 1) \in Nat
      BY <1>2 DEF RateKept
    <2>2. CASE t = s
      BY <1>1, <1>4, <1>6, <1>8, <2>1, <2>2
    <2>3. CASE t + 1 = s
      BY <1>1, <1>2, <1>4, <1>6, <1>8, <2>1, <2>3
    <2>4. CASE t = s + 1
      <3>1. Let(g, t + 1) = 0 /\ Let(g, t + 1)' = 0 /\ Let(g, t)' <= Let(g, t) + 1
        BY <1>1, <1>4, <1>6, <1>8, <2>1, <2>4
      <3> QED
        BY <1>1, <1>2, <1>4, <1>6, <1>8, <2>1, <2>4, <3>1
    <2>5. CASE t \notin {s - 1, s, s + 1}
      BY <1>1, <1>4, <1>6, <2>1, <2>5
    <2> QED
      BY <1>4, <2>2, <2>3, <2>4, <2>5
  <1> QED
    BY <1>7, <1>9 DEF RateKept

\* tryConsume: it opens a window, counts one more, or lets nothing through.
LEMMA ConsumeRate ==
    ASSUME TypeOK, TypeOK', NEW i \in Interactions, NEW step, Consume(i, step), clock' = clock,
           NEW g \in Guilds, RateKept(g)
    PROVE  RateKept(g)'
  <1>0. /\ bucket \in [Guilds -> [count : Nat, resetAt : Nat]] /\ clock \in Nat
        /\ passed \in [Guilds -> [0 .. MaxClock -> Nat]] /\ PerMinute \in Nat
    BY TypeParts, BotCommandsAssumption DEF ProcessOK
  <1>1. CASE bucket'[g] = bucket[g] /\ passed'[g] = passed[g]
    BY <1>1, IdleRate
  <1>2. CASE req[i].guild # g
    <2>1. bucket'[g] = bucket[g] /\ passed'[g] = passed[g]
      BY <1>0, <1>2 DEF Consume
    <2> QED
      BY <1>1, <2>1
  <1>3. CASE req[i].guild = g /\ g # None
    <2>1. CASE Room(Bucket(g))
      <3>1. /\ bucket'[g] = [Bucket(g) EXCEPT !.count = @ + 1]
            /\ passed' = [passed EXCEPT ![g][clock] = @ + 1]
        BY <1>0, <1>3, <2>1 DEF Consume
      <3>2. CASE clock >= bucket[g].resetAt
        <4>1. /\ bucket'[g].resetAt = clock + Window /\ bucket'[g].count = 1
              /\ PerMinute > 0
          BY <1>0, <2>1, <3>1, <3>2 DEF Bucket, NewWindow, Room, Window
        <4> QED
          BY <3>1, <3>2, <4>1, NewWindowRate
      <3>3. CASE clock < bucket[g].resetAt
        <4>1. Bucket(g) = bucket[g] /\ bucket[g].count < PerMinute
          BY <1>0, <2>1, <3>3 DEF Bucket, NewWindow, Room
        <4> QED
          BY <3>1, <3>3, <4>1, InWindowRate
      <3> QED
        BY <1>0, <3>2, <3>3
    <2>2. CASE ~Room(Bucket(g))
      <3>1. bucket'[g] = Bucket(g) /\ passed' = passed
        BY <1>0, <1>3, <2>2 DEF Consume
      <3>2. CASE clock >= bucket[g].resetAt
        <4>1. /\ bucket'[g].resetAt = clock + Window /\ bucket'[g].count = 0
              /\ PerMinute = 0
          BY <1>0, <2>2, <3>1, <3>2 DEF Bucket, NewWindow, Room, Window
        <4> QED
          BY <3>1, <3>2, <4>1, NewWindowRate
      <3>3. CASE clock < bucket[g].resetAt
        BY <1>0, <1>1, <3>1, <3>3 DEF Bucket, NewWindow
      <3> QED
        BY <1>0, <3>2, <3>3
    <2> QED
      BY <2>1, <2>2
  <1> QED
    BY <1>2, <1>3, BotCommandsAssumption

LEMMA NextRate ==
    TypeOK /\ TypeOK' /\ RateInv /\ [Next]_vars => RateInv'
  <1> SUFFICES ASSUME TypeOK, TypeOK', RateInv, [Next]_vars, NEW g \in Guilds
               PROVE  RateKept(g)'
    BY DEF RateInv
  <1>0. RateKept(g)
    BY DEF RateInv
  <1>1. ASSUME NEW i \in Interactions, OwnStep(i) PROVE RateKept(g)'
    <2>1. CASE BeginLimited(i)
      <3>1. /\ Consume(i, IF Cmd(i) = "report" THEN "capabilities" ELSE "call")
            /\ clock' = clock
        BY <2>1 DEF BeginLimited
      <3> QED
        BY <1>0, <3>1, ConsumeRate
    <2>2. CASE ~BeginLimited(i)
      <3>1. UNCHANGED <<clock, bucket, passed>>
        BY <1>1, <2>2, OwnStepCases
           DEF process, Arrive, Reply, Defer, FirstAnswerFails, Sorry, BeginPlatform, BeginMine,
               BeginStaff, CircuitOpen, Capabilities, CapabilitiesFail, Send, Succeed,
               Reject, Break, Busy, LoseAnswer, Repeat, ShowCopy, DirectMessage, Edit,
               EditFails, PlainEditFails, AfterCheck, ArriveLate
      <3> QED
        BY <1>0, <3>1, IdleRate
    <2> QED
      BY <2>1, <2>2
  <1>2. CASE ApiReady \/ ApiNotReady \/ Register \/ Restart \/ Tick
    <2>1. UNCHANGED <<bucket, passed>> /\ clock' \in {clock, clock + 1}
      BY <1>2 DEF process, ApiReady, ApiNotReady, Register, Restart, Tick
    <2> QED
      BY <1>0, <2>1, IdleRate
  <1>3. CASE Stop \/ \E i \in Interactions : Uncaught(i)
    BY <1>3, ExitRate DEF Stop, Uncaught
  <1>4. CASE UNCHANGED vars
    <2>1. UNCHANGED <<bucket, passed, clock>>
      BY <1>4 DEF vars, process
    <2> QED
      BY <1>0, <2>1, IdleRate
  <1> QED
    BY <1>1, <1>2, <1>3, <1>4, StepCases

LEMMA RateHolds == Spec => []RateInv
  BY InitRate, NextRate, BotCommandsTypeOK, PTL DEF Spec

\* No minute of any guild sees two windows' commands of the limiter, for every
\* limit and however the commands are spread over the windows.
THEOREM RateSafe == Spec => []RateIsBounded
  <1>1. TypeOK /\ RateInv => RateIsBounded
    <2> SUFFICES ASSUME TypeOK, RateInv, NEW g \in Guilds, NEW t \in 0 .. MaxClock - 1
                 PROVE  LET n == passed[g][t] + passed[g][t + 1] IN n = 0 \/ n < 2 * PerMinute
      BY DEF RateIsBounded
    <2>1. Let(g, t) = passed[g][t] /\ Let(g, t + 1) = passed[g][t + 1]
      BY BotCommandsAssumption DEF Let
    <2> QED
      BY <2>1 DEF RateInv, RateKept
  <1> QED
    BY <1>1, RateHolds, BotCommandsTypeOK, PTL

-----------------------------------------------------------------------------
(***************************************************************************)
(* JoinGate, as GateView names it.                                         *)
(***************************************************************************)

\* A handler has a member from its join on, and a card after its last step.
HandlersHaveMembers ==
    \A h \in Handlers : /\ join[h] # "idle" => member[h] \in Members
                        /\ join[h] # "end" => card[h] = "none"

\* A press is about a card that was sent, and has an outcome for it.
PressesHaveCards ==
    \A p \in Presses : press[p] # "idle" =>
        /\ onCard[p] \in Handlers /\ card[onCard[p]] # "none"
        /\ action[p] \in {"kicked", "banned", "released"}

\* Cards whose press has acted and is about to disable the buttons.
Spent == {onCard[p] : p \in {q \in Presses : press[q] = "update"}}

\* A held member's card is none of those: its buttons will go on working.
HoldsKeepACard ==
    \A m \in held \ unseen :
        \E h \in Handlers \ Spent : member[h] = m /\ (join[h] = "card" \/ card[h] = "open")

GateInv == Gate!TypeOK /\ HandlersHaveMembers /\ PressesHaveCards /\ HoldsKeepACard

LEMMA GateInit ==
    ASSUME Gate!JoinGateConstants, Gate!Init
    PROVE  GateInv
  <1>1. Gate!TypeOK
    <2>1. level \in [Members -> 0 .. MaxLevel]
      BY DEF Gate!Init, Gate!JoinGateConstants
    <2>2. /\ member \in [Handlers -> Members \cup {NoOne}]
          /\ seenLevel \in [Handlers -> (0 .. MaxLevel) \cup {NoOne}]
          /\ seenConfig \in [Handlers -> Configs \cup {NoOne}]
          /\ onCard \in [Presses -> Handlers \cup {NoOne}]
      BY DEF Gate!Init
    <2> QED
      BY <2>1, <2>2 DEF Gate!Init, Gate!TypeOK
  <1>2. HandlersHaveMembers /\ PressesHaveCards /\ HoldsKeepACard
    BY DEF Gate!Init, HandlersHaveMembers, PressesHaveCards, HoldsKeepACard
  <1> QED
    BY <1>1, <1>2 DEF GateInv

\* A handler's step: types.
LEMMA HandlerTypeOK ==
    ASSUME Gate!JoinGateConstants, Gate!TypeOK, HandlersHaveMembers, NEW h \in Handlers, Gate!Handle(h)
    PROVE  Gate!TypeOK'
  <1> USE DEF Gate!TypeOK, Gate!discord, Gate!handlers, Gate!presses
  <1>1. CASE \E m \in Members : Gate!Join(h, m)
    BY <1>1 DEF Gate!Join
  <1>2. CASE Gate!ReadLevel(h)
    <2>1. level[member[h]] \in 0 .. MaxLevel
      BY <1>2 DEF Gate!ReadLevel, HandlersHaveMembers
    <2> QED
      BY <1>2, <2>1 DEF Gate!ReadLevel
  <1>3. CASE Gate!ReadConfig(h)
    BY <1>3 DEF Gate!ReadConfig
  <1>4. CASE Gate!Abandon(h) \/ Gate!FetchChannel(h) \/ Gate!Notify(h)
    BY <1>4 DEF Gate!Abandon, Gate!FetchChannel, Gate!Notify, Gate!HandlerGoes, Gate!Fault
  <1>5. CASE Gate!Decide(h)
    <2>1. Gate!FirstStep(h) \in {"channel", "end", "expel", "notify"}
      BY DEF Gate!FirstStep, Gate!ChannelFirst
    <2> QED
      BY <1>5, <2>1 DEF Gate!Decide, Gate!HandlerGoes
  <1>6. CASE Gate!Timeout(h)
    BY <1>6 DEF Gate!Timeout, Gate!HandlerGoes, Gate!Fault
  <1>7. CASE Gate!SendCard(h)
    BY <1>7 DEF Gate!SendCard, Gate!HandlerGoes, Gate!Fault
  <1>8. CASE Gate!Expel(h)
    BY <1>8 DEF Gate!Expel, Gate!HandlerGoes, Gate!Gone, Gate!HoldEnds, HandlersHaveMembers
  <1> QED
    BY <1>1, <1>2, <1>3, <1>4, <1>5, <1>6, <1>7, <1>8 DEF Gate!Handle

LEMMA PressTypeOK ==
    ASSUME Gate!JoinGateConstants, Gate!TypeOK, HandlersHaveMembers, PressesHaveCards,
           NEW p \in Presses, Gate!Button(p)
    PROVE  Gate!TypeOK'
  <1> USE DEF Gate!TypeOK, Gate!discord, Gate!handlers, Gate!presses
  <1>1. CASE \E h \in Handlers, a \in {"kicked", "banned", "released"} : Gate!Press(p, h, a)
    BY <1>1 DEF Gate!Press
  <1>2. CASE Gate!FetchTarget(p)
    BY <1>2 DEF Gate!FetchTarget, Gate!PressGoes, Gate!PressDone, Gate!Fault
  <1>3. CASE Gate!Act(p)
    <2>1. Gate!Target(p) \in Members
      BY <1>3 DEF Gate!Act, Gate!Target, PressesHaveCards, HandlersHaveMembers
    <2>2. /\ held' \subseteq held /\ unseen' \subseteq unseen /\ present' \subseteq present
          /\ banned' \subseteq banned \cup {Gate!Target(p)}
      BY <1>3 DEF Gate!Act, Gate!Gone, Gate!HoldEnds
    <2>3. press' \in [Presses -> {"idle", "fetch", "act", "update"}]
          /\ UNCHANGED <<action, onCard, config, level, card, join, member, seenLevel, seenConfig, gateFaults>>
      BY <1>3 DEF Gate!Act, Gate!PressGoes
    <2> QED
      BY <2>1, <2>2, <2>3
  <1>4. CASE Gate!ActFails(p)
    BY <1>4 DEF Gate!ActFails, Gate!TellFailure, Gate!PressDone, Gate!Fault
  <1>5. CASE Gate!Update(p)
    BY <1>5 DEF Gate!Update, Gate!PressDone, Gate!Fault, PressesHaveCards
  <1> QED
    BY <1>1, <1>2, <1>3, <1>4, <1>5 DEF Gate!Button

LEMMA GateTypeOK ==
    ASSUME Gate!JoinGateConstants, Gate!TypeOK, HandlersHaveMembers, PressesHaveCards,
           [Gate!Next]_(Gate!vars)
    PROVE  Gate!TypeOK'
  <1> USE DEF Gate!TypeOK, Gate!discord, Gate!handlers, Gate!presses
  <1>1. CASE \E m \in Members : Gate!Flag(m) \/ Gate!Leave(m) \/ Gate!TimeoutEnds(m)
    BY <1>1 DEF Gate!Flag, Gate!Leave, Gate!TimeoutEnds, Gate!Gone, Gate!HoldEnds, Gate!Fault,
                Gate!JoinGateConstants
  <1>2. CASE \E c \in Configs : Gate!Configure(c)
    BY <1>2 DEF Gate!Configure, Gate!Fault
  <1>3. CASE \E h \in Handlers : Gate!Handle(h)
    BY <1>3, HandlerTypeOK
  <1>4. CASE \E p \in Presses : Gate!Button(p)
    BY <1>4, PressTypeOK
  <1>5. CASE Gate!BotDies
    BY <1>5 DEF Gate!BotDies, Gate!Fault
  <1>6. CASE UNCHANGED Gate!vars
    BY <1>6 DEF Gate!vars
  <1> QED
    BY <1>1, <1>2, <1>3, <1>4, <1>5, <1>6 DEF Gate!Next

\* The three other parts of the invariant, by the actor of the step.
LEMMA HandlerKeepsCards ==
    ASSUME Gate!JoinGateConstants, GateInv, NEW h \in Handlers, Gate!Handle(h)
    PROVE  HandlersHaveMembers' /\ PressesHaveCards' /\ HoldsKeepACard'
  <1>0. Gate!TypeOK /\ HandlersHaveMembers /\ PressesHaveCards /\ HoldsKeepACard
    BY DEF GateInv
  <1> USE DEF Gate!discord, Gate!handlers, Gate!presses, Gate!HandlerGoes
  <1>1. UNCHANGED Gate!presses /\ Spent' = Spent
    <2>1. UNCHANGED Gate!presses
      BY DEF Gate!Handle, Gate!Join, Gate!ReadLevel, Gate!ReadConfig, Gate!Abandon,
             Gate!Decide, Gate!FetchChannel, Gate!Timeout,
             Gate!SendCard, Gate!Expel, Gate!Notify
    <2> QED
      BY <2>1 DEF Spent
  <1>2. HandlersHaveMembers'
    <2>1. join'[h] # "idle" /\ member'[h] \in Members /\ (join'[h] # "end" => card'[h] = "none")
      <3>1. CASE Gate!Decide(h)
        <4>1. Gate!FirstStep(h) # "idle"
          BY DEF Gate!FirstStep, Gate!ChannelFirst
        <4> QED
          BY <1>0, <3>1, <4>1 DEF Gate!TypeOK, HandlersHaveMembers, Gate!Decide
      <3>2. CASE \E m \in Members : Gate!Join(h, m)
        BY <1>0, <3>2 DEF Gate!TypeOK, HandlersHaveMembers, Gate!Join
      <3>3. CASE Gate!ReadLevel(h) \/ Gate!ReadConfig(h) \/ Gate!Abandon(h) \/ Gate!FetchChannel(h)
        BY <1>0, <3>3
           DEF Gate!TypeOK, HandlersHaveMembers, Gate!ReadLevel, Gate!ReadConfig, Gate!Abandon,
               Gate!FetchChannel
      <3>4. CASE Gate!Timeout(h) \/ Gate!SendCard(h) \/ Gate!Expel(h) \/ Gate!Notify(h)
        BY <1>0, <3>4 DEF Gate!TypeOK, HandlersHaveMembers, Gate!Timeout, Gate!SendCard,
                          Gate!Expel, Gate!Notify
      <3> QED
        BY <3>1, <3>2, <3>3, <3>4 DEF Gate!Handle
    <2>2. \A k \in Handlers : k # h => join'[k] = join[k] /\ member'[k] = member[k] /\ card'[k] = card[k]
      BY <1>0 DEF Gate!TypeOK, Gate!Handle, Gate!Join, Gate!ReadLevel, Gate!ReadConfig,
                  Gate!Abandon, Gate!Decide, Gate!FetchChannel,
             Gate!Timeout, Gate!SendCard, Gate!Expel, Gate!Notify
    <2> QED
      BY <1>0, <2>1, <2>2 DEF HandlersHaveMembers
  <1>3. PressesHaveCards'
    <2>1. \A k \in Handlers : card[k] # "none" => card'[k] # "none"
      BY <1>0 DEF Gate!TypeOK, Gate!Handle, Gate!Join, Gate!ReadLevel, Gate!ReadConfig,
                  Gate!Abandon, Gate!Decide, Gate!FetchChannel,
             Gate!Timeout, Gate!SendCard, Gate!Expel, Gate!Notify
    <2> QED
      BY <1>0, <1>1, <2>1 DEF PressesHaveCards
  <1>4. HoldsKeepACard'
    <2>1. h \notin Spent \/ join[h] = "end"
      BY <1>0 DEF Spent, PressesHaveCards, HandlersHaveMembers
    <2>2. CASE Gate!Timeout(h)
      BY <1>0, <1>1, <2>1, <2>2 DEF Gate!Timeout, HoldsKeepACard, Gate!TypeOK
    <2>3. CASE Gate!SendCard(h)
      BY <1>0, <1>1, <2>1, <2>3 DEF Gate!SendCard, HoldsKeepACard, Gate!TypeOK
    <2>4. CASE Gate!Expel(h)
      BY <1>0, <1>1, <2>4 DEF Gate!Expel, Gate!Gone, Gate!HoldEnds, HoldsKeepACard, Gate!TypeOK
    <2>5. CASE \E m \in Members : Gate!Join(h, m)
      <3>1. card[h] = "none" /\ join[h] = "idle"
        BY <1>0, <2>5 DEF Gate!Join, HandlersHaveMembers
      <3> QED
        BY <1>0, <1>1, <2>5, <3>1 DEF Gate!Join, HoldsKeepACard, Gate!TypeOK
    <2>6. CASE \/ Gate!ReadLevel(h) \/ Gate!ReadConfig(h) \/ Gate!Abandon(h) \/ Gate!Decide(h) \/ Gate!FetchChannel(h)
               \/ Gate!Notify(h)
      <3>1. join[h] # "card" /\ UNCHANGED <<held, unseen, card, member>>
            /\ \A k \in Handlers : k # h => join'[k] = join[k]
        BY <1>0, <2>6 DEF Gate!TypeOK, Gate!ReadLevel, Gate!ReadConfig, Gate!Abandon,
                          Gate!Decide, Gate!FetchChannel, Gate!Notify
      <3> QED
        BY <1>0, <1>1, <3>1 DEF HoldsKeepACard
    <2> QED
      BY <2>2, <2>3, <2>4, <2>5, <2>6 DEF Gate!Handle
  <1> QED
    BY <1>2, <1>3, <1>4

LEMMA PressKeepsCards ==
    ASSUME Gate!JoinGateConstants, GateInv, NEW p \in Presses, Gate!Button(p)
    PROVE  HandlersHaveMembers' /\ PressesHaveCards' /\ HoldsKeepACard'
  <1>0. Gate!TypeOK /\ HandlersHaveMembers /\ PressesHaveCards /\ HoldsKeepACard
    BY DEF GateInv
  <1> USE DEF Gate!discord, Gate!handlers, Gate!presses, Gate!PressGoes, Gate!PressDone
  <1>1. UNCHANGED <<join, member>>
    BY DEF Gate!Button, Gate!Press, Gate!FetchTarget, Gate!Act, Gate!ActFails,
           Gate!TellFailure, Gate!Update
  <1>2. CASE Gate!Update(p)
    <2>1. onCard[p] \in Handlers /\ onCard[p] \in Spent /\ card[onCard[p]] # "none"
          /\ action[p] \in {"kicked", "banned", "released"}
      BY <1>0, <1>2 DEF Gate!Update, Spent, PressesHaveCards
    <2>2. /\ \A h \in Handlers : h # onCard[p] => card'[h] = card[h]
          /\ card'[onCard[p]] \in {card[onCard[p]], action[p]}
          /\ Spent' \subseteq Spent /\ UNCHANGED <<held, unseen>>
          /\ \A q \in Presses : q # p => press'[q] = press[q] /\ action'[q] = action[q] /\ onCard'[q] = onCard[q]
          /\ press'[p] = "idle"
      BY <1>0, <1>2 DEF Gate!Update, Spent, Gate!TypeOK
    <2>3. HandlersHaveMembers'
      BY <1>0, <1>1, <2>1, <2>2 DEF HandlersHaveMembers
    <2>4. PressesHaveCards'
      BY <1>0, <2>1, <2>2 DEF PressesHaveCards
    <2>5. HoldsKeepACard'
      BY <1>0, <1>1, <2>1, <2>2 DEF HoldsKeepACard
    <2> QED
      BY <2>3, <2>4, <2>5
  <1>3. CASE Gate!Act(p)
    <2>1. /\ UNCHANGED <<card, action, onCard>>
          /\ onCard[p] \in Handlers
          /\ held' \ unseen' = (held \ unseen) \ {Gate!Target(p)}
          /\ press' = [press EXCEPT ![p] = "update"] /\ press[p] = "act"
      BY <1>0, <1>3 DEF Gate!Act, Gate!Gone, Gate!HoldEnds, PressesHaveCards
    <2>2. Spent' = Spent \cup {onCard[p]}
      BY <1>0, <2>1 DEF Spent, Gate!TypeOK
    <2>3. HandlersHaveMembers' /\ PressesHaveCards'
      BY <1>0, <1>1, <2>1 DEF HandlersHaveMembers, PressesHaveCards, Gate!TypeOK
    <2>4. HoldsKeepACard'
      BY <1>0, <1>1, <2>1, <2>2 DEF HoldsKeepACard, Gate!Target
    <2> QED
      BY <2>3, <2>4
  <1>4. CASE \/ \E h \in Handlers, a \in {"kicked", "banned", "released"} : Gate!Press(p, h, a)
             \/ Gate!FetchTarget(p) \/ Gate!ActFails(p)
    <2>1. /\ UNCHANGED <<card, held, unseen>>
          /\ \A q \in Presses : q # p => press'[q] = press[q] /\ action'[q] = action[q] /\ onCard'[q] = onCard[q]
          /\ press[p] # "update" /\ press'[p] # "update"
      BY <1>0, <1>4 DEF Gate!Press, Gate!FetchTarget, Gate!ActFails, Gate!TellFailure,
                        Gate!TypeOK
    <2>2. press'[p] # "idle" => /\ onCard'[p] \in Handlers /\ card[onCard'[p]] # "none"
                                /\ action'[p] \in {"kicked", "banned", "released"}
      BY <1>0, <1>4 DEF Gate!Press, Gate!FetchTarget, Gate!ActFails, Gate!TellFailure,
                        Gate!TypeOK, PressesHaveCards, Gate!ButtonsWork
    <2>3. Spent' = Spent
      BY <2>1 DEF Spent
    <2> QED
      BY <1>0, <1>1, <2>1, <2>2, <2>3 DEF HandlersHaveMembers, PressesHaveCards, HoldsKeepACard
  <1> QED
    BY <1>2, <1>3, <1>4 DEF Gate!Button

LEMMA GateNext ==
    ASSUME Gate!JoinGateConstants, GateInv, [Gate!Next]_(Gate!vars)
    PROVE  GateInv'
  <1>0. Gate!TypeOK /\ HandlersHaveMembers /\ PressesHaveCards /\ HoldsKeepACard
    BY DEF GateInv
  <1>1. Gate!TypeOK'
    BY <1>0, GateTypeOK
  <1> USE DEF Gate!discord, Gate!handlers, Gate!presses
  <1>2. CASE \E m \in Members : Gate!Flag(m) \/ Gate!Leave(m) \/ Gate!TimeoutEnds(m)
    <2>1. UNCHANGED <<Gate!handlers, Gate!presses, card>> /\ held' \ unseen' \subseteq held \ unseen
      BY <1>2 DEF Gate!Flag, Gate!Leave, Gate!TimeoutEnds, Gate!Gone, Gate!HoldEnds
    <2> QED
      BY <1>0, <1>1, <2>1
         DEF GateInv, HandlersHaveMembers, PressesHaveCards, HoldsKeepACard, Spent
  <1>3. CASE (\E c \in Configs : Gate!Configure(c)) \/ UNCHANGED Gate!vars
    <2>1. UNCHANGED <<Gate!handlers, Gate!presses, Gate!discord>>
      BY <1>3 DEF Gate!Configure, Gate!vars
    <2> QED
      BY <1>0, <1>1, <2>1
         DEF GateInv, HandlersHaveMembers, PressesHaveCards, HoldsKeepACard, Spent
  <1>4. CASE Gate!BotDies
    <2>1. /\ UNCHANGED <<member, card, held>> /\ Spent' = {}
          /\ unseen' = unseen \cup (held \cap {member[h] : h \in {k \in Handlers : join[k] = "card"}})
          /\ \A h \in Handlers : join'[h] = IF join[h] = "idle" THEN "idle" ELSE "end"
          /\ \A p \in Presses : press'[p] = "idle"
      BY <1>4 DEF Gate!BotDies, Spent
    <2>2. HandlersHaveMembers' /\ PressesHaveCards'
      BY <1>0, <2>1 DEF HandlersHaveMembers, PressesHaveCards
    <2>3. HoldsKeepACard'
      BY <1>0, <2>1 DEF HoldsKeepACard
    <2> QED
      BY <1>1, <2>2, <2>3 DEF GateInv
  <1>5. CASE \E h \in Handlers : Gate!Handle(h)
    BY <1>1, <1>5, HandlerKeepsCards DEF GateInv
  <1>6. CASE \E p \in Presses : Gate!Button(p)
    BY <1>1, <1>6, PressKeepsCards DEF GateInv
  <1> QED
    BY <1>2, <1>3, <1>4, <1>5, <1>6 DEF Gate!Next

\* No step of a handler, of a press or of a member breaks the invariant.
LEMMA GateHolds == Gate!Spec => []GateInv
  <1>1. Gate!Init => GateInv
    BY GateAssumption, GateInit
  <1>2. GateInv /\ [Gate!Next]_(Gate!vars) => GateInv'
    BY GateAssumption, GateNext
  <1> QED
    BY <1>1, <1>2, PTL DEF Gate!Spec

\* Members, cards, handlers and presses keep their types.
THEOREM JoinGateTypeOK == Gate!Spec => []Gate!TypeOK
  <1>1. GateInv => Gate!TypeOK
    BY DEF GateInv
  <1> QED
    BY <1>1, GateHolds, PTL

\* Whoever joins, leaves, is flagged, released or banned, and whatever Discord
\* refuses: a member in a hold has a card that works, or one on its way, unless
\* the card was refused or the bot died with it.
THEOREM HeldSafe == Gate!Spec => []HeldMembersHaveACard
  <1>1. GateInv => HeldMembersHaveACard
    BY DEF GateInv, HoldsKeepACard, HeldMembersHaveACard, Gate!HeldMembersHaveACard, Gate!CardsToCome,
           Gate!ButtonsWork
  <1> QED
    BY <1>1, GateHolds, PTL

-----------------------------------------------------------------------------
(***************************************************************************)
(* BotConfig, as ConfigView names it.                                      *)
(***************************************************************************)

LEMMA ConfigSteps ==
    ASSUME [Config!Next]_(Config!vars)
    PROVE  \/ Config!UpsertConfig
           \/ \E v \in 1..MaxCommits : Config!Publish(v)
           \/ \E b \in Bots, v \in 1..MaxCommits : Config!Mark(b, v) \/ Config!Handle(b, v)
           \/ \E b \in Bots : \/ Config!HandleOther(b) \/ Config!Disconnect(b) \/ Config!Connect(b)
                              \/ Config!CircuitCloses(b) \/ Config!GrowsStale(b) \/ Config!Crash(b)
           \/ \E c \in Config!Calls : Config!Begin(c) \/ Config!ReadRow(c) \/ Config!Receive(c) \/ Config!CallFails(c)
           \/ UNCHANGED Config!vars
  BY DEF Config!Next, Config!Subscriber, Config!Call

-----------------------------------------------------------------------------
(* Types                                                                   *)

LEMMA ConfigInit ==
    ASSUME Config!BotConfigConstants
    PROVE  Config!Init => Config!TypeOK
  <1> SUFFICES ASSUME Config!Init PROVE Config!TypeOK
    OBVIOUS
  <1>1. /\ configRow \in Config!Versions /\ queued \in SUBSET (1..configRow)
        /\ handled \in SUBSET ((1..configRow) \X Bots) /\ skipped \in [Bots -> 0..configRow]
        /\ connected \in SUBSET Bots /\ configFaults \in 0..ConfigFaults
        /\ overtaken \in SUBSET {c \in Config!Calls : callAt[c] = "reply"} /\ excused \in SUBSET Bots
        /\ fresh \in SUBSET {b \in Bots : entry[b] # NoConfig} /\ open \in SUBSET Bots
    BY DEF Config!BotConfigConstants, Config!Init, Config!Versions
  <1>2. /\ inbox \in [Bots -> SUBSET (1..configRow)] /\ todo \in [Bots -> SUBSET (1..configRow)]
        /\ entry \in [Bots -> (0..configRow) \cup {NoConfig}]
    BY DEF Config!Init
  <1>3. failures \in [Bots -> 0..(FailuresToOpen - 1)]
    BY DEF Config!BotConfigConstants, Config!Init
  <1>4. /\ callAt \in [Config!Calls -> {"idle", "fetch", "reply"}] /\ readRow \in [Config!Calls -> (0..configRow) \cup {NoConfig}]
        /\ \A c \in Config!Calls : readRow[c] # NoConfig <=> callAt[c] = "reply"
    BY DEF Config!Init
  <1> QED
    BY <1>1, <1>2, <1>3, <1>4 DEF Config!TypeOK

LEMMA FailureTyped ==
    ASSUME Config!BotConfigConstants, Config!TypeOK, NEW b \in Bots,
           NEW n \in 0..(FailuresToOpen - 1), Config!RecordFailure(b, n)
    PROVE  failures' \in [Bots -> 0..(FailuresToOpen - 1)] /\ open' \in SUBSET Bots
  BY DEF Config!BotConfigConstants, Config!TypeOK, Config!RecordFailure

LEMMA InvalidateTyped ==
    ASSUME Config!BotConfigConstants, Config!TypeOK, NEW b \in Bots, Config!Invalidate(b),
           inbox' \in [Bots -> SUBSET (1..configRow)], todo' \in [Bots -> SUBSET (1..configRow)]
    PROVE  Config!TypeOK'
  <1>1. /\ UNCHANGED <<configRow, queued, handled, connected, excused, skipped, failures, open, callAt, readRow, configFaults>>
        /\ entry' = [entry EXCEPT ![b] = NoConfig] /\ fresh' = fresh \ {b}
        /\ overtaken' = overtaken \cup Config!Reading(b)
    BY DEF Config!Invalidate, Config!DropCopy, Config!events, Config!breaker
  <1>2. entry' \in [Bots -> (0..configRow') \cup {NoConfig}] /\ fresh' \in SUBSET {d \in Bots : entry'[d] # NoConfig}
    BY <1>1 DEF Config!TypeOK
  <1>3. overtaken' \in SUBSET {c \in Config!Calls : callAt'[c] = "reply"}
    BY <1>1 DEF Config!TypeOK, Config!Reading
  <1> QED
    BY <1>1, <1>2, <1>3 DEF Config!TypeOK

LEMMA ConfigNext ==
    ASSUME Config!BotConfigConstants
    PROVE  Config!TypeOK /\ [Config!Next]_(Config!vars) => Config!TypeOK'
  <1> SUFFICES ASSUME Config!TypeOK, [Config!Next]_(Config!vars) PROVE Config!TypeOK'
    OBVIOUS
  <1>c. NoConfig \notin Nat /\ FailuresToOpen \in Nat \ {0} /\ MaxCommits \in Nat /\ ConfigFaults \in Nat
    BY DEF Config!BotConfigConstants
  <1>own. \A c \in Config!Calls : c[1] \in Bots
    BY DEF Config!Calls
  <1>1. CASE Config!UpsertConfig
    <2>1. configRow' \in Config!Versions /\ configRow' = configRow + 1 /\ 1..configRow \subseteq 1..configRow' /\ 0..configRow \subseteq 0..configRow'
      BY <1>1, <1>c DEF Config!TypeOK, Config!UpsertConfig, Config!Versions
    <2>2. queued' \in SUBSET (1..configRow')
      BY <1>1, <2>1, <1>c DEF Config!TypeOK, Config!UpsertConfig, Config!Versions
    <2> QED
      BY <1>1, <2>1, <2>2 DEF Config!TypeOK, Config!UpsertConfig, Config!cache, Config!breaker,
                              Config!calls
  <1>2. ASSUME NEW v \in 1..MaxCommits, Config!Publish(v) PROVE Config!TypeOK'
    <2>1. inbox' \in [Bots -> SUBSET (1..configRow)] /\ queued' \in SUBSET (1..configRow)
      BY <1>2 DEF Config!TypeOK, Config!Publish
    <2>2. overtaken' \in SUBSET {c \in Config!Calls : callAt[c] = "reply"} /\ excused' \in SUBSET Bots
      BY <1>2 DEF Config!TypeOK, Config!Publish, Config!Reading
    <2>3. configFaults' \in 0..ConfigFaults
      BY <1>2, <1>c DEF Config!TypeOK, Config!Publish, Config!Fault
    <2> QED
      BY <1>2, <2>1, <2>2, <2>3 DEF Config!TypeOK, Config!Publish, Config!breaker
  <1>3. ASSUME NEW b \in Bots, NEW v \in 1..MaxCommits, Config!Mark(b, v) PROVE Config!TypeOK'
    <2>0. v \in 1..configRow /\ inbox' = [inbox EXCEPT ![b] = inbox[b] \ {v}]
      BY <1>3 DEF Config!TypeOK, Config!Mark
    <2>4. inbox' \in [Bots -> SUBSET (1..configRow)] /\ handled' \in SUBSET ((1..configRow) \X Bots)
      <3>1. handled' = handled \/ handled' = handled \cup {<<v, b>>}
        BY <1>3 DEF Config!Mark
      <3>2. <<v, b>> \in (1..configRow) \X Bots
        BY <2>0
      <3> QED
        BY <2>0, <3>1, <3>2 DEF Config!TypeOK
    <2>6. skipped' \in [Bots -> 0..configRow]
      <3>1. skipped' = skipped \/ skipped' = [skipped EXCEPT ![b] = v]
        BY <1>3 DEF Config!Mark
      <3>2. v \in 0..configRow
        BY <2>0, <1>c DEF Config!TypeOK, Config!Versions
      <3> QED
        BY <3>1, <3>2 DEF Config!TypeOK
    <2>5. todo' = todo \/ todo' = [todo EXCEPT ![b] = todo[b] \cup {v}]
      BY <1>3 DEF Config!Mark
    <2>1. todo' \in [Bots -> SUBSET (1..configRow)]
      BY <2>0, <2>5 DEF Config!TypeOK
    <2>2. overtaken' \in SUBSET {c \in Config!Calls : callAt[c] = "reply"} /\ excused' \in SUBSET Bots
      BY <1>3 DEF Config!TypeOK, Config!Mark, Config!Lose, Config!Reading
    <2>3. configFaults' \in 0..ConfigFaults
      BY <1>3, <1>c DEF Config!TypeOK, Config!Mark, Config!Fault
    <2> QED
      BY <1>3, <2>1, <2>2, <2>3, <2>4, <2>6 DEF Config!TypeOK, Config!Mark, Config!breaker
  <1>4. ASSUME NEW b \in Bots, NEW v \in 1..MaxCommits, Config!Handle(b, v) PROVE Config!TypeOK'
    <2>1. Config!Invalidate(b) /\ inbox' \in [Bots -> SUBSET (1..configRow)] /\ todo' \in [Bots -> SUBSET (1..configRow)]
      BY <1>4 DEF Config!TypeOK, Config!Handle
    <2> QED
      BY <2>1, InvalidateTyped
  <1>5. ASSUME NEW b \in Bots, Config!HandleOther(b) PROVE Config!TypeOK'
    BY <1>5 DEF Config!TypeOK, Config!HandleOther, Config!DropCopy, Config!events,
                Config!breaker, Config!calls
  <1>6. ASSUME NEW b \in Bots, Config!Disconnect(b) PROVE Config!TypeOK'
    <2>1. overtaken' \in SUBSET {c \in Config!Calls : callAt[c] = "reply"} /\ excused' \in SUBSET Bots
      BY <1>6 DEF Config!TypeOK, Config!Disconnect, Config!Lose, Config!Reading
    <2>2. inbox' \in [Bots -> SUBSET (1..configRow)] /\ configFaults' \in 0..ConfigFaults
      BY <1>6, <1>c DEF Config!TypeOK, Config!Disconnect, Config!Fault
    <2> QED
      BY <1>6, <2>1, <2>2 DEF Config!TypeOK, Config!Disconnect, Config!events, Config!breaker
  <1>7. ASSUME NEW b \in Bots, Config!Connect(b) PROVE Config!TypeOK'
    BY <1>7 DEF Config!TypeOK, Config!Connect, Config!events, Config!cache, Config!breaker,
                Config!calls
  <1>8. ASSUME NEW b \in Bots, Config!CircuitCloses(b) PROVE Config!TypeOK'
    BY <1>8 DEF Config!TypeOK, Config!CircuitCloses, Config!events, Config!cache, Config!calls
  <1>9. ASSUME NEW b \in Bots, Config!GrowsStale(b) PROVE Config!TypeOK'
    BY <1>9 DEF Config!TypeOK, Config!GrowsStale, Config!events, Config!breaker, Config!calls
  <1>10. ASSUME NEW b \in Bots, Config!Crash(b) PROVE Config!TypeOK'
    <2>1. /\ inbox' \in [Bots -> SUBSET (1..configRow)] /\ todo' \in [Bots -> SUBSET (1..configRow)]
          /\ configFaults' \in 0..ConfigFaults /\ failures' \in [Bots -> 0..(FailuresToOpen - 1)]
      BY <1>10, <1>c DEF Config!TypeOK, Config!Crash, Config!Fault
    <2>2. entry' \in [Bots -> (0..configRow) \cup {NoConfig}] /\ fresh' \in SUBSET {d \in Bots : entry'[d] # NoConfig}
      BY <1>10 DEF Config!TypeOK, Config!Crash
    <2>3. /\ callAt' \in [Config!Calls -> {"idle", "fetch", "reply"}] /\ readRow' \in [Config!Calls -> (0..configRow) \cup {NoConfig}]
          /\ \A c \in Config!Calls : readRow'[c] # NoConfig <=> callAt'[c] = "reply"
          /\ overtaken' \in SUBSET {c \in Config!Calls : callAt'[c] = "reply"}
      BY <1>10 DEF Config!TypeOK, Config!Crash
    <2> QED
      BY <1>10, <2>1, <2>2, <2>3 DEF Config!TypeOK, Config!Crash, Config!events
  <1>11. ASSUME NEW c \in Config!Calls, Config!Begin(c) PROVE Config!TypeOK'
    <2>1. /\ callAt' \in [Config!Calls -> {"idle", "fetch", "reply"}] /\ readRow' = readRow
          /\ \A d \in Config!Calls : callAt'[d] = "reply" <=> callAt[d] = "reply"
      BY <1>11 DEF Config!TypeOK, Config!Begin
    <2> QED
      BY <1>11, <2>1 DEF Config!TypeOK, Config!Begin, Config!events, Config!cache,
                         Config!breaker
  <1>12. ASSUME NEW c \in Config!Calls, Config!ReadRow(c) PROVE Config!TypeOK'
    <2>1. /\ callAt' \in [Config!Calls -> {"idle", "fetch", "reply"}] /\ readRow' \in [Config!Calls -> (0..configRow) \cup {NoConfig}]
          /\ \A d \in Config!Calls : readRow'[d] # NoConfig <=> callAt'[d] = "reply"
          /\ overtaken' \in SUBSET {d \in Config!Calls : callAt'[d] = "reply"}
      BY <1>12, <1>c DEF Config!TypeOK, Config!ReadRow, Config!Versions
    <2> QED
      BY <1>12, <2>1 DEF Config!TypeOK, Config!ReadRow, Config!events, Config!cache,
                         Config!breaker
  <1>13. ASSUME NEW c \in Config!Calls, Config!Answer(c)
         PROVE  /\ callAt' \in [Config!Calls -> {"idle", "fetch", "reply"}] /\ readRow' \in [Config!Calls -> (0..configRow) \cup {NoConfig}]
                /\ \A d \in Config!Calls : readRow'[d] # NoConfig <=> callAt'[d] = "reply"
                /\ overtaken' \in SUBSET {d \in Config!Calls : callAt'[d] = "reply"}
    BY <1>13 DEF Config!TypeOK, Config!Answer
  <1>14. ASSUME NEW c \in Config!Calls, Config!Receive(c) PROVE Config!TypeOK'
    <2>1. /\ entry' \in [Bots -> (0..configRow) \cup {NoConfig}] /\ excused' \in SUBSET Bots
          /\ fresh' \in SUBSET {d \in Bots : entry'[d] # NoConfig}
      <3>1. readRow[c] \in 0..configRow /\ readRow[c] # NoConfig
        BY <1>14, <1>c DEF Config!TypeOK, Config!Receive
      <3> QED
        BY <1>14, <1>own, <3>1 DEF Config!TypeOK, Config!Receive
    <2>2. failures' \in [Bots -> 0..(FailuresToOpen - 1)]
      <3>1. 0 \in 0..(FailuresToOpen - 1)
        BY <1>c
      <3> QED
        BY <1>14, <1>own, <3>1 DEF Config!TypeOK, Config!Receive
    <2> QED
      BY <1>14, <1>13, <2>1, <2>2 DEF Config!TypeOK, Config!Receive, Config!events
  <1>15. ASSUME NEW c \in Config!Calls, Config!CallFails(c) PROVE Config!TypeOK'
    <2>1. failures' \in [Bots -> 0..(FailuresToOpen - 1)] /\ open' \in SUBSET Bots
      <3>1. failures[c[1]] \in 0..(FailuresToOpen - 1) /\ 0 \in 0..(FailuresToOpen - 1)
        BY <1>own, <1>c DEF Config!TypeOK
      <3>2. CASE UNCHANGED Config!breaker
        BY <3>2 DEF Config!TypeOK, Config!breaker
      <3> QED
        BY <1>15, <1>own, <3>1, <3>2, FailureTyped DEF Config!CallFails
    <2>2. configFaults' \in 0..ConfigFaults
      BY <1>15, <1>c DEF Config!TypeOK, Config!CallFails, Config!Fault
    <2> QED
      BY <1>15, <1>13, <2>1, <2>2 DEF Config!TypeOK, Config!CallFails, Config!events,
                                      Config!cache
  <1>16. CASE UNCHANGED Config!vars
    BY <1>16 DEF Config!TypeOK, Config!vars, Config!events, Config!cache, Config!breaker,
                 Config!calls
  <1> QED
    BY <1>1, <1>2, <1>3, <1>4, <1>5, <1>6, <1>7, <1>8, <1>9, <1>10, <1>11, <1>12, <1>14, <1>15,
       <1>16, ConfigSteps

\* The row, the messages, the copies, the breakers and the calls keep their
\* types; a copy, a call or a message is never ahead of the row.
THEOREM BotConfigTypeOK == Config!Spec => []ConfigTypeOK
  <1>1. Config!Init => Config!TypeOK
    BY ConfigAssumption, ConfigInit
  <1>2. Config!TypeOK /\ [Config!Next]_(Config!vars) => Config!TypeOK'
    BY ConfigAssumption, ConfigNext
  <1> QED
    BY <1>1, <1>2, PTL DEF Config!Spec, ConfigTypeOK

-----------------------------------------------------------------------------
(* Invalidation                                                            *)

\* The events that bot b will handle, or leave to another bot: one it has
\* marked itself counts only if it is about to handle it.
Useful(b) ==
    {v \in queued \cup inbox[b] \cup todo[b] :
        b \in Dedupers /\ <<v, b>> \in handled => v \in todo[b]}

Told(b, n) == skipped[b] > n \/ \E v \in Useful(b) : v > n

\* What a bot holds, or is about to hold, and is out of date is known to be.
CopyWillDrop ==
    \A b \in Bots :
        entry[b] # NoConfig /\ entry[b] < configRow /\ b \notin excused => Told(b, entry[b])

ReplyWillDrop ==
    \A c \in Config!Calls :
        callAt[c] = "reply" /\ readRow[c] < configRow /\ c \notin overtaken => Told(c[1], readRow[c])

DropInv == Config!TypeOK /\ CopyWillDrop /\ ReplyWillDrop

LEMMA InitDrop ==
    ASSUME Config!BotConfigConstants
    PROVE  Config!Init => DropInv
  BY ConfigInit DEF DropInv, CopyWillDrop, ReplyWillDrop, Config!Init

\* No event is lost on bot b but one that it leaves to another bot.
Keeps(b) ==
    /\ skipped'[b] = skipped[b] \/ skipped'[b] > skipped[b]
    /\ \A v \in Useful(b) : v \in Useful(b)' \/ ~(v > skipped'[b])

LEMMA UsefulComes == \A b \in Bots : Useful(b) \subseteq Config!Coming(b)
  BY DEF Useful, Config!Coming

LEMMA KeptTold ==
    ASSUME Config!BotConfigConstants, Config!TypeOK, Config!TypeOK', NEW b \in Bots, Keeps(b),
           NEW n \in Nat, Told(b, n)
    PROVE  skipped'[b] > n \/ \E v \in Useful(b)' : v > n
  <1>1. skipped[b] \in Nat /\ skipped'[b] \in Nat
    BY DEF Config!BotConfigConstants, Config!TypeOK, Config!Versions
  <1>2. \A v \in Useful(b) : v \in Nat
    BY DEF Useful, Config!BotConfigConstants, Config!TypeOK, Config!Versions
  <1> QED
    BY <1>1, <1>2 DEF Keeps, Told

LEMMA SameKept ==
    ASSUME NEW b, UNCHANGED skipped, Useful(b) \subseteq Useful(b)'
    PROVE  Keeps(b)
  BY DEF Keeps

\* A step that neither commits, stores nor reads: a bot that loses an event
\* has no copy and no reply, or has an excuse for them.
LEMMA LosingStep ==
    ASSUME Config!BotConfigConstants, DropInv, Config!TypeOK', configRow' = configRow,
           \A b \in Bots :
              /\ entry'[b] # NoConfig /\ b \notin excused' =>
                    entry'[b] = entry[b] /\ b \notin excused /\ Keeps(b)
              /\ \A c \in Config!Calls : c[1] = b /\ callAt'[c] = "reply" /\ c \notin overtaken' =>
                    /\ callAt[c] = "reply" /\ readRow'[c] = readRow[c] /\ c \notin overtaken
                    /\ Keeps(b)
    PROVE  DropInv'
  <1>parts. Config!TypeOK /\ CopyWillDrop /\ ReplyWillDrop
    BY DEF DropInv
  <1>1. CopyWillDrop'
    <2> SUFFICES ASSUME NEW b \in Bots, entry'[b] # NoConfig, entry'[b] < configRow', b \notin excused'
                 PROVE  Told(b, entry[b])'
      BY DEF CopyWillDrop
    <2>1. entry'[b] = entry[b] /\ b \notin excused /\ Keeps(b) /\ entry[b] \in Nat
      BY <1>parts DEF Config!TypeOK, Config!BotConfigConstants, Config!Versions
    <2>2. Told(b, entry[b])
      BY <2>1, <1>parts DEF CopyWillDrop
    <2> QED
      BY <2>1, <2>2, <1>parts, KeptTold DEF Told
  <1>2. ReplyWillDrop'
    <2> SUFFICES ASSUME NEW c \in Config!Calls, callAt'[c] = "reply", readRow'[c] < configRow', c \notin overtaken'
                 PROVE  Told(c[1], readRow[c])'
      BY DEF ReplyWillDrop
    <2>1. c[1] \in Bots
      BY DEF Config!Calls
    <2>2. callAt[c] = "reply" /\ readRow'[c] = readRow[c] /\ c \notin overtaken /\ Keeps(c[1])
      BY <2>1
    <2>3. readRow[c] \in Nat
      BY <2>2, <1>parts DEF Config!TypeOK, Config!BotConfigConstants, Config!Versions
    <2>4. Told(c[1], readRow[c])
      BY <2>2, <1>parts DEF ReplyWillDrop
    <2> QED
      BY <2>1, <2>2, <2>3, <2>4, <1>parts, KeptTold DEF Told
  <1> QED
    BY <1>1, <1>2 DEF DropInv

\* The new event is the one that makes every other copy drop.
LEMMA CommitDrop ==
    ASSUME Config!BotConfigConstants, DropInv, Config!TypeOK', Config!UpsertConfig
    PROVE  DropInv'
  <1>parts. Config!TypeOK
    BY DEF DropInv
  <1>1. /\ configRow' = configRow + 1 /\ queued' = queued \cup {configRow + 1} /\ configRow \in Nat
        /\ UNCHANGED <<handled, inbox, todo, entry, callAt, readRow>>
        /\ \A b \in Bots : <<configRow + 1, b>> \notin handled
    <2>1. configRow \in Nat /\ handled \subseteq (1..configRow) \X Bots
      BY <1>parts DEF Config!BotConfigConstants, Config!TypeOK, Config!Versions
    <2>2. \A b \in Bots : <<configRow + 1, b>> \notin handled
      BY <2>1
    <2> QED
      BY <2>1, <2>2 DEF Config!UpsertConfig, Config!cache, Config!calls
  <1>2. \A b \in Bots : configRow + 1 \in Useful(b)'
    BY <1>1 DEF Useful
  <1>3. \A b \in Bots : entry[b] # NoConfig => entry[b] \in 0..configRow
    BY <1>parts DEF Config!TypeOK
  <1>4. \A c \in Config!Calls : callAt[c] = "reply" => readRow[c] \in 0..configRow /\ c[1] \in Bots
    BY <1>parts DEF Config!TypeOK, Config!Calls
  <1>5. CopyWillDrop'
    BY <1>1, <1>2, <1>3 DEF CopyWillDrop, Told
  <1>6. ReplyWillDrop'
    BY <1>1, <1>2, <1>4 DEF ReplyWillDrop, Told
  <1> QED
    BY <1>5, <1>6 DEF DropInv

LEMMA ReadDrop ==
    ASSUME Config!BotConfigConstants, DropInv, Config!TypeOK',
           NEW c \in Config!Calls, Config!ReadRow(c) \/ Config!Receive(c)
    PROVE  DropInv'
  <1>parts. Config!TypeOK /\ CopyWillDrop /\ ReplyWillDrop
    BY DEF DropInv
  <1>1. /\ UNCHANGED <<configRow, queued, handled, inbox, todo, skipped>> /\ c[1] \in Bots
        /\ \A d \in Config!Calls \ {c} : callAt'[d] = callAt[d] /\ readRow'[d] = readRow[d] /\ (d \in overtaken' <=> d \in overtaken)
        /\ \A b \in Bots \ {c[1]} : entry'[b] = entry[b] /\ (b \in excused' <=> b \in excused)
    BY <1>parts DEF Config!TypeOK, Config!ReadRow, Config!Receive, Config!Answer,
                    Config!events, Config!cache, Config!Calls
  <1>2. \A b \in Bots : Useful(b)' = Useful(b)
    BY <1>1 DEF Useful
  <1>3. CASE Config!ReadRow(c)
    <2>1. readRow'[c] = configRow /\ UNCHANGED <<entry, excused>> /\ configRow \in Nat
      BY <1>3, <1>parts DEF Config!TypeOK, Config!ReadRow, Config!cache, Config!Versions
    <2>2. CopyWillDrop'
      BY <2>1, <1>1, <1>2, <1>parts DEF CopyWillDrop, Told
    <2>3. ReplyWillDrop'
      <3> SUFFICES ASSUME NEW d \in Config!Calls, callAt'[d] = "reply", readRow'[d] < configRow', d \notin overtaken'
                   PROVE  Told(d[1], readRow[d])'
        BY DEF ReplyWillDrop
      <3>1. d # c
        BY <2>1, <1>1
      <3>2. d[1] \in Bots
        BY DEF Config!Calls
      <3> QED
        BY <3>1, <3>2, <1>1, <1>2, <1>parts DEF ReplyWillDrop, Told
    <2> QED
      BY <2>2, <2>3 DEF DropInv
  <1>4. CASE Config!Receive(c)
    <2>1. /\ callAt[c] = "reply" /\ callAt'[c] = "idle" /\ entry'[c[1]] = readRow[c]
          /\ c[1] \notin excused' => c \notin overtaken
      BY <1>4, <1>1, <1>parts DEF Config!TypeOK, Config!Receive, Config!Answer
    <2>2. CopyWillDrop'
      <3> SUFFICES ASSUME NEW b \in Bots, entry'[b] # NoConfig, entry'[b] < configRow', b \notin excused'
                   PROVE  Told(b, entry[b])'
        BY DEF CopyWillDrop
      <3>1. CASE b = c[1]
        BY <3>1, <2>1, <1>1, <1>2, <1>parts DEF ReplyWillDrop, Told
      <3>2. CASE b # c[1]
        BY <3>2, <1>1, <1>2, <1>parts DEF CopyWillDrop, Told
      <3> QED
        BY <3>1, <3>2
    <2>3. ReplyWillDrop'
      <3> SUFFICES ASSUME NEW d \in Config!Calls, callAt'[d] = "reply", readRow'[d] < configRow', d \notin overtaken'
                   PROVE  Told(d[1], readRow[d])'
        BY DEF ReplyWillDrop
      <3>1. d # c /\ d[1] \in Bots
        BY <2>1 DEF Config!Calls
      <3> QED
        BY <3>1, <1>1, <1>2, <1>parts DEF ReplyWillDrop, Told
    <2> QED
      BY <2>2, <2>3 DEF DropInv
  <1> QED
    BY <1>3, <1>4

LEMMA PublishDrop ==
    ASSUME Config!BotConfigConstants, DropInv, Config!TypeOK',
           NEW v \in 1..MaxCommits, Config!Publish(v)
    PROVE  DropInv'
  <1>parts. Config!TypeOK
    BY DEF DropInv
  <1>1. /\ UNCHANGED <<configRow, handled, todo, entry, skipped, callAt, readRow>>
        /\ queued \ {v} \subseteq queued'
        /\ excused' = excused \cup (Bots \ connected)
        /\ \A b \in Bots : inbox[b] \subseteq inbox'[b]
        /\ \A b \in connected : v \in inbox'[b]
    BY <1>parts DEF Config!TypeOK, Config!Publish
  <1>2. ASSUME NEW b \in Bots, b \in connected PROVE Keeps(b)
    <2>1. queued \cup inbox[b] \subseteq queued' \cup inbox'[b]
      BY <1>1, <1>2
    <2> QED
      BY <2>1, <1>1 DEF Useful, Keeps
  <1>3. \A c \in Config!Calls : callAt[c] = "reply" /\ c \notin overtaken' => c[1] \in connected /\ c \notin overtaken
    BY DEF Config!Publish, Config!Reading, Config!Calls
  <1> QED
    BY <1>1, <1>2, <1>3, LosingStep

LEMMA MarkDrop ==
    ASSUME Config!BotConfigConstants, DropInv, Config!TypeOK', NEW b \in Bots,
           NEW v \in 1..MaxCommits, Config!Mark(b, v)
    PROVE  DropInv'
  <1>parts. Config!TypeOK
    BY DEF DropInv
  <1>1. /\ b \in Dedupers /\ v \in inbox[b] /\ inbox' = [inbox EXCEPT ![b] = inbox[b] \ {v}]
        /\ UNCHANGED <<configRow, queued, entry, callAt, readRow>>
    BY DEF Config!Mark
  <1>2. v \in Nat /\ skipped[b] \in Nat
    BY <1>1, <1>parts DEF Config!BotConfigConstants, Config!TypeOK, Config!Versions
  \* Whoever marks it, a message is marked by one bot at most.
  <1>3. ASSUME NEW d \in Bots, d # b,
               todo'[d] = todo[d], skipped'[d] = skipped[d],
               handled' = handled \/ handled' = handled \cup {<<v, b>>}
        PROVE  Keeps(d)
    <2>1. inbox'[d] = inbox[d] /\ (<<v, d>> \in handled' <=> <<v, d>> \in handled)
      BY <1>1, <1>3, <1>parts DEF Config!TypeOK
    <2>2. \A w : <<w, d>> \in handled' <=> <<w, d>> \in handled
      BY <1>3
    <2> QED
      BY <1>1, <1>3, <2>1, <2>2 DEF Useful, Keeps
  <1>4. CASE Config!Lose(b) /\ UNCHANGED <<todo, skipped>>
             /\ (handled' = handled \/ handled' = handled \cup {<<v, b>>})
    <2>1. \A d \in Bots : d # b => Keeps(d)
      BY <1>3, <1>4
    <2>2. /\ b \in excused' /\ \A d \in Bots : d \notin excused' => d \notin excused /\ d # b
          /\ \A c \in Config!Calls : callAt[c] = "reply" /\ c \notin overtaken' => c \notin overtaken /\ c[1] # b
      BY <1>4 DEF Config!Lose, Config!Reading
    <2> QED
      BY <1>1, <2>1, <2>2, LosingStep
  <1>5. CASE /\ handled' = handled \cup {<<v, b>>} /\ todo' = [todo EXCEPT ![b] = todo[b] \cup {v}]
             /\ UNCHANGED <<skipped, overtaken, excused>>
    <2>1. Keeps(b)
      <3>1. inbox'[b] = inbox[b] \ {v} /\ todo'[b] = todo[b] \cup {v}
        BY <1>1, <1>5, <1>parts DEF Config!TypeOK
      <3>2. \A w : w # v => (<<w, b>> \in handled' <=> <<w, b>> \in handled)
        BY <1>5
      <3> QED
        BY <1>1, <1>5, <3>1, <3>2 DEF Useful, Keeps
    <2>2. \A d \in Bots : d # b => todo'[d] = todo[d]
      BY <1>5, <1>parts DEF Config!TypeOK
    <2>3. \A d \in Bots : Keeps(d)
      BY <1>3, <1>5, <2>1, <2>2
    <2> QED
      BY <1>1, <1>5, <2>3, LosingStep
  <1>6. CASE /\ UNCHANGED <<handled, todo, overtaken, excused>>
             /\ skipped' = IF <<v, b>> \in handled \/ skipped[b] > v THEN skipped
                           ELSE [skipped EXCEPT ![b] = v]
    <2>1. Keeps(b)
      <3>1. inbox'[b] = inbox[b] \ {v}
        BY <1>1, <1>parts DEF Config!TypeOK
      <3>2. /\ skipped'[b] = skipped[b] \/ skipped'[b] > skipped[b]
            /\ <<v, b>> \in handled \/ ~(v > skipped'[b])
        <4>1. CASE <<v, b>> \in handled
          BY <1>6, <4>1
        <4>2. CASE <<v, b>> \notin handled /\ skipped[b] > v
          BY <1>2, <1>6, <4>2
        <4>3. CASE <<v, b>> \notin handled /\ ~(skipped[b] > v)
          <5>1. skipped'[b] = v
            BY <1>6, <4>3, <1>parts DEF Config!TypeOK
          <5> QED
            BY <1>2, <4>3, <5>1
        <4> QED
          BY <4>1, <4>2, <4>3
      <3> QED
        BY <1>1, <1>6, <3>1, <3>2 DEF Useful, Keeps
    <2>2. \A d \in Bots : d # b => skipped'[d] = skipped[d]
      BY <1>6, <1>parts DEF Config!TypeOK
    <2>3. \A d \in Bots : Keeps(d)
      BY <1>3, <1>6, <2>1, <2>2
    <2> QED
      BY <1>1, <1>6, <2>3, LosingStep
  <1> QED
    BY <1>4, <1>5, <1>6 DEF Config!Mark

LEMMA HandleDrop ==
    ASSUME Config!BotConfigConstants, DropInv, Config!TypeOK', NEW b \in Bots,
           NEW v \in 1..MaxCommits, Config!Handle(b, v)
    PROVE  DropInv'
  <1>parts. Config!TypeOK
    BY DEF DropInv
  <1>1. /\ UNCHANGED <<configRow, queued, handled, skipped, excused, callAt, readRow>>
        /\ entry' = [entry EXCEPT ![b] = NoConfig] /\ overtaken' = overtaken \cup Config!Reading(b)
        /\ \A d \in Bots \ {b} : inbox'[d] = inbox[d] /\ todo'[d] = todo[d]
    BY <1>parts DEF Config!TypeOK, Config!Handle, Config!Invalidate, Config!DropCopy,
                    Config!events
  <1>2. \A d \in Bots \ {b} : Keeps(d) /\ entry'[d] = entry[d]
    BY <1>1, <1>parts DEF Useful, Keeps, Config!TypeOK
  <1>3. entry'[b] = NoConfig /\ \A c \in Config!Calls : c[1] = b /\ callAt[c] = "reply" => c \in overtaken'
    BY <1>1, <1>parts DEF Config!TypeOK, Config!Reading
  <1> QED
    BY <1>1, <1>2, <1>3, LosingStep

LEMMA BotDrop ==
    ASSUME Config!BotConfigConstants, DropInv, Config!TypeOK', NEW b \in Bots,
           Config!Disconnect(b) \/ Config!Crash(b) \/ Config!HandleOther(b)
    PROVE  DropInv'
  <1>parts. Config!TypeOK
    BY DEF DropInv
  <1>1. CASE Config!Disconnect(b)
    <2>1. /\ UNCHANGED <<configRow, queued, handled, skipped, todo, entry, callAt, readRow>>
          /\ \A d \in Bots \ {b} : inbox'[d] = inbox[d]
          /\ excused' = excused \cup {b} /\ overtaken' = overtaken \cup Config!Reading(b)
      BY <1>1, <1>parts DEF Config!TypeOK, Config!Disconnect, Config!Lose, Config!events
    <2>2. \A d \in Bots \ {b} : Keeps(d)
      BY <2>1 DEF Useful, Keeps
    <2> QED
      BY <2>1, <2>2, LosingStep DEF Config!Reading
  <1>2. CASE Config!Crash(b)
    <2>1. /\ UNCHANGED <<configRow, queued, handled, skipped>>
          /\ \A d \in Bots \ {b} : inbox'[d] = inbox[d] /\ todo'[d] = todo[d] /\ entry'[d] = entry[d]
          /\ entry'[b] = NoConfig /\ excused' = excused \ {b}
          /\ \A c \in Config!Calls : IF c[1] = b THEN callAt'[c] = "idle"
                                     ELSE callAt'[c] = callAt[c] /\ readRow'[c] = readRow[c] /\ (c \in overtaken' <=> c \in overtaken)
      BY <1>2, <1>parts DEF Config!TypeOK, Config!Crash, Config!events
    <2>2. \A d \in Bots \ {b} : Keeps(d)
      BY <2>1 DEF Useful, Keeps
    <2> QED
      BY <2>1, <2>2, LosingStep
  <1>3. CASE Config!HandleOther(b)
    <2>1. /\ UNCHANGED <<configRow, queued, handled, skipped, inbox, todo, excused, callAt, readRow, overtaken>>
          /\ entry'[b] = NoConfig /\ \A d \in Bots \ {b} : entry'[d] = entry[d]
      BY <1>3, <1>parts DEF Config!TypeOK, Config!HandleOther, Config!DropCopy, Config!events,
                            Config!calls
    <2>2. \A d \in Bots : Keeps(d)
      BY <2>1 DEF Useful, Keeps
    <2> QED
      BY <2>1, <2>2, LosingStep
  <1> QED
    BY <1>1, <1>2, <1>3

LEMMA CallDrop ==
    ASSUME Config!BotConfigConstants, DropInv, Config!TypeOK',
           NEW c \in Config!Calls, Config!Begin(c) \/ Config!CallFails(c)
    PROVE  DropInv'
  <1>parts. Config!TypeOK
    BY DEF DropInv
  <1>1. /\ UNCHANGED <<configRow, queued, handled, skipped, inbox, todo, entry, excused>>
        /\ \A d \in Config!Calls \ {c} : callAt'[d] = callAt[d] /\ readRow'[d] = readRow[d] /\ (d \in overtaken' <=> d \in overtaken)
        /\ callAt'[c] # "reply"
    BY <1>parts DEF Config!TypeOK, Config!Begin, Config!CallFails, Config!Answer,
                    Config!events, Config!cache
  <1>2. \A b \in Bots : Keeps(b)
    BY <1>1 DEF Useful, Keeps
  <1> QED
    BY <1>1, <1>2, LosingStep

LEMMA QuietDrop ==
    ASSUME Config!BotConfigConstants, DropInv, Config!TypeOK',
           UNCHANGED <<configRow, queued, handled, skipped, inbox, todo, entry, excused, callAt, readRow, overtaken>>
    PROVE  DropInv'
  <1>1. \A b \in Bots : Keeps(b)
    BY DEF Useful, Keeps
  <1> QED
    BY <1>1, LosingStep

LEMMA NextDrop ==
    ASSUME Config!BotConfigConstants
    PROVE  DropInv /\ [Config!Next]_(Config!vars) => DropInv'
  <1> SUFFICES ASSUME DropInv, [Config!Next]_(Config!vars) PROVE DropInv'
    OBVIOUS
  <1>t. Config!TypeOK'
    BY ConfigNext DEF DropInv
  <1>1. ASSUME NEW b \in Bots, Config!Connect(b) \/ Config!CircuitCloses(b) \/ Config!GrowsStale(b) PROVE DropInv'
    BY <1>1, <1>t, QuietDrop DEF Config!Connect, Config!CircuitCloses, Config!GrowsStale,
                                 Config!events, Config!cache, Config!calls
  <1>2. CASE UNCHANGED Config!vars
    BY <1>2, <1>t, QuietDrop DEF Config!vars, Config!events, Config!cache, Config!calls
  <1> QED
    BY <1>1, <1>2, <1>t, CommitDrop, PublishDrop, MarkDrop, HandleDrop, BotDrop, CallDrop,
       ReadDrop, ConfigSteps

\* A copy that is out of date has an event on its way that drops it, save for
\* the two excuses and for an event left to another bot.
THEOREM InvalidationSafe == Config!Spec => []InvalidationReachesBot
  <1>1. DropInv => InvalidationReachesBot
    BY UsefulComes
       DEF DropInv, CopyWillDrop, Told, InvalidationReachesBot, Config!InvalidationReachesBot,
           Config!Outdated, Config!WillBeTold
  <1>2. DropInv /\ [Config!Next]_(Config!vars) => DropInv'
    BY ConfigAssumption, NextDrop
  <1>3. Config!Init => DropInv
    BY ConfigAssumption, InitDrop
  <1> QED
    BY <1>1, <1>2, <1>3, PTL DEF Config!Spec

=============================================================================
