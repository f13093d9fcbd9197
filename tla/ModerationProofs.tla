-------------------------- MODULE ModerationProofs --------------------------
(***************************************************************************)
(* Proofs about Moderation, for any reports, admins and evidence, and about*)
(* ActivityStream, through the instance Stream, for any number of rows and *)
(* of polls that overlap.                                                  *)
(***************************************************************************)
EXTENDS Moderation, StreamView, SequenceTheorems, TLAPS

LEMMA StepCases ==
    ASSUME [Next]_vars
    PROVE  \/ \E r \in Reports : CreatePending(r) \/ CreateInstant(r) \/ DeleteFlag(r)
           \/ \E p \in Procs, r \in Reports :
                CheckApprove(p, r) \/ CheckReject(p, r) \/ Resolve(p, r)
           \/ \E p \in Reporters, r \in Reports, s \in SUBSET Links, n \in Images :
                CheckEvidence(p, r, s, n)
           \/ \E p \in Procs : CommitApprove(p) \/ CommitReject(p)
           \/ \E p \in Reporters : CommitEvidence(p)
           \/ \E x \in Patchers, r \in Reports, status \in TicketStatuses : Patch(r, status)
           \/ \E p \in Procs : ResolveRefused(p) \/ KeyTaken(p) \/ Die(p)
           \/ UNCHANGED vars
  BY DEF Next, Decide, Submit, Procs

RowsOK ==
    /\ report \in [Reports -> ReportStatuses \cup {"none"}]
    /\ flagId \in [Reports -> BOOLEAN]
    /\ flags \in [Reports -> Nat]
    /\ ticket \in [Reports -> TicketStatuses \cup {"none"}]
    /\ links \in [Reports -> SUBSET Links]
    /\ told \in [Reports -> SUBSET Links]
    /\ atRisk \in [Reports -> SUBSET Links]
    /\ byHand \subseteq Reports

LocalOK ==
    /\ pc \in [Procs -> {"idle", "resolve", "approve", "reject", "evidence"}]
    /\ rpt \in [Procs -> Reports \cup {None}]
    /\ snap \in [Procs -> SUBSET Links]
    /\ sent \in [Procs -> SUBSET Links]
    /\ files \in [Procs -> 0 .. MaxFiles]

\* A request at work has a report in hand, and only reporters send evidence.
InHand ==
    \A p \in Procs :
        /\ pc[p] # "idle" => rpt[p] \in Reports
        /\ pc[p] = "evidence" => p \in Reporters

Typed == RowsOK /\ LocalOK /\ InHand /\ faults \in Nat

LEMMA InitTyped == Init => Typed
  <1> SUFFICES ASSUME Init PROVE Typed
    OBVIOUS
  <1>1. RowsOK
    BY DEF Init, RowsOK, ReportStatuses
  <1>2. LocalOK
    BY ModerationAssumption DEF Init, LocalOK
  <1>3. InHand /\ faults \in Nat
    BY DEF Init, InHand
  <1> QED
    BY <1>1, <1>2, <1>3 DEF Typed

LEMMA LeaveTyped ==
    ASSUME LocalOK, InHand, NEW p \in Procs, Leave(p)
    PROVE  LocalOK' /\ InHand'
  BY ModerationAssumption DEF LocalOK, InHand, Leave, Take

LEMMA TakeTyped ==
    ASSUME LocalOK, InHand, NEW p \in Procs, NEW r \in Reports,
           NEW step \in {"resolve", "approve", "reject"},
           Take(p, r, step), UNCHANGED <<snap, sent, files>>
    PROVE  LocalOK' /\ InHand'
  BY DEF LocalOK, InHand, Take

LEMMA FinalizedTyped ==
    ASSUME RowsOK, NEW r \in Reports, NEW status \in TicketStatuses
    PROVE  Finalized(r, status) \in [Reports -> TicketStatuses \cup {"none"}]
  BY DEF RowsOK, Finalized

LEMMA NextTyped == Typed /\ [Next]_vars => Typed'
  <1> SUFFICES ASSUME Typed, [Next]_vars PROVE Typed'
    OBVIOUS
  <1>parts. RowsOK /\ LocalOK /\ InHand /\ faults \in Nat
    BY DEF Typed
  <1>1. ASSUME NEW r \in Reports, CreatePending(r) \/ CreateInstant(r) \/ DeleteFlag(r)
        PROVE  Typed'
    <2>1. LocalOK' /\ InHand' /\ faults' \in Nat
      BY <1>1, <1>parts DEF CreatePending, CreateInstant, DeleteFlag, local, LocalOK, InHand
    <2>2. CASE CreatePending(r)
      BY <1>parts, <2>1, <2>2
         DEF CreatePending, RowsOK, Typed, ReportStatuses, TicketStatuses
    <2>3. CASE CreateInstant(r)
      BY <1>parts, <2>1, <2>3 DEF CreateInstant, RowsOK, Typed, ReportStatuses
    <2>4. CASE DeleteFlag(r)
      BY <1>parts, <2>1, <2>4 DEF DeleteFlag, RowsOK, Typed
    <2> QED
      BY <1>1, <2>2, <2>3, <2>4
  <1>2. ASSUME NEW p \in Procs, NEW r \in Reports,
               CheckApprove(p, r) \/ CheckReject(p, r) \/ Resolve(p, r)
        PROVE  Typed'
    <2>1. LocalOK' /\ InHand'
      BY <1>2, <1>parts, TakeTyped DEF CheckApprove, CheckReject, Resolve
    <2> QED
      BY <1>2, <1>parts, <2>1 DEF CheckApprove, CheckReject, Resolve, rows, RowsOK, Typed
  <1>3. ASSUME NEW p \in Reporters, NEW r \in Reports, NEW s \in SUBSET Links, NEW n \in Images,
               CheckEvidence(p, r, s, n)
        PROVE  Typed'
    <2>1. LocalOK' /\ InHand'
      BY <1>3, <1>parts
         DEF CheckEvidence, Take, LocalOK, InHand, RowsOK, Procs, Images
    <2> QED
      BY <1>3, <1>parts, <2>1 DEF CheckEvidence, rows, RowsOK, Typed
  <1>4. ASSUME NEW p \in Procs, CommitApprove(p)
        PROVE  Typed'
    <2>1. LocalOK' /\ InHand'
      BY <1>4, <1>parts, LeaveTyped DEF CommitApprove
    <2>2. rpt[p] \in Reports
      BY <1>4, <1>parts DEF CommitApprove, InHand
    <2>3. ticket' \in [Reports -> TicketStatuses \cup {"none"}]
      BY <1>4, <1>parts, <2>2, FinalizedTyped DEF CommitApprove, TicketStatuses
    <2> QED
      BY <1>4, <1>parts, <2>1, <2>2, <2>3 DEF CommitApprove, RowsOK, Typed, ReportStatuses
  <1>5. ASSUME NEW p \in Procs, CommitReject(p)
        PROVE  Typed'
    <2>1. LocalOK' /\ InHand'
      BY <1>5, <1>parts, LeaveTyped DEF CommitReject
    <2>2. rpt[p] \in Reports
      BY <1>5, <1>parts DEF CommitReject, InHand
    <2>3. ticket' \in [Reports -> TicketStatuses \cup {"none"}]
      BY <1>5, <1>parts, <2>2, FinalizedTyped DEF CommitReject, TicketStatuses
    <2> QED
      BY <1>5, <1>parts, <2>1, <2>2, <2>3 DEF CommitReject, RowsOK, Typed, ReportStatuses
  <1>6. ASSUME NEW p \in Reporters, CommitEvidence(p)
        PROVE  Typed'
    <2>1. p \in Procs
      BY DEF Procs
    <2>2. LocalOK' /\ InHand'
      BY <1>6, <1>parts, <2>1, LeaveTyped DEF CommitEvidence
    <2>3. rpt[p] \in Reports /\ sent[p] \subseteq Links /\ NextLinks(p) \subseteq Links
      BY <1>6, <1>parts, <2>1 DEF CommitEvidence, InHand, LocalOK, NextLinks
    <2>4. /\ links' \in [Reports -> SUBSET Links] /\ told' \in [Reports -> SUBSET Links]
          /\ atRisk' \in [Reports -> SUBSET Links]
      BY <1>6, <1>parts, <2>3 DEF CommitEvidence, RowsOK
    <2> QED
      BY <1>6, <1>parts, <2>2, <2>3, <2>4 DEF CommitEvidence, RowsOK, Typed, TicketStatuses
  <1>7. ASSUME NEW x \in Patchers, NEW r \in Reports, NEW status \in TicketStatuses,
               Patch(r, status)
        PROVE  Typed'
    BY <1>7, <1>parts, ModerationAssumption DEF Patch, local, RowsOK, LocalOK, InHand, Typed
  <1>8. ASSUME NEW p \in Procs, ResolveRefused(p) \/ KeyTaken(p) \/ Die(p)
        PROVE  Typed'
    <2>1. LocalOK' /\ InHand'
      BY <1>8, <1>parts, LeaveTyped DEF ResolveRefused, KeyTaken, Die
    <2> QED
      BY <1>8, <1>parts, <2>1 DEF ResolveRefused, KeyTaken, Die, rows, RowsOK, Typed
  <1>9. CASE UNCHANGED vars
    BY <1>9, <1>parts DEF vars, rows, local, RowsOK, LocalOK, InHand, Typed
  <1> QED
    BY <1>1, <1>2, <1>3, <1>4, <1>5, <1>6, <1>7, <1>8, <1>9, StepCases

\* Every column and every request's local values keep their types.
THEOREM ModerationTypeOK == Spec => []TypeOK
  <1>1. Typed => TypeOK
    BY DEF Typed, RowsOK, LocalOK, TypeOK
  <1> QED
    BY <1>1, InitTyped, NextTyped, PTL DEF Spec

-----------------------------------------------------------------------------
(* One flag per report: the unique key is what keeps a second approval out. *)

Holds(p, r) == rpt[p] = r /\ pc[p] \in {"resolve", "approve", "reject"}

\* A report in a moderator's hand exists.
HeldExists == \A p \in Procs, r \in Reports : Holds(p, r) => report[r] # "none"

\* A flag not made by an approval was made with the report, which no
\* moderator has ever seen pending.
Counted ==
    \A r \in Reports :
        /\ flags[r] <= 1
        /\ flags[r] = 1 /\ <<"approved", r>> \notin keys =>
              report[r] = "ACCEPTED" /\ \A p \in Procs : ~Holds(p, r)

Linked == \A r \in Reports : flagId[r] <=> flags[r] = 1

LEMMA InitCounted == Init => HeldExists /\ Counted /\ Linked
  <1> SUFFICES ASSUME Init PROVE HeldExists /\ Counted /\ Linked
    OBVIOUS
  <1>1. HeldExists /\ Counted
    BY DEF Init, HeldExists, Counted, Holds
  <1>2. \A r \in Reports : flagId[r] = FALSE /\ flags[r] # 1
    BY DEF Init
  <1> QED
    BY <1>1, <1>2 DEF Linked

\* What a step may do without disturbing Counted.
LEMMA CountedKept ==
    ASSUME Typed, HeldExists, Counted,
           flags' = flags, keys \subseteq keys',
           \A r \in Reports : report'[r] # report[r] => report[r] = "none" /\ report'[r] # "none",
           \A p \in Procs, r \in Reports : Holds(p, r)' => Holds(p, r) \/ report[r] = "PENDING"
    PROVE  HeldExists' /\ Counted'
  <1>1. HeldExists'
    BY DEF HeldExists, Typed, RowsOK
  <1>2. Counted'
    <2> SUFFICES ASSUME NEW r \in Reports
                 PROVE  /\ flags'[r] <= 1
                        /\ flags'[r] = 1 /\ <<"approved", r>> \notin keys' =>
                             report'[r] = "ACCEPTED" /\ \A p \in Procs : ~Holds(p, r)'
      BY DEF Counted
    <2>1. flags'[r] <= 1
      BY DEF Counted
    <2>2. ASSUME flags'[r] = 1, <<"approved", r>> \notin keys'
          PROVE  report'[r] = "ACCEPTED" /\ \A p \in Procs : ~Holds(p, r)'
      <3>1. report[r] = "ACCEPTED" /\ \A p \in Procs : ~Holds(p, r)
        BY <2>2 DEF Counted
      <3>2. report'[r] = report[r]
        BY <3>1
      <3> QED
        BY <3>1, <3>2
    <2> QED
      BY <2>1, <2>2
  <1> QED
    BY <1>1, <1>2

LEMMA LeaveHolds ==
    ASSUME Typed, NEW p \in Procs, Leave(p)
    PROVE  \A q \in Procs, r \in Reports : Holds(q, r)' => q # p /\ Holds(q, r)
  BY ModerationAssumption DEF Typed, LocalOK, Leave, Take, Holds

LEMMA NextCounted ==
    ASSUME Typed, HeldExists, Counted, [Next]_vars
    PROVE  HeldExists' /\ Counted'
  <1>parts. RowsOK /\ LocalOK /\ InHand
    BY DEF Typed
  <1>1. ASSUME NEW r \in Reports, CreatePending(r)
        PROVE  HeldExists' /\ Counted'
    <2>1. \A p \in Procs, q \in Reports : Holds(p, q)' <=> Holds(p, q)
      BY <1>1 DEF CreatePending, local, Holds
    <2>2. \A q \in Reports : report'[q] # report[q] => q = r
      BY <1>1, <1>parts DEF CreatePending, RowsOK
    <2>3. report'[r] = "PENDING" /\ report[r] = "none" /\ flags' = flags /\ keys' = keys
      BY <1>1, <1>parts DEF CreatePending, RowsOK
    <2> QED
      BY <2>1, <2>2, <2>3, CountedKept DEF HeldExists
  <1>2. ASSUME NEW r \in Reports, CreateInstant(r)
        PROVE  HeldExists' /\ Counted'
    <2>1. \A p \in Procs, q \in Reports : Holds(p, q)' <=> Holds(p, q)
      BY <1>2 DEF CreateInstant, local, Holds
    <2>2. /\ report' = [report EXCEPT ![r] = "ACCEPTED"] /\ flags' = [flags EXCEPT ![r] = 1]
          /\ report[r] = "none" /\ keys' = keys
      BY <1>2 DEF CreateInstant
    <2>3. \A p \in Procs : ~Holds(p, r)
      BY <2>2 DEF HeldExists
    <2> QED
      BY <1>parts, <2>1, <2>2, <2>3 DEF HeldExists, Counted, RowsOK
  <1>3. ASSUME NEW r \in Reports, DeleteFlag(r)
        PROVE  HeldExists' /\ Counted'
    <2>1. \A p \in Procs, q \in Reports : Holds(p, q)' <=> Holds(p, q)
      BY <1>3 DEF DeleteFlag, local, Holds
    <2>2. flags' = [flags EXCEPT ![r] = @ - 1] /\ flags[r] > 0 /\ report' = report /\ keys' = keys
      BY <1>3 DEF DeleteFlag
    <2>5. flags[r] \in Nat /\ flags[r] > 0
      BY <1>parts, <2>2 DEF RowsOK
    <2>6. flags[r] <= 1
      BY DEF Counted
    <2>4. flags[r] = 1
      BY <2>5, <2>6
    <2>3. flags'[r] = 0 /\ \A q \in Reports \ {r} : flags'[q] = flags[q]
      BY <1>parts, <2>2, <2>4 DEF RowsOK
    <2> QED
      BY <2>1, <2>2, <2>3 DEF HeldExists, Counted
  <1>4. ASSUME NEW p \in Procs, NEW r \in Reports,
               CheckApprove(p, r) \/ CheckReject(p, r) \/ Resolve(p, r)
        PROVE  HeldExists' /\ Counted'
    <2>1. report[r] = "PENDING" /\ report' = report /\ flags' = flags /\ keys' = keys
      BY <1>4 DEF CheckApprove, CheckReject, Resolve, Pending, rows
    <2>2. \A q \in Procs, s \in Reports : Holds(q, s)' => Holds(q, s) \/ s = r
      BY <1>4, <1>parts DEF CheckApprove, CheckReject, Resolve, Take, Holds, LocalOK
    <2> QED
      BY <2>1, <2>2, CountedKept
  <1>5. ASSUME NEW p \in Reporters, NEW r \in Reports, NEW s \in SUBSET Links, NEW n \in Images,
               CheckEvidence(p, r, s, n)
        PROVE  HeldExists' /\ Counted'
    <2>1. \A q \in Procs, t \in Reports : Holds(q, t)' => Holds(q, t)
      BY <1>5, <1>parts DEF CheckEvidence, Take, Holds, LocalOK
    <2> QED
      BY <1>5, <2>1, CountedKept DEF CheckEvidence, rows
  <1>6. ASSUME NEW p \in Procs, CommitApprove(p)
        PROVE  HeldExists' /\ Counted'
    <2> DEFINE r == rpt[p]
    <2>1. r \in Reports /\ Holds(p, r)
      BY <1>6, <1>parts DEF CommitApprove, InHand, Holds
    <2>2. /\ flags' = [flags EXCEPT ![r] = @ + 1] /\ report' = [report EXCEPT ![r] = "ACCEPTED"]
          /\ keys \subseteq keys' /\ <<"approved", r>> \notin keys /\ <<"approved", r>> \in keys'
      BY <1>6 DEF CommitApprove, ApprovedKeys
    <2>3. \A q \in Procs, t \in Reports : Holds(q, t)' => q # p /\ Holds(q, t)
      BY <1>6, LeaveHolds DEF CommitApprove
    <2>4. flags[r] = 0
      BY <1>parts, <2>1, <2>2 DEF Counted, RowsOK
    <2>5. flags'[r] = 1 /\ \A t \in Reports \ {r} : flags'[t] = flags[t] /\ report'[t] = report[t]
      BY <1>parts, <2>1, <2>2, <2>4 DEF RowsOK
    <2>6. Counted'
      <3> SUFFICES ASSUME NEW t \in Reports
                   PROVE  /\ flags'[t] <= 1
                          /\ flags'[t] = 1 /\ <<"approved", t>> \notin keys' =>
                               report'[t] = "ACCEPTED" /\ \A q \in Procs : ~Holds(q, t)'
        BY DEF Counted
      <3>1. CASE t = r
        BY <2>2, <2>5, <3>1
      <3>2. CASE t # r
        BY <2>2, <2>3, <2>5, <3>2 DEF Counted
      <3> QED
        BY <3>1, <3>2
    <2>7. HeldExists'
      BY <1>parts, <2>1, <2>2, <2>3 DEF HeldExists, RowsOK
    <2> QED
      BY <2>6, <2>7
  <1>7. ASSUME NEW p \in Procs, CommitReject(p)
        PROVE  HeldExists' /\ Counted'
    <2> DEFINE r == rpt[p]
    <2>1. r \in Reports /\ Holds(p, r)
      BY <1>7, <1>parts DEF CommitReject, InHand, Holds
    <2>2. report' = [report EXCEPT ![r] = "REJECTED"] /\ keys \subseteq keys' /\ flags' = flags
      BY <1>7 DEF CommitReject
    <2>3. \A q \in Procs, t \in Reports : Holds(q, t)' => q # p /\ Holds(q, t)
      BY <1>7, LeaveHolds DEF CommitReject
    <2>4. \A t \in Reports \ {r} : report'[t] = report[t]
      BY <1>parts, <2>2 DEF RowsOK
    <2>5. Counted'
      BY <2>1, <2>2, <2>3, <2>4 DEF Counted
    <2>6. HeldExists'
      BY <1>parts, <2>1, <2>2, <2>3 DEF HeldExists, RowsOK
    <2> QED
      BY <2>5, <2>6
  <1>8. ASSUME NEW p \in Reporters, CommitEvidence(p)
        PROVE  HeldExists' /\ Counted'
    <2>1. \A q \in Procs, t \in Reports : Holds(q, t)' => Holds(q, t)
      BY <1>8, LeaveHolds DEF CommitEvidence, Procs
    <2> QED
      BY <1>8, <2>1, CountedKept DEF CommitEvidence
  <1>9. ASSUME NEW x \in Patchers, NEW r \in Reports, NEW status \in TicketStatuses,
               Patch(r, status)
        PROVE  HeldExists' /\ Counted'
    <2>1. \A q \in Procs, t \in Reports : Holds(q, t)' => Holds(q, t)
      BY <1>9 DEF Patch, local, Holds
    <2> QED
      BY <1>9, <2>1, CountedKept DEF Patch
  <1>10. ASSUME NEW p \in Procs, ResolveRefused(p) \/ KeyTaken(p) \/ Die(p)
         PROVE  HeldExists' /\ Counted'
    <2>1. \A q \in Procs, t \in Reports : Holds(q, t)' => Holds(q, t)
      BY <1>10, LeaveHolds DEF ResolveRefused, KeyTaken, Die
    <2>2. report' = report /\ flags' = flags /\ keys' = keys
      BY <1>10 DEF ResolveRefused, KeyTaken, Die, rows
    <2> QED
      BY <2>1, <2>2, CountedKept
  <1>11. CASE UNCHANGED vars
    BY <1>11 DEF vars, rows, local, HeldExists, Counted, Holds
  <1> QED
    BY <1>1, <1>2, <1>3, <1>4, <1>5, <1>6, <1>7, <1>8, <1>9, <1>10, <1>11, StepCases

\* The report names a flag exactly while there is one.
LEMMA NextLinked ==
    ASSUME Typed, Counted, HeldExists, Linked, [Next]_vars
    PROVE  Linked'
  <1>parts. RowsOK /\ LocalOK /\ InHand
    BY DEF Typed
  <1>1. ASSUME NEW r \in Reports, CreateInstant(r)
        PROVE  Linked'
    <2>1. ASSUME NEW q \in Reports, q # r PROVE flagId'[q] = flagId[q] /\ flags'[q] = flags[q]
      BY <1>1, <1>parts, <2>1 DEF CreateInstant, RowsOK
    <2>2. flagId'[r] = TRUE
      BY <1>1, <1>parts DEF CreateInstant, RowsOK
    <2>3. flags'[r] = 1
      BY <1>1, <1>parts DEF CreateInstant, RowsOK
    <2> QED
      BY <2>1, <2>2, <2>3 DEF Linked
  <1>2. ASSUME NEW r \in Reports, DeleteFlag(r)
        PROVE  Linked'
    <2>1. ASSUME NEW q \in Reports, q # r PROVE flagId'[q] = flagId[q] /\ flags'[q] = flags[q]
      BY <1>2, <1>parts, <2>1 DEF DeleteFlag, RowsOK
    <2>2. flagId'[r] = FALSE
      BY <1>2, <1>parts DEF DeleteFlag, RowsOK
    <2>5. flags[r] \in Nat /\ flags[r] > 0
      BY <1>2, <1>parts DEF DeleteFlag, RowsOK
    <2>6. flags[r] <= 1
      BY DEF Counted
    <2>4. flags[r] = 1
      BY <2>5, <2>6
    <2>3. flags'[r] = 0
      BY <1>2, <1>parts, <2>4 DEF DeleteFlag, RowsOK
    <2> QED
      BY <2>1, <2>2, <2>3 DEF Linked
  <1>3. ASSUME NEW p \in Procs, CommitApprove(p)
        PROVE  Linked'
    <2> DEFINE r == rpt[p]
    <2>1. r \in Reports /\ Holds(p, r)
      BY <1>3, <1>parts DEF CommitApprove, InHand, Holds
    <2>2. flags' = [flags EXCEPT ![r] = @ + 1] /\ flagId' = [flagId EXCEPT ![r] = TRUE]
      BY <1>3 DEF CommitApprove
    <2>3. <<"approved", r>> \notin keys
      BY <1>3 DEF CommitApprove, ApprovedKeys
    <2>4. flags[r] = 0
      BY <1>parts, <2>1, <2>3 DEF Counted, RowsOK
    <2>5. flags'[r] = 1
      BY <1>parts, <2>1, <2>2, <2>4 DEF RowsOK
    <2>6. flagId'[r] = TRUE
      BY <1>parts, <2>1, <2>2 DEF RowsOK
    <2>7. ASSUME NEW q \in Reports, q # r PROVE flagId'[q] = flagId[q] /\ flags'[q] = flags[q]
      BY <1>parts, <2>1, <2>2, <2>7 DEF RowsOK
    <2> QED
      BY <2>5, <2>6, <2>7 DEF Linked
  <1>4. UNCHANGED <<flags, flagId>> => Linked'
    BY DEF Linked
  <1>5. \/ \E r \in Reports : CreateInstant(r) \/ DeleteFlag(r)
        \/ \E p \in Procs : CommitApprove(p)
        \/ UNCHANGED <<flags, flagId>>
    BY StepCases
       DEF CreatePending, CheckApprove, CheckReject, Resolve, CheckEvidence, CommitReject,
           CommitEvidence, Patch, ResolveRefused, KeyTaken, Die, rows, vars
  <1> QED
    BY <1>1, <1>2, <1>3, <1>4, <1>5

\* Any number of admins approving, rejecting and resolving make at most one
\* flag of a report.
THEOREM OneFlagSafe == Spec => []OneFlagPerReport
  <1> DEFINE I == Typed /\ HeldExists /\ Counted /\ Linked
  <1>1. Init => I
    BY InitTyped, InitCounted
  <1>2. I /\ [Next]_vars => I'
    BY NextTyped, NextCounted, NextLinked
  <1>3. I => OneFlagPerReport
    BY DEF Counted, Linked, OneFlagPerReport
  <1> QED
    BY <1>1, <1>2, <1>3, PTL DEF Spec

-----------------------------------------------------------------------------
(* Tickets and evidence.                                                   *)

Closed == {"RESOLVED", "REJECTED"}

Decides(p, status) ==
    \/ status = "RESOLVED" /\ CommitApprove(p)
    \/ status = "REJECTED" /\ CommitReject(p)

\* A ticket, and the ticket in the hand of a reporter, has its report.
TicketHasReport ==
    /\ \A r \in Reports : report[r] = "none" => ticket[r] = "none"
    /\ \A q \in Reporters : pc[q] = "evidence" => report[rpt[q]] # "none"

\* Steps that leave the rows alone and take up no evidence.
LEMMA ClosedKept ==
    ASSUME TicketHasReport, ClosedTicketAgrees, UNCHANGED <<report, ticket, byHand>>,
           \A q \in Reporters : pc'[q] = "evidence" => pc[q] = "evidence" /\ rpt'[q] = rpt[q]
    PROVE  TicketHasReport' /\ ClosedTicketAgrees'
  BY DEF TicketHasReport, ClosedTicketAgrees

\* A decision is the only step that closes a ticket, and it says which.
LEMMA NextClosed ==
    ASSUME Typed, TicketHasReport, ClosedTicketAgrees, [Next]_vars
    PROVE  TicketHasReport' /\ ClosedTicketAgrees'
  <1>parts. RowsOK /\ LocalOK /\ InHand
    BY DEF Typed
  <1>leave. ASSUME NEW p \in Procs, Leave(p), NEW q \in Reporters, pc'[q] = "evidence"
            PROVE  pc[q] = "evidence" /\ rpt'[q] = rpt[q]
    BY <1>leave, <1>parts DEF Leave, Take, LocalOK, Procs
  <1>1. ASSUME NEW r \in Reports, CreatePending(r) \/ CreateInstant(r)
        PROVE  TicketHasReport' /\ ClosedTicketAgrees'
    BY <1>1, <1>parts
       DEF CreatePending, CreateInstant, local, RowsOK, InHand, Procs, TicketHasReport,
           ClosedTicketAgrees
  <1>2. ASSUME NEW p \in Procs, NEW status \in Closed, Decides(p, status)
        PROVE  TicketHasReport' /\ ClosedTicketAgrees'
    <2> DEFINE r == rpt[p]
    <2>1. /\ r \in Reports /\ Leave(p) /\ ticket' = Finalized(r, status)
          /\ byHand' = byHand \ {r}
      BY <1>2, <1>parts DEF Decides, CommitApprove, CommitReject, InHand
    <2>2. report' = [report EXCEPT ![r] = IF status = "RESOLVED" THEN "ACCEPTED" ELSE "REJECTED"]
      BY <1>2 DEF Decides, CommitApprove, CommitReject
    <2>3. ticket'[r] \in {"none", status} /\ \A t \in Reports \ {r} : ticket'[t] = ticket[t]
      BY <1>parts, <2>1 DEF Finalized, RowsOK
    <2>4. report'[r] = (IF status = "RESOLVED" THEN "ACCEPTED" ELSE "REJECTED")
          /\ \A t \in Reports \ {r} : report'[t] = report[t]
      BY <1>parts, <2>1, <2>2 DEF RowsOK
    <2>5. ClosedTicketAgrees'
      BY <1>2, <2>1, <2>3, <2>4 DEF ClosedTicketAgrees, Closed
    <2>6. \A q \in Reporters : pc'[q] = "evidence" => report'[rpt'[q]] # "none"
      BY <1>leave, <1>parts, <2>1, <2>4 DEF TicketHasReport, InHand, Procs
    <2>7. \A t \in Reports : report'[t] = "none" => ticket'[t] = "none"
      BY <2>1, <2>3, <2>4 DEF TicketHasReport
    <2> QED
      BY <2>5, <2>6, <2>7 DEF TicketHasReport
  <1>3. ASSUME NEW x \in Patchers, NEW r \in Reports, NEW status \in TicketStatuses,
               Patch(r, status)
        PROVE  TicketHasReport' /\ ClosedTicketAgrees'
    <2>1. /\ ticket' = [ticket EXCEPT ![r] = status] /\ ticket[r] # "none"
          /\ byHand' = byHand \cup {r} /\ UNCHANGED <<report, pc, rpt>>
      BY <1>3 DEF Patch, local
    <2>2. ticket'[r] = status /\ \A t \in Reports \ {r} : ticket'[t] = ticket[t]
      BY <1>parts, <2>1 DEF RowsOK
    <2> QED
      BY <2>1, <2>2 DEF TicketHasReport, ClosedTicketAgrees
  <1>4. ASSUME NEW p \in Reporters, NEW r \in Reports, NEW s \in SUBSET Links, NEW n \in Images,
               CheckEvidence(p, r, s, n)
        PROVE  TicketHasReport' /\ ClosedTicketAgrees'
    <2>1. UNCHANGED <<report, ticket, byHand>> /\ ticket[r] # "none"
      BY <1>4 DEF CheckEvidence, rows
    <2>2. \A q \in Reporters : pc'[q] = "evidence" =>
             rpt'[q] = r \/ (pc[q] = "evidence" /\ rpt'[q] = rpt[q])
      <3>1. pc' = [pc EXCEPT ![p] = "evidence"] /\ rpt' = [rpt EXCEPT ![p] = r]
        BY <1>4 DEF CheckEvidence, Take
      <3>2. DOMAIN pc = Procs /\ DOMAIN rpt = Procs /\ Reporters \subseteq Procs
        BY <1>parts DEF LocalOK, Procs
      <3> SUFFICES ASSUME NEW q \in Reporters, pc'[q] = "evidence"
                   PROVE  rpt'[q] = r \/ (pc[q] = "evidence" /\ rpt'[q] = rpt[q])
        OBVIOUS
      <3>3. CASE q = p
        <4>1. p \in DOMAIN rpt
          BY <3>2
        <4>2. rpt'[p] = r
          BY <3>1, <4>1
        <4> QED
          BY <3>3, <4>2
      <3>4. CASE q # p
        BY <3>1, <3>2, <3>4
      <3> QED
        BY <3>3, <3>4
    <2> QED
      BY <2>1, <2>2 DEF TicketHasReport, ClosedTicketAgrees
  <1>5. ASSUME NEW p \in Reporters, CommitEvidence(p)
        PROVE  TicketHasReport' /\ ClosedTicketAgrees'
    <2>1. p \in Procs /\ rpt[p] \in Reports /\ Leave(p) /\ report' = report
          /\ ticket' = [ticket EXCEPT ![rpt[p]] = "EVIDENCE_SUBMITTED"]
          /\ byHand' = byHand \ {rpt[p]} /\ report[rpt[p]] # "none"
      BY <1>5, <1>parts DEF CommitEvidence, InHand, Procs, TicketHasReport
    <2> QED
      BY <1>leave, <1>parts, <2>1 DEF RowsOK, TicketHasReport, ClosedTicketAgrees
  <1>6. ASSUME NEW p \in Procs, NEW r \in Reports,
               CheckApprove(p, r) \/ CheckReject(p, r) \/ Resolve(p, r)
        PROVE  TicketHasReport' /\ ClosedTicketAgrees'
    <2>1. UNCHANGED <<report, ticket, byHand>>
      BY <1>6 DEF CheckApprove, CheckReject, Resolve, rows
    <2>2. \A q \in Reporters : pc'[q] = "evidence" => pc[q] = "evidence" /\ rpt'[q] = rpt[q]
      BY <1>6, <1>parts DEF CheckApprove, CheckReject, Resolve, Take, LocalOK, Procs
    <2> QED
      BY <2>1, <2>2, ClosedKept
  <1>7. ASSUME NEW p \in Procs, ResolveRefused(p) \/ KeyTaken(p) \/ Die(p)
        PROVE  TicketHasReport' /\ ClosedTicketAgrees'
    <2>1. Leave(p) /\ UNCHANGED <<report, ticket, byHand>>
      BY <1>7 DEF ResolveRefused, KeyTaken, Die, rows
    <2> QED
      BY <1>leave, <2>1, ClosedKept
  <1>8. ASSUME NEW r \in Reports, DeleteFlag(r)
        PROVE  TicketHasReport' /\ ClosedTicketAgrees'
    BY <1>8, ClosedKept DEF DeleteFlag, local
  <1>9. CASE UNCHANGED vars
    BY <1>9, ClosedKept DEF vars, rows, local
  <1>10. ASSUME NEW p \in Procs, CommitApprove(p) \/ CommitReject(p)
         PROVE  TicketHasReport' /\ ClosedTicketAgrees'
    <2>1. \E status \in Closed : Decides(p, status)
      BY <1>10 DEF Closed, Decides
    <2> QED
      BY <1>2, <2>1
  <1> QED
    BY <1>1, <1>3, <1>4, <1>5, <1>6, <1>7, <1>8, <1>9, <1>10, StepCases

\* However approvals, rejections, evidence and admins who set statuses race, a
\* ticket that a decision closed says what its report says, until its status is
\* set by hand.
THEOREM ClosedTicketSafe == Spec => []ClosedTicketAgrees
  <1> DEFINE I == Typed /\ TicketHasReport /\ ClosedTicketAgrees
  <1>1. Init => I
    <2>1. Init => TicketHasReport
      BY DEF Init, TicketHasReport, Procs
    <2>2. Init => ClosedTicketAgrees
      BY DEF Init, ClosedTicketAgrees
    <2> QED
      BY <2>1, <2>2, InitTyped
  <1>2. I /\ [Next]_vars => I'
    BY NextTyped, NextClosed
  <1> QED
    BY <1>1, <1>2, PTL DEF Spec

-----------------------------------------------------------------------------
(* Evidence                                                                *)

\* What a submission has not read and was acknowledged is at risk, unless the
\* submission is going to be refused.
SnapShort ==
    \A q \in Reporters : pc[q] = "evidence" =>
        \/ told[rpt[q]] \ snap[q] \subseteq atRisk[rpt[q]]
        \/ EvidenceKey(q) \in keys

EvidenceInv == SnapShort /\ NoEvidenceLost

\* Steps that take up no evidence and write none.
LEMMA EvidenceStays ==
    ASSUME EvidenceInv, UNCHANGED <<links, told, atRisk>>, keys \subseteq keys',
           \A q \in Reporters : pc'[q] = "evidence" =>
              /\ pc[q] = "evidence" /\ rpt'[q] = rpt[q] /\ snap'[q] = snap[q]
              /\ sent'[q] = sent[q] /\ files'[q] = files[q]
    PROVE  EvidenceInv'
  BY DEF EvidenceInv, SnapShort, NoEvidenceLost, EvidenceKey, NextLinks

LEMMA NextEvidence ==
    ASSUME Typed, EvidenceInv, [Next]_vars
    PROVE  EvidenceInv'
  <1>parts. RowsOK /\ LocalOK /\ InHand /\ SnapShort /\ NoEvidenceLost
    BY DEF Typed, EvidenceInv
  <1>leave. ASSUME NEW p \in Procs, Leave(p), NEW q \in Reporters, pc'[q] = "evidence"
            PROVE  /\ q # p /\ pc[q] = "evidence" /\ rpt'[q] = rpt[q] /\ snap'[q] = snap[q]
                   /\ sent'[q] = sent[q] /\ files'[q] = files[q]
    BY <1>leave, <1>parts DEF Leave, Take, LocalOK, Procs
  <1>1. ASSUME NEW p \in Reporters, NEW r \in Reports, NEW s \in SUBSET Links, NEW n \in Images,
               CheckEvidence(p, r, s, n)
        PROVE  EvidenceInv'
    <2>1. /\ snap'[p] = links[r] /\ rpt'[p] = r /\ UNCHANGED <<links, told, atRisk, keys>>
      BY <1>1, <1>parts DEF CheckEvidence, Take, rows, LocalOK, Procs
    <2>2. \A q \in Reporters \ {p} :
             /\ pc'[q] = pc[q] /\ rpt'[q] = rpt[q] /\ snap'[q] = snap[q]
             /\ sent'[q] = sent[q] /\ files'[q] = files[q]
      BY <1>1, <1>parts DEF CheckEvidence, Take, LocalOK, Procs
    <2>3. told'[rpt'[p]] \ snap'[p] \subseteq atRisk'[rpt'[p]]
      BY <1>parts, <2>1 DEF NoEvidenceLost
    <2>4. ASSUME NEW q \in Reporters, q # p, pc'[q] = "evidence"
          PROVE  \/ told'[rpt'[q]] \ snap'[q] \subseteq atRisk'[rpt'[q]]
                 \/ EvidenceKey(q)' \in keys'
      <3>1. EvidenceKey(q)' = EvidenceKey(q)
        BY <2>2, <2>4 DEF EvidenceKey, NextLinks
      <3> QED
        BY <1>parts, <2>1, <2>2, <2>4, <3>1 DEF SnapShort
    <2>5. SnapShort'
      BY <2>3, <2>4 DEF SnapShort
    <2> QED
      BY <1>parts, <2>1, <2>5 DEF EvidenceInv, NoEvidenceLost
  <1>2. ASSUME NEW p \in Reporters, CommitEvidence(p)
        PROVE  EvidenceInv'
    <2> DEFINE r == rpt[p]
    <2>1. /\ p \in Procs /\ r \in Reports /\ pc[p] = "evidence" /\ Leave(p)
          /\ EvidenceKey(p) \notin keys /\ keys' = keys \cup {EvidenceKey(p)}
      BY <1>2, <1>parts DEF CommitEvidence, InHand, Procs
    <2>2. /\ links'[r] = snap[p] \cup sent[p] /\ told'[r] = told[r] \cup sent[p]
          /\ \A t \in Reports \ {r} : links'[t] = links[t] /\ told'[t] = told[t]
      BY <1>2, <1>parts, <2>1 DEF CommitEvidence, NextLinks, RowsOK
    <2>3. /\ atRisk[r] \subseteq atRisk'[r]
          /\ Overtakes(p) => sent[p] \subseteq atRisk'[r]
          /\ \A t \in Reports \ {r} : atRisk'[t] = atRisk[t]
      BY <1>2, <1>parts, <2>1 DEF CommitEvidence, RowsOK
    <2>4. NoEvidenceLost'
      <3>1. told[r] \ snap[p] \subseteq atRisk[r]
        BY <1>parts, <2>1 DEF SnapShort
      <3>2. told'[r] \ links'[r] \subseteq atRisk'[r]
        BY <2>2, <2>3, <3>1
      <3> QED
        BY <1>parts, <2>2, <2>3, <3>2 DEF NoEvidenceLost
    <2>5. ASSUME NEW q \in Reporters, pc'[q] = "evidence"
          PROVE  \/ told'[rpt'[q]] \ snap'[q] \subseteq atRisk'[rpt'[q]]
                 \/ EvidenceKey(q)' \in keys'
      <3>1. /\ q # p /\ pc[q] = "evidence" /\ rpt'[q] = rpt[q] /\ snap'[q] = snap[q]
            /\ sent'[q] = sent[q] /\ files'[q] = files[q]
        BY <1>leave, <2>1, <2>5
      <3>2. EvidenceKey(q)' = EvidenceKey(q) /\ rpt[q] \in Reports
        BY <1>parts, <3>1 DEF EvidenceKey, NextLinks, InHand, Procs
      <3>3. CASE EvidenceKey(q) \in keys \cup {EvidenceKey(p)}
        BY <2>1, <3>2, <3>3
      <3>4. CASE EvidenceKey(q) \notin keys \cup {EvidenceKey(p)} /\ rpt[q] = r
        <4>1. told[r] \ snap[q] \subseteq atRisk[r]
          BY <1>parts, <3>1, <3>4 DEF SnapShort
        <4>2. Overtakes(p)
          BY <3>1, <3>4 DEF Overtakes
        <4> QED
          BY <2>2, <2>3, <3>1, <3>4, <4>1, <4>2
      <3>5. CASE EvidenceKey(q) \notin keys \cup {EvidenceKey(p)} /\ rpt[q] # r
        <4>1. told[rpt[q]] \ snap[q] \subseteq atRisk[rpt[q]]
          BY <1>parts, <3>1, <3>5 DEF SnapShort
        <4> QED
          BY <2>2, <2>3, <3>1, <3>2, <3>5, <4>1
      <3> QED
        BY <3>3, <3>4, <3>5
    <2> QED
      BY <2>4, <2>5 DEF EvidenceInv, SnapShort
  <1>5. ASSUME NEW p \in Procs,
               \/ CommitApprove(p) \/ CommitReject(p)
               \/ ResolveRefused(p) \/ KeyTaken(p) \/ Die(p)
        PROVE  EvidenceInv'
    <2>1. Leave(p) /\ UNCHANGED <<links, told, atRisk>> /\ keys \subseteq keys'
      BY <1>5 DEF CommitApprove, CommitReject, ResolveRefused, KeyTaken, Die, rows
    <2> QED
      BY <1>leave, <2>1, EvidenceStays
  <1>6. ASSUME NEW p \in Procs, NEW r \in Reports,
               CheckApprove(p, r) \/ CheckReject(p, r) \/ Resolve(p, r)
        PROVE  EvidenceInv'
    <2>1. UNCHANGED <<links, told, atRisk, keys, snap, sent, files>>
      BY <1>6 DEF CheckApprove, CheckReject, Resolve, rows
    <2>2. \A q \in Reporters : pc'[q] = "evidence" => pc[q] = "evidence" /\ rpt'[q] = rpt[q]
      BY <1>6, <1>parts DEF CheckApprove, CheckReject, Resolve, Take, LocalOK, Procs
    <2> QED
      BY <2>1, <2>2, EvidenceStays
  <1>7. ASSUME NEW r \in Reports, CreatePending(r) \/ CreateInstant(r) \/ DeleteFlag(r)
        PROVE  EvidenceInv'
    BY <1>7, EvidenceStays DEF CreatePending, CreateInstant, DeleteFlag, local
  <1>8. ASSUME NEW r \in Reports, NEW status \in TicketStatuses, Patch(r, status)
        PROVE  EvidenceInv'
    BY <1>8, EvidenceStays DEF Patch, local
  <1>9. CASE UNCHANGED vars
    BY <1>9, EvidenceStays DEF vars, rows, local
  <1> QED
    BY <1>1, <1>2, <1>5, <1>6, <1>7, <1>8, <1>9, StepCases

\* Any number of submissions that overlap: a link that was acknowledged is lost
\* only if another submission for its ticket was under way then.
THEOREM EvidenceSafe == Spec => []NoEvidenceLost
  <1> DEFINE I == Typed /\ EvidenceInv
  <1>1. Init => I
    BY InitTyped DEF Init, EvidenceInv, SnapShort, NoEvidenceLost, Procs
  <1>2. I /\ [Next]_vars => I'
    BY NextTyped, NextEvidence
  <1>3. I => NoEvidenceLost
    BY DEF EvidenceInv
  <1> QED
    BY <1>1, <1>2, <1>3, PTL DEF Spec

-----------------------------------------------------------------------------
(***************************************************************************)
(* ActivityStream, as StreamView names it.                                 *)
(***************************************************************************)

OnWire(r) == \E i \in DOMAIN wire : wire[i] = r

IsItem(p, r) == \E i \in DOMAIN items[p] : items[p][i] = r

\* What the stream has brought, and what the page knows.
Got(r)   == OnWire(r) \/ r \in seen \ initial
Known(r) == OnWire(r) \/ r \in seen

\* A row that the stream owes to the page.
Owed(r) == r \in committed \ overtaken /\ stamp[r] > from /\ ~Known(r)

\* Before the stream is open nothing has gone through it.
NotYetOpen ==
    stream \in {"unloaded", "loaded"} =>
        wire = <<>> /\ seen = initial /\ \A p \in Polls : ppc[p] = "idle"

\* Everything on the way is committed and was stamped after the stream's start.
SourcesOK ==
    /\ seen \subseteq committed /\ initial \subseteq seen
    /\ \A r \in Stream!Ids : Got(r) => r \in committed /\ stamp[r] <= newest
    /\ \A r \in committed : stamp[r] # NoStamp
    /\ \A i \in DOMAIN wire : stamp[wire[i]] > from
    /\ \A p \in Polls : \A r \in Stream!Ids :
         IsItem(p, r) => r \in committed /\ stamp[r] <= newest /\ stamp[r] > from

\* Where polls begin: no earlier than the stream, no later than has been read.
StartsOK ==
    /\ stream = "open" => watermark >= from /\ (watermark > from => watermark <= newest)
    /\ \A p \in Polls : ppc[p] # "idle" =>
         /\ since[p] \in Int /\ since[p] >= from /\ (since[p] > from => since[p] <= newest)
         /\ ppc[p] = "read" => Stream!ReadUpTo(items[p], since[p]) <= newest
    /\ \A p \in Polls : ppc[p] # "read" => items[p] = <<>>

\* What is owed lies ahead of every poll, and of all that was brought.
OwedIsAhead ==
    stream = "open" =>
        \A r \in Stream!Ids : Owed(r) =>
            /\ stamp[r] > watermark
            /\ \A x \in Stream!Ids : Got(x) => stamp[x] < stamp[r]
            /\ \A p \in Polls :
                 /\ ppc[p] # "idle" => stamp[r] > since[p]
                 /\ ~IsItem(p, r) => \A x \in Stream!Ids : IsItem(p, x) => stamp[x] < stamp[r]

\* The page's rows it knows, each once; rows of a poll are in order.
WireInOrder ==
    \A i, j \in DOMAIN wire : i < j =>
        \/ wire[j] \in seen \cup overtaken \/ \E k \in 1 .. j - 1 : wire[k] = wire[j]
        \/ stamp[wire[i]] <= stamp[wire[j]]

RowsBeforeWire ==
    \A i \in DOMAIN shown, j \in DOMAIN wire :
        \/ shown[i] \in initial
        \/ wire[j] \in seen \cup overtaken \/ \E k \in 1 .. j - 1 : wire[k] = wire[j]
        \/ stamp[shown[i]] <= stamp[wire[j]]

ItemsInOrder ==
    \A p \in Polls : \A i, j \in DOMAIN items[p] :
        i < j => items[p][i] # items[p][j] /\ stamp[items[p][i]] <= stamp[items[p][j]]

RowsSeen == \A i \in DOMAIN shown : shown[i] \in seen

StreamInv ==
    /\ Stream!TypeOK /\ NotYetOpen /\ SourcesOK /\ StartsOK /\ OwedIsAhead
    /\ WireInOrder /\ RowsBeforeWire /\ ItemsInOrder
    /\ Stream!FeedIsInOrder /\ RowsSeen

LEMMA StreamInit ==
    ASSUME Stream!ActivityStreamConstants, Stream!Init
    PROVE  StreamInv
  <1>1. Stream!TypeOK
    BY DEF Stream!ActivityStreamConstants, Stream!Init, Stream!TypeOK, Stream!Ids
  <1>2. NotYetOpen /\ SourcesOK /\ StartsOK
    BY DEF Stream!Init, NotYetOpen, SourcesOK, StartsOK, Got, OnWire, IsItem
  <1>3. OwedIsAhead /\ WireInOrder /\ RowsBeforeWire /\ ItemsInOrder /\ Stream!FeedIsInOrder
    BY DEF Stream!Init, OwedIsAhead, WireInOrder, RowsBeforeWire, ItemsInOrder,
           Stream!FeedIsInOrder
  <1>4. RowsSeen
    BY DEF Stream!Init, RowsSeen
  <1> QED
    BY <1>1, <1>2, <1>3, <1>4 DEF StreamInv

\* A page of rows is a sequence of them.
LEMMA PagesAreSeqs ==
    ASSUME Stream!ActivityStreamConstants, NEW S, S \subseteq Stream!Ids, NEW s \in Stream!Pages(S)
    PROVE  s \in Seq(Stream!Ids) /\ \A i \in DOMAIN s : s[i] \in S
  <1>1. PICK n \in 0 .. PageSize : s \in [1 .. n -> S]
    BY DEF Stream!Pages
  <1> QED
    BY <1>1 DEF Stream!ActivityStreamConstants

\* The newest rows are a sequence of them, none twice.
LEMMA ListingsAreSeqs ==
    ASSUME Stream!ActivityStreamConstants, Stream!TypeOK, NEW s \in Stream!Listings(Recent)
    PROVE  /\ s \in Seq(Stream!Ids) /\ \A i \in DOMAIN s : s[i] \in committed
           /\ \A i, j \in DOMAIN s : i < j => s[i] # s[j]
  <1>1. PICK n \in 0 .. Recent : s \in [1 .. n -> committed]
    BY DEF Stream!Listings
  <1>2. s \in Seq(Stream!Ids) /\ \A i \in DOMAIN s : s[i] \in committed
    BY <1>1 DEF Stream!ActivityStreamConstants, Stream!TypeOK
  <1> QED
    BY <1>2 DEF Stream!Listings

\* A row on top of the others, the last of which may fall off.
LEMMA MergedRows ==
    ASSUME Stream!ActivityStreamConstants, shown \in Seq(Stream!Ids), NEW r \in Stream!Ids
    PROVE  /\ Stream!Merged(r) \in Seq(Stream!Ids)
           /\ Len(Stream!Merged(r)) <= Len(shown) + 1
           /\ Len(Stream!Merged(r)) >= 1 => Stream!Merged(r)[1] = r
           /\ \A i \in 2 .. Len(Stream!Merged(r)) : Stream!Merged(r)[i] = shown[i - 1]
  <1> DEFINE m == <<r>> \o shown
             n == IF Len(m) < Kept THEN Len(m) ELSE Kept
  <1>1. /\ m \in Seq(Stream!Ids) /\ Len(m) = Len(shown) + 1 /\ m[1] = r
        /\ \A i \in 2 .. Len(m) : m[i] = shown[i - 1]
    OBVIOUS
  <1>2. n \in 0 .. Len(m)
    BY <1>1 DEF Stream!ActivityStreamConstants
  <1> HIDE DEF m, n
  <1>3. /\ SubSeq(m, 1, n) \in Seq(Stream!Ids) /\ Len(SubSeq(m, 1, n)) = n
        /\ \A i \in 1 .. n : SubSeq(m, 1, n)[i] = m[i]
    BY <1>1, <1>2
  <1>4. Stream!Merged(r) = SubSeq(m, 1, n)
    BY DEF Stream!Merged, m, n
  <1> QED
    BY <1>1, <1>2, <1>3, <1>4

\* A poll's watermark is a time, whether or not it read a row.
LEMMA StreamTypeOK ==
    ASSUME Stream!ActivityStreamConstants, Stream!TypeOK, SourcesOK, StartsOK,
           [Stream!Next]_(Stream!vars)
    PROVE  Stream!TypeOK'
  <1> USE DEF Stream!TypeOK, Stream!audit, Stream!api, Stream!page, Stream!ghost
  <1>1. CASE Stream!Tick \/ Stream!Close
    BY <1>1 DEF Stream!Tick, Stream!Close, Stream!ActivityStreamConstants
  <1>2. CASE Stream!LoadPage
    <2>1. shown' \in Seq(Stream!Ids) /\ \A i \in DOMAIN shown' : shown'[i] \in committed
      BY <1>2, ListingsAreSeqs DEF Stream!LoadPage
    <2>2. initial' = {shown'[i] : i \in DOMAIN shown'} /\ seen' = initial'
      BY <1>2 DEF Stream!LoadPage
    <2>3. initial' \subseteq Stream!Ids
      BY <2>1, <2>2
    <2> QED
      BY <1>2, <2>1, <2>2, <2>3 DEF Stream!LoadPage
  <1>3. CASE Stream!Open
    BY <1>3 DEF Stream!Open, Stream!ActivityStreamConstants
  <1>4. CASE Stream!Receive
    <2>1. Tail(wire) \in Seq(Stream!Ids) /\ Head(wire) \in Stream!Ids
      BY <1>4 DEF Stream!Receive
    <2>2. CASE Head(wire) \in seen
      BY <1>4, <2>1, <2>2 DEF Stream!Receive
    <2>3. CASE Head(wire) \notin seen
      BY <1>4, <2>1, <2>3, MergedRows DEF Stream!Receive
    <2> QED
      BY <2>2, <2>3
  <1>5. CASE \E r \in Stream!Ids : Stream!Log(r)
    BY <1>5 DEF Stream!Log
  <1>6. CASE \E r \in Stream!Ids : Stream!Commit(r)
    BY <1>6 DEF Stream!Commit
  <1>7. CASE \E p \in Polls : Stream!Poll(p)
    BY <1>7 DEF Stream!Poll
  <1>8. CASE \E p \in Polls : Stream!Read(p)
    <2> PICK p \in Polls : Stream!Read(p)
      BY <1>8
    <2>1. Stream!NewRows(p) \subseteq committed
      BY DEF Stream!NewRows
    <2>2. PICK s \in Stream!Pages(Stream!NewRows(p)) :
            LET upTo == Stream!ReadUpTo(s, since[p]) IN
            /\ items' = [items EXCEPT ![p] = s]
            /\ newest' = IF upTo > newest THEN upTo ELSE newest
            /\ overtaken' = overtaken \cup
                 {r \in Stream!NewRows(p) : stamp[r] = upTo /\ ~ \E i \in DOMAIN s : s[i] = r}
      BY DEF Stream!Read
    <2>3. s \in Seq(Stream!Ids) /\ \A i \in DOMAIN s : s[i] \in committed
      BY <2>1, <2>2, PagesAreSeqs
    <2>4. Stream!ReadUpTo(s, since[p]) \in Int
      <3>1. CASE s = <<>>
        BY <3>1 DEF Stream!ReadUpTo, StartsOK, Stream!Read
      <3>2. CASE s # <<>>
        <4>1. s[Len(s)] \in committed
          BY <2>3, <3>2
        <4> QED
          BY <3>2, <4>1 DEF Stream!ReadUpTo, SourcesOK
      <3> QED
        BY <3>1, <3>2
    <2>5. items' \in [Polls -> Seq(Stream!Ids)]
      BY <2>2, <2>3
    <2>6. newest' \in Int /\ overtaken' \subseteq Stream!Ids
      BY <2>1, <2>2, <2>4
    <2> QED
      BY <2>5, <2>6 DEF Stream!Read
  <1>9. CASE \E p \in Polls : Stream!Answer(p)
    <2> PICK p \in Polls : Stream!Answer(p)
      BY <1>9
    <2>1. items[p] \in Seq(Stream!Ids) /\ wire \o items[p] \in Seq(Stream!Ids)
      OBVIOUS
    <2>2. Stream!ReadUpTo(items[p], since[p]) \in Int
      <3>1. CASE items[p] = <<>>
        BY <3>1 DEF Stream!ReadUpTo, StartsOK, Stream!Answer
      <3>2. CASE items[p] # <<>>
        <4>1. IsItem(p, items[p][Len(items[p])]) /\ items[p][Len(items[p])] \in Stream!Ids
          BY <2>1, <3>2 DEF IsItem
        <4> QED
          BY <3>2, <4>1 DEF Stream!ReadUpTo, SourcesOK
      <3> QED
        BY <3>1, <3>2
    <2>3. items' \in [Polls -> Seq(Stream!Ids)] /\ since' \in [Polls -> Int \cup {NoStamp}]
          /\ ppc' \in [Polls -> {"idle", "asked", "read"}]
      BY DEF Stream!Answer
    <2> QED
      BY <2>1, <2>2, <2>3 DEF Stream!Answer
  <1>10. CASE UNCHANGED Stream!vars
    BY <1>10 DEF Stream!vars
  <1> QED
    BY <1>1, <1>2, <1>3, <1>4, <1>5, <1>6, <1>7, <1>8, <1>9, <1>10 DEF Stream!Next

\* The parts of the invariant beyond types.
Parts ==
    /\ NotYetOpen /\ SourcesOK /\ StartsOK /\ OwedIsAhead
    /\ WireInOrder /\ RowsBeforeWire /\ ItemsInOrder /\ Stream!FeedIsInOrder /\ RowsSeen

\* Time passes, or the feed is closed.
LEMMA QuietParts ==
    ASSUME StreamInv, UNCHANGED <<Stream!audit, Stream!api, wire, initial, seen, shown, Stream!ghost>>,
           stream' = stream \/ stream' = "closed"
    PROVE  Parts'
  <1> USE DEF Stream!audit, Stream!api, Stream!ghost, StreamInv
  <1>1. NotYetOpen' /\ SourcesOK' /\ StartsOK'
    BY DEF NotYetOpen, SourcesOK, StartsOK, Got, OnWire, IsItem, Stream!ReadUpTo
  <1>2. OwedIsAhead'
    BY DEF OwedIsAhead, Owed, Known, Got, OnWire, IsItem
  <1>3. WireInOrder' /\ RowsBeforeWire' /\ ItemsInOrder' /\ Stream!FeedIsInOrder' /\ RowsSeen'
    BY DEF WireInOrder, RowsBeforeWire, ItemsInOrder, Stream!FeedIsInOrder, RowsSeen
  <1> QED
    BY <1>1, <1>2, <1>3 DEF Parts

\* The page is loaded with rows that are committed, each once.
LEMMA LoadPageParts ==
    ASSUME Stream!ActivityStreamConstants, StreamInv, Stream!LoadPage
    PROVE  Parts'
  <1> USE DEF Stream!audit, Stream!api, Stream!ghost
  <1>0. Stream!TypeOK /\ NotYetOpen /\ SourcesOK /\ StartsOK
    BY DEF StreamInv
  <1>1. /\ stream' = "loaded" /\ wire = <<>> /\ wire' = wire /\ UNCHANGED <<Stream!audit, Stream!api, Stream!ghost>>
        /\ \A p \in Polls : ppc[p] = "idle"
        /\ initial' = {shown'[i] : i \in DOMAIN shown'} /\ seen' = initial'
    BY <1>0 DEF Stream!LoadPage, NotYetOpen
  <1>2. /\ \A i \in DOMAIN shown' : shown'[i] \in committed
        /\ \A i, j \in DOMAIN shown' : i < j => shown'[i] # shown'[j]
    BY <1>0, ListingsAreSeqs DEF Stream!LoadPage
  <1>3. \A i \in DOMAIN shown' : shown'[i] \in initial'
    BY <1>1
  <1>4. initial' \subseteq committed
    BY <1>1, <1>2
  <1>5. NotYetOpen' /\ StartsOK' /\ SourcesOK'
    BY <1>0, <1>1, <1>4 DEF NotYetOpen, StartsOK, SourcesOK, Got, OnWire, IsItem
  <1>6. OwedIsAhead' /\ WireInOrder' /\ RowsBeforeWire'
    BY <1>1 DEF OwedIsAhead, WireInOrder, RowsBeforeWire
  <1>7. ItemsInOrder'
    BY <1>1 DEF ItemsInOrder, StreamInv
  <1>8. Stream!FeedIsInOrder' /\ RowsSeen'
    BY <1>1, <1>2, <1>3 DEF Stream!FeedIsInOrder, RowsSeen
  <1> QED
    BY <1>5, <1>6, <1>7, <1>8 DEF Parts

\* The stream opens with nothing on it.
LEMMA OpenParts ==
    ASSUME Stream!ActivityStreamConstants, StreamInv, Stream!Open
    PROVE  Parts'
  <1> USE DEF Stream!audit, Stream!api, Stream!page, Stream!ghost
  <1>0. Stream!TypeOK /\ NotYetOpen /\ SourcesOK /\ StartsOK /\ ItemsInOrder /\ Stream!FeedIsInOrder /\ RowsSeen
    BY DEF StreamInv
  <1>1. /\ stream' = "open" /\ wire = <<>> /\ seen = initial
        /\ UNCHANGED <<Stream!audit, ppc, since, items, wire, initial, seen, shown, newest, overtaken>>
        /\ \A p \in Polls : ppc[p] = "idle"
        /\ watermark' = from' /\ from' \in Int
    BY <1>0 DEF Stream!Open, NotYetOpen, Stream!TypeOK, Stream!ActivityStreamConstants
  <1>2. \A p \in Polls : items[p] = <<>>
    BY <1>0, <1>1 DEF StartsOK
  <1>5. NotYetOpen' /\ StartsOK' /\ SourcesOK'
    BY <1>0, <1>1, <1>2 DEF NotYetOpen, StartsOK, SourcesOK, Got, OnWire, IsItem
  <1>6. OwedIsAhead' /\ WireInOrder' /\ RowsBeforeWire'
    BY <1>1, <1>2 DEF OwedIsAhead, WireInOrder, RowsBeforeWire, Owed, Got, OnWire, IsItem
  <1>7. ItemsInOrder'
    BY <1>0, <1>1 DEF ItemsInOrder
  <1>8. Stream!FeedIsInOrder' /\ RowsSeen'
    BY <1>0, <1>1 DEF Stream!FeedIsInOrder, RowsSeen
  <1> QED
    BY <1>5, <1>6, <1>7, <1>8 DEF Parts

\* A row is written; nothing the page or a poll has is that row.
LEMMA LogParts ==
    ASSUME Stream!ActivityStreamConstants, StreamInv, NEW r \in Stream!Ids, Stream!Log(r)
    PROVE  Parts'
  <1> USE DEF Stream!audit, Stream!api, Stream!page, Stream!ghost
  <1>0. Stream!TypeOK /\ Parts
    BY DEF StreamInv, Parts
  <1>1. /\ stamp[r] = NoStamp /\ \A q \in Stream!Ids : q # r => stamp'[q] = stamp[q]
        /\ UNCHANGED <<committed, stream, watermark, ppc, since, items, wire, initial, seen, shown,
                       from, newest, overtaken>>
    BY <1>0 DEF Stream!Log, Stream!TypeOK
  <1>2. r \notin committed
    BY <1>0, <1>1 DEF Parts, SourcesOK
  <1>3. /\ r \notin seen /\ ~OnWire(r) /\ \A p \in Polls : ~IsItem(p, r)
        /\ \A i \in DOMAIN shown : shown[i] # r
        /\ \A i \in DOMAIN wire : wire[i] # r
        /\ \A p \in Polls : \A i \in DOMAIN items[p] : items[p][i] # r
    BY <1>0, <1>2 DEF Parts, SourcesOK, RowsSeen, Got, OnWire, IsItem
  <1>4. /\ \A i \in DOMAIN shown : shown[i] \in Stream!Ids /\ stamp'[shown[i]] = stamp[shown[i]]
        /\ \A i \in DOMAIN wire : wire[i] \in Stream!Ids /\ stamp'[wire[i]] = stamp[wire[i]]
        /\ \A p \in Polls : \A i \in DOMAIN items[p] :
              items[p][i] \in Stream!Ids /\ stamp'[items[p][i]] = stamp[items[p][i]]
        /\ \A q \in committed : stamp'[q] = stamp[q]
    BY <1>0, <1>1, <1>2, <1>3 DEF Stream!TypeOK
  <1>5. \A q \in Stream!Ids : /\ Got(q)' = Got(q) /\ Known(q)' = Known(q) /\ (Owed(q)' = Owed(q))
                               /\ \A p \in Polls : IsItem(p, q)' = IsItem(p, q)
    BY <1>1, <1>2, <1>4 DEF Got, Known, Owed, OnWire, IsItem
  <1>6. NotYetOpen' /\ SourcesOK'
    BY <1>0, <1>1, <1>2, <1>4, <1>5 DEF Parts, NotYetOpen, SourcesOK
  <1>7. StartsOK'
    <2>1. ASSUME NEW p \in Polls, ppc[p] = "read"
          PROVE  Stream!ReadUpTo(items[p], since[p])' = Stream!ReadUpTo(items[p], since[p])
      <3>1. items[p] \in Seq(Stream!Ids) /\ UNCHANGED <<items, since>>
        BY <1>0, <1>1 DEF Stream!TypeOK
      <3>2. items[p] # <<>> => Len(items[p]) \in DOMAIN items[p]
        BY <3>1
      <3> QED
        BY <1>4, <3>1, <3>2 DEF Stream!ReadUpTo
    <2> QED
      BY <1>0, <1>1, <2>1 DEF Parts, StartsOK
  <1>8. OwedIsAhead'
    <2>1. \A q \in Stream!Ids : Owed(q) \/ Got(q) => q \in committed
      BY <1>0 DEF Parts, SourcesOK, Owed
    <2>2. \A q \in Stream!Ids, p \in Polls : IsItem(p, q) => q \in committed
      BY <1>0 DEF Parts, SourcesOK
    <2> QED
      BY <1>0, <1>1, <1>4, <1>5, <2>1, <2>2 DEF Parts, OwedIsAhead
  <1>9. WireInOrder' /\ RowsBeforeWire' /\ ItemsInOrder'
    BY <1>0, <1>1, <1>4 DEF Parts, WireInOrder, RowsBeforeWire, ItemsInOrder
  <1>10. Stream!FeedIsInOrder' /\ RowsSeen'
    BY <1>0, <1>1, <1>4 DEF Parts, Stream!FeedIsInOrder, RowsSeen
  <1> QED
    BY <1>6, <1>7, <1>8, <1>9, <1>10 DEF Parts

\* A row that commits ahead of every poll is owed, any other overtaken.
LEMMA CommitParts ==
    ASSUME Stream!ActivityStreamConstants, StreamInv, NEW r \in Stream!Ids, Stream!Commit(r)
    PROVE  Parts'
  <1> USE DEF Stream!audit, Stream!api, Stream!page, Stream!ghost
  <1>0. Stream!TypeOK /\ Parts
    BY DEF StreamInv, Parts
  <1>1. /\ r \notin committed /\ stamp[r] \in Int /\ committed' = committed \cup {r}
        /\ stamp[r] # NoStamp
        /\ overtaken' = IF stamp[r] <= newest THEN overtaken \cup {r} ELSE overtaken
        /\ UNCHANGED <<stamp, stream, watermark, ppc, since, items, wire, initial, seen, shown,
                       from, newest>>
    BY <1>0 DEF Stream!Commit, Stream!TypeOK
  <1>2. \A q \in Stream!Ids : /\ Got(q)' = Got(q)
                               /\ \A p \in Polls : IsItem(p, q)' = IsItem(p, q)
    BY <1>1 DEF Got, OnWire, IsItem
  <1>3. NotYetOpen' /\ SourcesOK' /\ StartsOK'
    BY <1>0, <1>1, <1>2 DEF Parts, NotYetOpen, SourcesOK, StartsOK, Stream!ReadUpTo
  <1>4. \A q \in Stream!Ids : Owed(q)' => \/ q # r /\ Owed(q)
                                          \/ q = r /\ stamp[r] > newest /\ stamp[r] > from
    BY <1>0, <1>1 DEF Owed, Known, OnWire, Stream!TypeOK
  <1>5. OwedIsAhead'
    <2> SUFFICES ASSUME stream' = "open", NEW q \in Stream!Ids, Owed(q)'
                 PROVE  /\ stamp'[q] > watermark'
                        /\ \A x \in Stream!Ids : Got(x)' => stamp'[x] < stamp'[q]
                        /\ \A p \in Polls :
                             /\ ppc'[p] # "idle" => stamp'[q] > since'[p]
                             /\ ~IsItem(p, q)' => \A x \in Stream!Ids : IsItem(p, x)' => stamp'[x] < stamp'[q]
      BY DEF OwedIsAhead
    <2>1. CASE q # r
      BY <1>0, <1>1, <1>2, <1>4, <2>1 DEF Parts, OwedIsAhead
    <2>2. CASE q = r
      <3>1. stamp[r] > newest /\ stamp[r] > from /\ newest \in Int /\ from \in Int /\ watermark \in Int
        BY <1>0, <1>4, <2>2 DEF Stream!TypeOK
      <3>2. \A x \in Stream!Ids : Got(x) \/ (\E p \in Polls : IsItem(p, x)) => stamp[x] <= newest /\ stamp[x] \in Int
        BY <1>0 DEF Parts, SourcesOK, Stream!TypeOK
      <3>3. watermark <= newest \/ watermark <= from
        BY <1>0, <1>1, <3>1 DEF Parts, StartsOK
      <3>4. \A p \in Polls : ppc[p] # "idle" => since[p] \in Int /\ (since[p] <= newest \/ since[p] <= from)
        BY <1>0, <3>1 DEF Parts, StartsOK
      <3> QED
        BY <1>1, <1>2, <2>2, <3>1, <3>2, <3>3, <3>4
    <2> QED
      BY <2>1, <2>2
  <1>6. overtaken \subseteq overtaken'
    BY <1>1
  <1>7. WireInOrder' /\ RowsBeforeWire' /\ ItemsInOrder'
    BY <1>0, <1>1, <1>6 DEF Parts, WireInOrder, RowsBeforeWire, ItemsInOrder
  <1>8. Stream!FeedIsInOrder' /\ RowsSeen'
    BY <1>0, <1>1, <1>6 DEF Parts, Stream!FeedIsInOrder, RowsSeen
  <1> QED
    BY <1>3, <1>5, <1>7, <1>8 DEF Parts

\* A poll begins where the watermark is.
LEMMA PollParts ==
    ASSUME Stream!ActivityStreamConstants, StreamInv, NEW p \in Polls, Stream!Poll(p)
    PROVE  Parts'
  <1> USE DEF Stream!audit, Stream!api, Stream!page, Stream!ghost
  <1>0. Stream!TypeOK /\ Parts
    BY DEF StreamInv, Parts
  <1>1. /\ stream = "open" /\ ppc[p] = "idle" /\ ppc'[p] = "asked" /\ since'[p] = watermark
        /\ \A q \in Polls : q # p => ppc'[q] = ppc[q] /\ since'[q] = since[q]
        /\ UNCHANGED <<stamp, committed, stream, watermark, items, wire, initial, seen, shown,
                       from, newest, overtaken>>
        /\ watermark \in Int /\ items[p] = <<>>
    BY <1>0 DEF Stream!Poll, Stream!TypeOK, Parts, StartsOK
  <1>2. \A q \in Stream!Ids : /\ Got(q)' = Got(q) /\ Owed(q)' = Owed(q)
                               /\ \A k \in Polls : IsItem(k, q)' = IsItem(k, q)
    BY <1>1 DEF Got, Owed, Known, OnWire, IsItem
  <1>3. NotYetOpen' /\ SourcesOK'
    BY <1>0, <1>1, <1>2 DEF Parts, NotYetOpen, SourcesOK
  <1>4. StartsOK'
    <2>1. ASSUME NEW q \in Polls, q # p, ppc[q] # "idle"
          PROVE  /\ since'[q] = since[q] /\ ppc'[q] = ppc[q]
                 /\ Stream!ReadUpTo(items[q], since[q])' = Stream!ReadUpTo(items[q], since[q])
      BY <1>1, <2>1 DEF Stream!ReadUpTo
    <2> QED
      BY <1>0, <1>1, <2>1 DEF Parts, StartsOK
  <1>5. OwedIsAhead'
    BY <1>0, <1>1, <1>2 DEF Parts, OwedIsAhead
  <1>6. WireInOrder' /\ RowsBeforeWire' /\ ItemsInOrder' /\ Stream!FeedIsInOrder' /\ RowsSeen'
    BY <1>0, <1>1 DEF Parts, WireInOrder, RowsBeforeWire, ItemsInOrder, Stream!FeedIsInOrder,
                      RowsSeen
  <1> QED
    BY <1>3, <1>4, <1>5, <1>6 DEF Parts

\* What a poll reads is all that is owed up to where it has read.
LEMMA ReadRows ==
    ASSUME Stream!ActivityStreamConstants, StreamInv, NEW p \in Polls, ppc[p] = "asked",
           NEW s \in Stream!Pages(Stream!NewRows(p))
    PROVE  /\ s \in Seq(Stream!Ids)
           /\ \A i \in DOMAIN s : s[i] \in committed /\ stamp[s[i]] \in Int /\ stamp[s[i]] > from
                                  /\ stamp[s[i]] <= Stream!ReadUpTo(s, since[p])
           /\ \A i, j \in DOMAIN s : i < j => s[i] # s[j] /\ stamp[s[i]] <= stamp[s[j]]
           /\ Stream!ReadUpTo(s, since[p]) \in Int
           /\ s = <<>> => Stream!ReadUpTo(s, since[p]) = since[p]
  <1>0. Stream!TypeOK /\ SourcesOK /\ StartsOK
    BY DEF StreamInv
  <1>1. Stream!NewRows(p) \subseteq committed /\ Stream!NewRows(p) \subseteq Stream!Ids
    BY <1>0 DEF Stream!NewRows, Stream!TypeOK
  <1>2. s \in Seq(Stream!Ids) /\ \A i \in DOMAIN s : s[i] \in Stream!NewRows(p)
    BY <1>1, PagesAreSeqs
  <1>3. since[p] \in Int /\ since[p] >= from /\ from \in Int
    BY <1>0 DEF StartsOK, Stream!TypeOK
  <1>4. \A i \in DOMAIN s : s[i] \in committed /\ stamp[s[i]] \in Int /\ stamp[s[i]] > from
    BY <1>0, <1>1, <1>2, <1>3 DEF Stream!NewRows, SourcesOK, Stream!TypeOK
  <1>5. \A i, j \in DOMAIN s : i < j => s[i] # s[j] /\ stamp[s[i]] <= stamp[s[j]]
    <2>1. \A i, j \in DOMAIN s : i < j => Stream!Before(s[i], s[j])
      BY DEF Stream!Pages
    <2>2. \A i \in DOMAIN s : s[i] \in Int
      BY <1>2 DEF Stream!Ids, Stream!NewRows, Stream!ActivityStreamConstants
    <2> QED
      BY <1>4, <2>1, <2>2 DEF Stream!Before
  <1>6. CASE s = <<>>
    BY <1>2, <1>3, <1>4, <1>5, <1>6 DEF Stream!ReadUpTo
  <1>7. CASE s # <<>>
    <2>1. /\ Len(s) \in DOMAIN s /\ DOMAIN s = 1 .. Len(s) /\ Len(s) \in Nat
          /\ Stream!ReadUpTo(s, since[p]) = stamp[s[Len(s)]]
      BY <1>2, <1>7 DEF Stream!ReadUpTo
    <2>2. ASSUME NEW i \in DOMAIN s PROVE stamp[s[i]] <= stamp[s[Len(s)]]
      <3>1. CASE i = Len(s)
        BY <1>4, <2>1, <3>1
      <3>2. CASE i < Len(s)
        BY <1>5, <2>1, <3>2
      <3> QED
        BY <2>1, <3>1, <3>2
    <2> QED
      BY <1>2, <1>4, <1>5, <1>7, <2>1, <2>2
  <1> QED
    BY <1>6, <1>7

\* A poll reads the oldest rows past where it began, up to the last of them.
LEMMA ReadParts ==
    ASSUME Stream!ActivityStreamConstants, StreamInv, NEW p \in Polls, Stream!Read(p)
    PROVE  Parts'
  <1> USE DEF Stream!audit, Stream!api, Stream!page, Stream!ghost
  <1>0. Stream!TypeOK /\ Parts
    BY DEF StreamInv, Parts
  <1>1. /\ ppc[p] = "asked" /\ ppc'[p] = "read" /\ \A q \in Polls : q # p => ppc'[q] = ppc[q]
        /\ UNCHANGED <<stamp, committed, stream, watermark, since, wire, initial, seen, shown, from>>
    BY <1>0 DEF Stream!Read, Stream!TypeOK
  <1> DEFINE upTo(s) == Stream!ReadUpTo(s, since[p])
  <1>2. PICK s \in Stream!Pages(Stream!NewRows(p)) :
          /\ items' = [items EXCEPT ![p] = s]
          /\ newest' = IF upTo(s) > newest THEN upTo(s) ELSE newest
          /\ overtaken' = overtaken \cup
               {r \in Stream!NewRows(p) : stamp[r] = upTo(s) /\ ~ \E i \in DOMAIN s : s[i] = r}
    BY DEF Stream!Read
  <1>3. /\ s \in Seq(Stream!Ids)
        /\ \A i \in DOMAIN s : s[i] \in committed /\ stamp[s[i]] \in Int /\ stamp[s[i]] > from
                               /\ stamp[s[i]] <= upTo(s)
        /\ \A i, j \in DOMAIN s : i < j => s[i] # s[j] /\ stamp[s[i]] <= stamp[s[j]]
        /\ upTo(s) \in Int
    BY <1>1, ReadRows
  <1>4. /\ newest \in Int /\ newest' \in Int /\ newest <= newest' /\ upTo(s) <= newest'
        /\ overtaken \subseteq overtaken'
        /\ items'[p] = s /\ \A q \in Polls : q # p => items'[q] = items[q]
    BY <1>0, <1>2, <1>3 DEF Stream!TypeOK
  <1> HIDE DEF upTo
  <1>5. /\ \A q \in Stream!Ids : Got(q)' = Got(q)
        /\ \A q \in Stream!Ids : IsItem(p, q)' = (\E i \in DOMAIN s : s[i] = q)
        /\ \A q \in Stream!Ids, k \in Polls : k # p => IsItem(k, q)' = IsItem(k, q)
        /\ \A q \in Stream!Ids : Owed(q)' => Owed(q)
    BY <1>1, <1>4 DEF Got, Owed, Known, OnWire, IsItem
  <1>6. NotYetOpen'
    BY <1>0, <1>1 DEF Parts, NotYetOpen
  <1>7. SourcesOK'
    <2>1. \A r \in Stream!Ids : Got(r) => r \in committed /\ stamp[r] \in Int /\ stamp[r] <= newest'
      BY <1>0, <1>4 DEF Parts, SourcesOK, Stream!TypeOK
    <2>2. ASSUME NEW k \in Polls, NEW r \in Stream!Ids, IsItem(k, r)'
          PROVE  r \in committed /\ stamp[r] <= newest' /\ stamp[r] > from
      <3>1. CASE k = p
        <4> PICK i \in DOMAIN s : s[i] = r
          BY <1>5, <2>2, <3>1
        <4>1. stamp[s[i]] <= upTo(s) /\ stamp[s[i]] \in Int /\ stamp[s[i]] > from /\ s[i] \in committed
          BY <1>3
        <4> QED
          BY <1>3, <1>4, <4>1
      <3>2. CASE k # p
        BY <1>0, <1>4, <1>5, <2>2, <3>2 DEF Parts, SourcesOK, Stream!TypeOK
      <3> QED
        BY <3>1, <3>2
    <2> QED
      BY <1>0, <1>1, <1>5, <2>1, <2>2 DEF Parts, SourcesOK
  <1>8. StartsOK'
    <2>1. /\ stream = "open" => watermark >= from /\ (watermark > from => watermark <= newest')
          /\ \A q \in Polls : ppc[q] # "idle" =>
               since[q] \in Int /\ since[q] >= from /\ (since[q] > from => since[q] <= newest')
      BY <1>0, <1>4 DEF Parts, StartsOK, Stream!TypeOK
    <2>2. ASSUME NEW q \in Polls, ppc'[q] = "read"
          PROVE  Stream!ReadUpTo(items[q], since[q])' <= newest'
      <3>1. CASE q = p
        BY <1>1, <1>4, <3>1 DEF Stream!ReadUpTo, upTo
      <3>2. CASE q # p
        <4>1. items'[q] = items[q] /\ since'[q] = since[q] /\ ppc[q] = "read"
          BY <1>1, <1>4, <2>2, <3>2
        <4>2. Stream!ReadUpTo(items[q], since[q])' = Stream!ReadUpTo(items[q], since[q])
              /\ Stream!ReadUpTo(items[q], since[q]) <= newest
          BY <1>0, <1>1, <4>1 DEF Stream!ReadUpTo, Parts, StartsOK
        <4>3. Stream!ReadUpTo(items[q], since[q]) \in Int
          <5>1. CASE items[q] = <<>>
            BY <2>1, <4>1, <5>1 DEF Stream!ReadUpTo
          <5>2. CASE items[q] # <<>>
            <6>1. items[q] \in Seq(Stream!Ids)
              BY <1>0 DEF Stream!TypeOK
            <6>2. IsItem(q, items[q][Len(items[q])]) /\ items[q][Len(items[q])] \in Stream!Ids
              BY <5>2, <6>1 DEF IsItem
            <6> QED
              BY <1>0, <5>2, <6>2 DEF Stream!ReadUpTo, Parts, SourcesOK, Stream!TypeOK
          <5> QED
            BY <5>1, <5>2
        <4> QED
          BY <1>4, <4>2, <4>3
      <3> QED
        BY <3>1, <3>2
    <2>3. \A q \in Polls : ppc'[q] # "read" => items'[q] = <<>>
      BY <1>0, <1>1, <1>4 DEF Parts, StartsOK
    <2>4. \A q \in Polls : ppc'[q] # "idle" => ppc[q] # "idle"
      BY <1>1
    <2> QED
      BY <1>1, <2>1, <2>2, <2>3, <2>4 DEF StartsOK
  <1>9. OwedIsAhead'
    <2> SUFFICES ASSUME stream = "open", NEW r \in Stream!Ids, Owed(r)'
                 PROVE  /\ stamp[r] > watermark
                        /\ \A x \in Stream!Ids : Got(x) => stamp[x] < stamp[r]
                        /\ \A q \in Polls :
                             /\ ppc'[q] # "idle" => stamp[r] > since[q]
                             /\ ~IsItem(q, r)' => \A x \in Stream!Ids : IsItem(q, x)' => stamp[x] < stamp[r]
      BY <1>1, <1>5 DEF OwedIsAhead
    <2>1. Owed(r)
      BY <1>5
    <2>2. ASSUME ~IsItem(p, r)', NEW x \in Stream!Ids, IsItem(p, x)'
          PROVE  stamp[x] < stamp[r]
      <3>1. r \in Stream!NewRows(p) /\ stamp[r] \in Int /\ r \in Int
        BY <1>0, <1>1, <2>1
           DEF Stream!NewRows, Parts, OwedIsAhead, Owed, SourcesOK, Stream!TypeOK, Stream!Ids,
               Stream!ActivityStreamConstants
      <3>2. /\ \A i \in DOMAIN s : s[i] # r
            /\ \A i \in DOMAIN s : Stream!Before(s[i], r)
        BY <1>5, <2>2, <3>1 DEF Stream!Pages
      <3>3. stamp[r] # upTo(s)
        BY <1>1, <1>2, <3>1, <3>2 DEF Owed
      <3> PICK k \in DOMAIN s : s[k] = x
        BY <1>5, <2>2
      <3>a. s \in Seq(Stream!Ids) /\ s # <<>>
        BY <1>3
      <3>4. Len(s) \in DOMAIN s /\ upTo(s) = stamp[s[Len(s)]]
        BY <3>a DEF Stream!ReadUpTo, upTo
      <3>6. stamp[s[k]] <= upTo(s) /\ stamp[s[k]] \in Int /\ upTo(s) \in Int
        BY <1>3
      <3>5. upTo(s) <= stamp[r]
        BY <1>3, <3>1, <3>2, <3>4 DEF Stream!Before
      <3> QED
        BY <3>1, <3>3, <3>5, <3>6
    <2> QED
      BY <1>0, <1>1, <1>5, <2>1, <2>2 DEF Parts, OwedIsAhead
  <1>10. ItemsInOrder'
    BY <1>0, <1>1, <1>3, <1>4 DEF Parts, ItemsInOrder
  <1>11. WireInOrder' /\ RowsBeforeWire' /\ Stream!FeedIsInOrder' /\ RowsSeen'
    BY <1>0, <1>1, <1>4 DEF Parts, WireInOrder, RowsBeforeWire, Stream!FeedIsInOrder, RowsSeen
  <1> QED
    BY <1>6, <1>7, <1>8, <1>9, <1>10, <1>11 DEF Parts

\* The answer's rows follow the others on the wire.
LEMMA AnswerParts ==
    ASSUME Stream!ActivityStreamConstants, StreamInv, NEW p \in Polls, Stream!Answer(p)
    PROVE  Parts'
  <1> USE DEF Stream!audit, Stream!api, Stream!page, Stream!ghost
  <1>0. Stream!TypeOK /\ Parts
    BY DEF StreamInv, Parts
  <1> DEFINE s == items[p]
             n == Len(wire)
  <1>1. /\ stream = "open" /\ ppc[p] = "read" /\ ppc'[p] = "idle" /\ items'[p] = <<>>
        /\ \A q \in Polls : q # p => ppc'[q] = ppc[q] /\ since'[q] = since[q] /\ items'[q] = items[q]
        /\ watermark' = Stream!ReadUpTo(s, since[p]) /\ wire' = wire \o s
        /\ UNCHANGED <<stamp, committed, stream, initial, seen, shown, from, newest, overtaken>>
    BY <1>0 DEF Stream!Answer, Stream!TypeOK
  <1>2. /\ s \in Seq(Stream!Ids) /\ wire \in Seq(Stream!Ids) /\ n \in Nat
        /\ DOMAIN wire = 1 .. n /\ DOMAIN s = 1 .. Len(s) /\ Len(s) \in Nat
        /\ DOMAIN wire' = 1 .. (n + Len(s))
        /\ \A i \in 1 .. n : wire'[i] = wire[i]
        /\ \A i \in 1 .. Len(s) : wire'[n + i] = s[i]
    BY <1>0, <1>1 DEF Stream!TypeOK
  <1>3. \A i \in DOMAIN s : /\ s[i] \in Stream!Ids /\ IsItem(p, s[i]) /\ s[i] \in committed
                            /\ stamp[s[i]] > from
    BY <1>0, <1>2 DEF IsItem, Parts, SourcesOK
  <1> HIDE DEF s, n
  <1>4. \A i \in DOMAIN wire' : \/ i \in DOMAIN wire /\ wire'[i] = wire[i]
                                \/ i > n /\ i - n \in DOMAIN s /\ wire'[i] = s[i - n]
    <2> TAKE i \in DOMAIN wire'
    <2>1. CASE i <= n
      BY <1>2, <2>1
    <2>2. CASE i > n
      <3>1. i - n \in 1 .. Len(s) /\ i = n + (i - n)
        BY <1>2, <2>2
      <3> QED
        BY <1>2, <2>2, <3>1
    <2> QED
      BY <1>2, <2>1, <2>2
  <1>5. /\ \A q \in Stream!Ids : OnWire(q)' <=> OnWire(q) \/ IsItem(p, q)
        /\ \A q \in Stream!Ids, k \in Polls : IsItem(k, q)' => k # p /\ IsItem(k, q)
        /\ \A q \in Stream!Ids, k \in Polls : k # p => (IsItem(k, q)' <=> IsItem(k, q))
    <2>1. ASSUME NEW q \in Stream!Ids, OnWire(q)' PROVE OnWire(q) \/ IsItem(p, q)
      BY <1>4, <2>1 DEF OnWire, IsItem, s
    <2>2. ASSUME NEW q \in Stream!Ids, OnWire(q) PROVE OnWire(q)'
      <3> PICK i \in 1 .. n : wire[i] = q
        BY <1>2, <2>2 DEF OnWire
      <3>1. i \in DOMAIN wire' /\ wire'[i] = q
        BY <1>2
      <3> QED
        BY <3>1 DEF OnWire
    <2>3. ASSUME NEW q \in Stream!Ids, IsItem(p, q) PROVE OnWire(q)'
      <3> PICK i \in 1 .. Len(s) : s[i] = q
        BY <1>2, <2>3 DEF IsItem, s
      <3>1. n + i \in DOMAIN wire' /\ wire'[n + i] = q
        BY <1>2
      <3> QED
        BY <3>1 DEF OnWire
    <2>4. ASSUME NEW q \in Stream!Ids, NEW k \in Polls
          PROVE  (IsItem(k, q)' => k # p) /\ (k # p => (IsItem(k, q)' <=> IsItem(k, q)))
      BY <1>1 DEF IsItem
    <2> QED
      BY <2>1, <2>2, <2>3, <2>4
  <1>6. ASSUME NEW q \in Stream!Ids
        PROVE  /\ (Got(q)' => Got(q) \/ IsItem(p, q))
               /\ (Owed(q)' => Owed(q) /\ ~IsItem(p, q))
    <2>1. OnWire(q)' <=> OnWire(q) \/ IsItem(p, q)
      BY <1>5
    <2> QED
      BY <1>1, <2>1 DEF Got, Owed, Known
  <1>7. /\ watermark' \in Int /\ watermark' >= from /\ (watermark' > from => watermark' <= newest)
        /\ since[p] \in Int /\ since[p] >= from
        /\ s # <<>> => Len(s) \in DOMAIN s /\ watermark' = stamp[s[Len(s)]]
        /\ s = <<>> => watermark' = since[p]
    <2>1. since[p] \in Int /\ since[p] >= from /\ watermark' <= newest /\ from \in Int
      BY <1>0, <1>1 DEF Parts, StartsOK, Stream!TypeOK, s
    <2>2. CASE s = <<>>
      BY <1>1, <2>1, <2>2 DEF Stream!ReadUpTo
    <2>3. CASE s # <<>>
      <3>1. Len(s) \in DOMAIN s /\ watermark' = stamp[s[Len(s)]]
        BY <1>1, <1>2, <2>3 DEF Stream!ReadUpTo
      <3>2. stamp[s[Len(s)]] > from /\ stamp[s[Len(s)]] \in Int
        BY <1>0, <1>3, <3>1 DEF Parts, SourcesOK, Stream!TypeOK
      <3> QED
        BY <2>1, <2>3, <3>1, <3>2
    <2> QED
      BY <2>2, <2>3
  <1>8. NotYetOpen'
    BY <1>1 DEF NotYetOpen
  <1>9. SourcesOK'
    <2>1. \A r \in Stream!Ids : Got(r)' => r \in committed /\ stamp[r] <= newest
      BY <1>0, <1>6 DEF Parts, SourcesOK
    <2>2. \A i \in DOMAIN wire' : stamp[wire'[i]] > from
      BY <1>0, <1>3, <1>4 DEF Parts, SourcesOK
    <2> QED
      BY <1>0, <1>1, <1>5, <2>1, <2>2 DEF Parts, SourcesOK
  <1>10. StartsOK'
    <2>1. ASSUME NEW q \in Polls, q # p
          PROVE  Stream!ReadUpTo(items[q], since[q])' = Stream!ReadUpTo(items[q], since[q])
      BY <1>1, <2>1 DEF Stream!ReadUpTo
    <2> QED
      BY <1>0, <1>1, <1>7, <2>1 DEF Parts, StartsOK
  <1>11. OwedIsAhead'
    <2> SUFFICES ASSUME NEW r \in Stream!Ids, Owed(r)'
                 PROVE  /\ stamp[r] > watermark'
                        /\ \A x \in Stream!Ids : Got(x)' => stamp[x] < stamp[r]
                        /\ \A q \in Polls :
                             /\ ppc'[q] # "idle" => stamp[r] > since'[q]
                             /\ ~IsItem(q, r)' => \A x \in Stream!Ids : IsItem(q, x)' => stamp[x] < stamp[r]
      BY <1>1 DEF OwedIsAhead
    <2>1. Owed(r) /\ ~IsItem(p, r)
      BY <1>6
    <2>2. /\ \A x \in Stream!Ids : Got(x) \/ IsItem(p, x) => stamp[x] < stamp[r]
          /\ stamp[r] > since[p]
      BY <1>0, <1>1, <2>1 DEF Parts, OwedIsAhead
    <2>3. stamp[r] > watermark'
      <3>1. CASE s = <<>>
        BY <1>7, <2>2, <3>1
      <3>2. CASE s # <<>>
        BY <1>3, <1>7, <2>2, <3>2
      <3> QED
        BY <3>1, <3>2
    <2>4. \A q \in Polls : q # p =>
             /\ ppc[q] # "idle" => stamp[r] > since[q]
             /\ ~IsItem(q, r) => \A x \in Stream!Ids : IsItem(q, x) => stamp[x] < stamp[r]
      BY <1>0, <1>1, <2>1 DEF Parts, OwedIsAhead
    <2> QED
      BY <1>1, <1>5, <1>6, <2>2, <2>3, <2>4
  \* A row of the answer is known, overtaken, or comes after all that was brought.
  <1>12. \A i \in DOMAIN s : \/ s[i] \in seen \cup overtaken \/ OnWire(s[i])
                             \/ \A x \in Stream!Ids : Got(x) => stamp[x] < stamp[s[i]]
    BY <1>0, <1>1, <1>3 DEF Parts, OwedIsAhead, Owed, Known
  <1>13. WireInOrder'
    <2> SUFFICES ASSUME NEW i \in DOMAIN wire', NEW j \in DOMAIN wire', i < j
                 PROVE  \/ wire'[j] \in seen \cup overtaken
                        \/ \E k \in 1 .. j - 1 : wire'[k] = wire'[j]
                        \/ stamp[wire'[i]] <= stamp[wire'[j]]
      BY <1>1 DEF WireInOrder
    <2>1. CASE j <= n
      <3>1. /\ i \in DOMAIN wire /\ j \in DOMAIN wire /\ wire'[i] = wire[i] /\ wire'[j] = wire[j]
            /\ \A k \in 1 .. j - 1 : wire'[k] = wire[k]
        BY <1>2, <2>1
      <3> QED
        BY <1>0, <3>1 DEF Parts, WireInOrder
    <2>2. CASE i > n
      <3>1. /\ i - n \in DOMAIN s /\ j - n \in DOMAIN s /\ i - n < j - n
            /\ wire'[i] = s[i - n] /\ wire'[j] = s[j - n]
        BY <1>2, <1>4, <2>2
      <3> QED
        BY <1>0, <3>1 DEF Parts, ItemsInOrder, s
    <2>3. CASE i <= n /\ j > n
      <3>1. /\ i \in DOMAIN wire /\ wire'[i] = wire[i] /\ wire[i] \in Stream!Ids
            /\ j - n \in DOMAIN s /\ wire'[j] = s[j - n]
        BY <1>2, <1>4, <2>3
      <3>2. Got(wire[i]) /\ stamp[wire[i]] \in Int /\ stamp[s[j - n]] \in Int
        BY <1>0, <1>3, <3>1 DEF Got, OnWire, Parts, SourcesOK, Stream!TypeOK
      <3>3. OnWire(s[j - n]) => \E k \in 1 .. j - 1 : wire'[k] = wire'[j]
        BY <1>2, <2>3, <3>1 DEF OnWire
      <3> QED
        BY <1>12, <3>1, <3>2, <3>3
    <2> QED
      BY <1>2, <2>1, <2>2, <2>3
  <1>14. RowsBeforeWire'
    <2> SUFFICES ASSUME NEW i \in DOMAIN shown, NEW j \in DOMAIN wire', shown[i] \notin initial
                 PROVE  \/ wire'[j] \in seen \cup overtaken
                        \/ \E k \in 1 .. j - 1 : wire'[k] = wire'[j]
                        \/ stamp[shown[i]] <= stamp[wire'[j]]
      BY <1>1 DEF RowsBeforeWire
    <2>1. CASE j <= n
      <3>1. /\ j \in DOMAIN wire /\ wire'[j] = wire[j] /\ \A k \in 1 .. j - 1 : wire'[k] = wire[k]
        BY <1>2, <2>1
      <3> QED
        BY <1>0, <3>1 DEF Parts, RowsBeforeWire
    <2>2. CASE j > n
      <3>1. j - n \in DOMAIN s /\ wire'[j] = s[j - n] /\ shown[i] \in Stream!Ids
        BY <1>0, <1>2, <1>4, <2>2 DEF Stream!TypeOK
      <3>2. Got(shown[i]) /\ stamp[shown[i]] \in Int /\ stamp[s[j - n]] \in Int
        BY <1>0, <1>3, <3>1 DEF Got, Parts, RowsSeen, SourcesOK, Stream!TypeOK
      <3>3. OnWire(s[j - n]) => \E k \in 1 .. j - 1 : wire'[k] = wire'[j]
        BY <1>2, <2>2, <3>1 DEF OnWire
      <3> QED
        BY <1>12, <3>1, <3>2, <3>3
    <2> QED
      BY <1>2, <2>1, <2>2
  <1>15. ItemsInOrder'
    BY <1>0, <1>1 DEF Parts, ItemsInOrder
  <1>16. Stream!FeedIsInOrder' /\ RowsSeen'
    BY <1>0, <1>1 DEF Parts, Stream!FeedIsInOrder, RowsSeen
  <1> QED
    BY <1>8, <1>9, <1>10, <1>11, <1>13, <1>14, <1>15, <1>16 DEF Parts

\* The page takes the head of the wire, and shows it if it had not.
LEMMA ReceiveParts ==
    ASSUME Stream!ActivityStreamConstants, StreamInv, Stream!Receive
    PROVE  Parts'
  <1> USE DEF Stream!audit, Stream!api, Stream!page, Stream!ghost
  <1>0. Stream!TypeOK /\ Parts
    BY DEF StreamInv, Parts
  <1> DEFINE r == Head(wire)
             n == Len(wire)
  <1>1. /\ stream = "open" /\ wire # <<>> /\ wire' = Tail(wire) /\ seen' = seen \cup {r}
        /\ r \in seen => shown' = shown
        /\ r \notin seen => shown' = Stream!Merged(r)
        /\ UNCHANGED <<stamp, committed, stream, watermark, ppc, since, items, initial, from, newest,
                       overtaken>>
    BY <1>0 DEF Stream!Receive
  <1>2. /\ n \in Nat \ {0} /\ r = wire[1] /\ r \in Stream!Ids /\ 1 \in DOMAIN wire
        /\ DOMAIN wire = 1 .. n /\ DOMAIN wire' = 1 .. (n - 1)
        /\ \A i \in 1 .. (n - 1) : wire'[i] = wire[i + 1]
    BY <1>0, <1>1 DEF Stream!TypeOK
  <1>3. OnWire(r) /\ r \in committed
    BY <1>0, <1>2 DEF OnWire, Got, Parts, SourcesOK
  <1>4. r \notin seen => /\ \A i \in DOMAIN shown' : \/ i = 1 /\ shown'[i] = r
                                                     \/ i > 1 /\ i - 1 \in DOMAIN shown /\ shown'[i] = shown[i - 1]
                         /\ DOMAIN shown' \subseteq Nat
    <2> HAVE r \notin seen
    <2>1. /\ shown \in Seq(Stream!Ids) /\ shown' = Stream!Merged(r)
      BY <1>0, <1>1 DEF Stream!TypeOK
    <2>2. /\ Stream!Merged(r) \in Seq(Stream!Ids) /\ Len(Stream!Merged(r)) <= Len(shown) + 1
          /\ Len(Stream!Merged(r)) >= 1 => Stream!Merged(r)[1] = r
          /\ \A i \in 2 .. Len(Stream!Merged(r)) : Stream!Merged(r)[i] = shown[i - 1]
      BY <1>2, <2>1, MergedRows
    <2> HIDE DEF r
    <2> QED
      BY <2>1, <2>2
  <1> HIDE DEF r, n
  <1>5. ASSUME NEW q \in Stream!Ids
        PROVE  /\ (OnWire(q)' => OnWire(q)) /\ (OnWire(q) => q = r \/ OnWire(q)')
               /\ (Got(q)' => Got(q)) /\ (Owed(q)' => Owed(q))
               /\ \A p \in Polls : IsItem(p, q)' = IsItem(p, q)
    <2>1. ASSUME OnWire(q)' PROVE OnWire(q)
      <3> PICK i \in 1 .. (n - 1) : wire'[i] = q
        BY <1>2, <2>1 DEF OnWire
      <3>1. i + 1 \in 1 .. n /\ wire[i + 1] = q
        BY <1>2
      <3> QED
        BY <1>2, <3>1 DEF OnWire
    <2>2. ASSUME OnWire(q), q # r PROVE OnWire(q)'
      <3> PICK i \in 1 .. n : wire[i] = q
        BY <1>2, <2>2 DEF OnWire
      <3>1. i # 1
        BY <1>2, <2>2
      <3>2. i - 1 \in 1 .. (n - 1) /\ (i - 1) + 1 = i
        BY <1>2, <3>1
      <3>3. wire'[i - 1] = q
        BY <1>2, <3>2
      <3> QED
        BY <1>2, <3>2, <3>3 DEF OnWire
    <2>3. \A p \in Polls : IsItem(p, q)' = IsItem(p, q)
      BY <1>1 DEF IsItem
    <2> QED
      BY <1>1, <1>3, <2>1, <2>2, <2>3 DEF Got, Owed, Known
  <1>6. NotYetOpen'
    BY <1>1 DEF NotYetOpen
  <1>7. SourcesOK'
    <2>1. seen' \subseteq committed /\ initial' \subseteq seen'
      BY <1>0, <1>1, <1>3 DEF Parts, SourcesOK
    <2>2. \A q \in Stream!Ids : Got(q)' => q \in committed /\ stamp[q] <= newest
      BY <1>0, <1>5 DEF Parts, SourcesOK
    <2>3. \A i \in DOMAIN wire' : stamp[wire'[i]] > from
      BY <1>0, <1>2 DEF Parts, SourcesOK
    <2>4. \A p \in Polls : \A q \in Stream!Ids :
            IsItem(p, q)' => q \in committed /\ stamp[q] <= newest /\ stamp[q] > from
      BY <1>0, <1>5 DEF Parts, SourcesOK
    <2> QED
      BY <1>0, <1>1, <2>1, <2>2, <2>3, <2>4 DEF Parts, SourcesOK
  <1>8. StartsOK'
    BY <1>0, <1>1 DEF Parts, StartsOK, Stream!ReadUpTo
  <1>9. OwedIsAhead'
    BY <1>0, <1>1, <1>5 DEF Parts, OwedIsAhead
  \* A row that was on the wire before another is on it still, or seen by now.
  <1>10. ASSUME NEW j \in DOMAIN wire', \E k \in 1 .. j : wire[k] = wire[j + 1]
         PROVE  wire'[j] \in seen' \/ \E k \in 1 .. j - 1 : wire'[k] = wire'[j]
    <2> PICK k \in 1 .. j : wire[k] = wire[j + 1]
      BY <1>10
    <2>1. j \in 1 .. (n - 1) /\ wire'[j] = wire[j + 1]
      BY <1>2
    <2>2. CASE k = 1
      BY <1>1, <1>2, <2>1, <2>2
    <2>3. CASE k # 1
      <3>1. k - 1 \in 1 .. j - 1 /\ k - 1 \in 1 .. (n - 1) /\ (k - 1) + 1 = k
        BY <1>2, <2>1, <2>3
      <3>2. wire'[k - 1] = wire'[j]
        BY <1>2, <2>1, <3>1
      <3> QED
        BY <3>1, <3>2
    <2> QED
      BY <2>2, <2>3
  <1>11. \A j \in DOMAIN wire' : /\ j \in Nat /\ j + 1 \in DOMAIN wire /\ wire'[j] = wire[j + 1]
                                 /\ j > 0 /\ (j + 1) - 1 = j
    BY <1>2
  <1>12. WireInOrder'
    <2> SUFFICES ASSUME NEW i \in DOMAIN wire', NEW j \in DOMAIN wire', i < j
                 PROVE  \/ wire'[j] \in seen' \cup overtaken
                        \/ \E k \in 1 .. j - 1 : wire'[k] = wire'[j]
                        \/ stamp[wire'[i]] <= stamp[wire'[j]]
      BY <1>1 DEF WireInOrder
    <2>1. i + 1 < j + 1
      BY <1>11
    <2>2. \/ wire[j + 1] \in seen \cup overtaken \/ \E k \in 1 .. j : wire[k] = wire[j + 1]
          \/ stamp[wire[i + 1]] <= stamp[wire[j + 1]]
      BY <1>0, <1>11, <2>1 DEF Parts, WireInOrder
    <2> QED
      BY <1>1, <1>10, <1>11, <2>2
  <1>13. RowsBeforeWire'
    <2> SUFFICES ASSUME NEW i \in DOMAIN shown', NEW j \in DOMAIN wire', shown'[i] \notin initial
                 PROVE  \/ wire'[j] \in seen' \cup overtaken
                        \/ \E k \in 1 .. j - 1 : wire'[k] = wire'[j]
                        \/ stamp[shown'[i]] <= stamp[wire'[j]]
      BY <1>1 DEF RowsBeforeWire
    <2>1. ASSUME NEW h \in DOMAIN shown, shown'[i] = shown[h]
          PROVE  \/ wire[j + 1] \in seen \cup overtaken \/ \E k \in 1 .. j : wire[k] = wire[j + 1]
                 \/ stamp[shown'[i]] <= stamp[wire'[j]]
      BY <1>0, <1>11, <2>1 DEF Parts, RowsBeforeWire
    <2>2. ASSUME shown'[i] = r
          PROVE  \/ wire[j + 1] \in seen \cup overtaken \/ \E k \in 1 .. j : wire[k] = wire[j + 1]
                 \/ stamp[shown'[i]] <= stamp[wire'[j]]
      <3>1. 1 < j + 1 /\ j + 1 \in DOMAIN wire /\ (j + 1) - 1 = j
        BY <1>11
      <3>2. \/ wire[j + 1] \in seen \cup overtaken
            \/ \E k \in 1 .. (j + 1) - 1 : wire[k] = wire[j + 1]
            \/ stamp[wire[1]] <= stamp[wire[j + 1]]
        BY <1>0, <1>2, <3>1 DEF Parts, WireInOrder
      <3> QED
        BY <1>2, <1>11, <2>2, <3>1, <3>2
    <2>3. shown'[i] = r \/ \E h \in DOMAIN shown : shown'[i] = shown[h]
      BY <1>1, <1>4
    <2> QED
      BY <1>1, <1>10, <1>11, <2>1, <2>2, <2>3
  <1>14. ItemsInOrder'
    BY <1>0, <1>1 DEF Parts, ItemsInOrder
  <1>15. RowsSeen'
    BY <1>0, <1>1, <1>4 DEF Parts, RowsSeen
  <1>16. Stream!FeedIsInOrder'
    <2>1. CASE r \in seen
      BY <1>0, <1>1, <2>1 DEF Parts, Stream!FeedIsInOrder
    <2>2. CASE r \notin seen
      <3> SUFFICES ASSUME NEW i \in DOMAIN shown', NEW j \in DOMAIN shown', i < j
                   PROVE  /\ shown'[i] # shown'[j]
                          /\ \/ shown'[j] \in initial \/ shown'[i] \in overtaken
                             \/ stamp[shown'[i]] >= stamp[shown'[j]]
        BY <1>1 DEF Stream!FeedIsInOrder
      <3>1. j > 1 /\ j - 1 \in DOMAIN shown /\ shown'[j] = shown[j - 1] /\ i \in Nat /\ j \in Nat
        BY <1>4, <2>2
      <3>2. CASE i = 1
        <4>1. shown'[i] = r /\ shown[j - 1] \in seen /\ shown[j - 1] \in Stream!Ids
          BY <1>0, <1>4, <2>2, <3>1, <3>2 DEF Parts, RowsSeen, Stream!TypeOK
        <4>2. \/ shown[j - 1] \in initial \/ wire[1] \in seen \cup overtaken
              \/ stamp[shown[j - 1]] <= stamp[wire[1]]
          <5>1. ~ \E k \in 1 .. 1 - 1 : wire[k] = wire[1]
            OBVIOUS
          <5> QED
            BY <1>0, <1>2, <3>1, <5>1 DEF Parts, RowsBeforeWire
        <4>3. stamp[r] \in Int /\ stamp[shown[j - 1]] \in Int
          BY <1>0, <1>2, <1>3, <4>1 DEF Stream!TypeOK, Parts, SourcesOK
        <4> QED
          BY <1>2, <2>2, <3>1, <4>1, <4>2, <4>3
      <3>3. CASE i # 1
        <4>1. i - 1 \in DOMAIN shown /\ shown'[i] = shown[i - 1] /\ i - 1 < j - 1
          BY <1>4, <2>2, <3>1, <3>3
        <4> QED
          BY <1>0, <3>1, <4>1 DEF Parts, Stream!FeedIsInOrder
      <3> QED
        BY <3>2, <3>3
    <2> QED
      BY <2>1, <2>2
  <1> QED
    BY <1>6, <1>7, <1>8, <1>9, <1>12, <1>13, <1>14, <1>15, <1>16 DEF Parts

\* Every step keeps the invariant.
LEMMA StreamNext ==
    ASSUME Stream!ActivityStreamConstants, StreamInv, [Stream!Next]_(Stream!vars)
    PROVE  StreamInv'
  <1>1. Stream!TypeOK'
    BY StreamTypeOK DEF StreamInv
  <1>2. Parts'
    <2>1. CASE Stream!Tick \/ Stream!Close \/ UNCHANGED Stream!vars
      <3>1. UNCHANGED <<Stream!audit, Stream!api, wire, initial, seen, shown, Stream!ghost>>
            /\ (stream' = stream \/ stream' = "closed")
        BY <2>1 DEF Stream!Tick, Stream!Close, Stream!vars, Stream!page
      <3> QED
        BY <3>1, QuietParts
    <2>2. CASE Stream!LoadPage
      BY <2>2, LoadPageParts
    <2>3. CASE Stream!Open
      BY <2>3, OpenParts
    <2>4. CASE Stream!Receive
      BY <2>4, ReceiveParts
    <2>5. CASE \E r \in Stream!Ids : Stream!Log(r) \/ Stream!Commit(r)
      BY <2>5, LogParts, CommitParts
    <2>6. CASE \E p \in Polls : Stream!Poll(p) \/ Stream!Read(p) \/ Stream!Answer(p)
      BY <2>6, PollParts, ReadParts, AnswerParts
    <2> QED
      BY <2>1, <2>2, <2>3, <2>4, <2>5, <2>6 DEF Stream!Next
  <1> QED
    BY <1>1, <1>2 DEF Parts, StreamInv

LEMMA StreamHolds == Stream!Spec => []StreamInv
  <1>1. Stream!Init => StreamInv
    BY StreamAssumption, StreamInit
  <1>2. StreamInv /\ [Stream!Next]_(Stream!vars) => StreamInv'
    BY StreamAssumption, StreamNext
  <1> QED
    BY <1>1, <1>2, PTL DEF Stream!Spec

\* The audit rows, the stream, its polls and the page keep their types.
THEOREM ActivityStreamTypeOK == Stream!Spec => []Stream!TypeOK
  <1>1. StreamInv => Stream!TypeOK
    BY DEF StreamInv
  <1> QED
    BY <1>1, StreamHolds, PTL

\* A row that commits while the stream is open is shown, on its way or ahead of
\* the polls to come, however the polls overlap and answer: what is owed lies
\* ahead of every poll.
THEOREM SkippedSafe == Stream!Spec => []NothingIsSkipped
  <1>1. StreamInv => NothingIsSkipped
    <2> SUFFICES ASSUME StreamInv, stream = "open", NEW r \in committed \ overtaken, stamp[r] > from
                 PROVE  r \in seen \/ OnWire(r) \/ stamp[r] > watermark
      BY DEF NothingIsSkipped, Stream!NothingIsSkipped, OnWire
    <2>1. r \in Stream!Ids
      BY DEF StreamInv, Stream!TypeOK
    <2> QED
      BY <2>1 DEF StreamInv, OwedIsAhead, Owed, Known
  <1> QED
    BY <1>1, StreamHolds, PTL

\* The feed shows each row once, and what the stream has added in the order of
\* the audit log.
THEOREM FeedSafe == Stream!Spec => []FeedIsInOrder
  <1>1. StreamInv => FeedIsInOrder
    BY DEF StreamInv, FeedIsInOrder
  <1> QED
    BY <1>1, StreamHolds, PTL

=============================================================================
