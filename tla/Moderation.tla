------------------------------ MODULE Moderation ------------------------------
(***************************************************************************)
(* Reports on users, their moderation, and the support ticket of each.     *)
(*                                                                         *)
(* approve, reject, the "resolve" of a ticket and submitEvidence read a    *)
(* row, decide on what they read, and then write in a transaction that     *)
(* does not look at it again.  A transaction is one step: it locks what it *)
(* writes in the order user, report, ticket and reads nothing else that    *)
(* can change.  One that Postgres rolls back is a Die.                     *)
(*                                                                         *)
(* "keys" holds the idempotency keys of outbox_events that can come up     *)
(* twice; the column is unique, and an enqueue of a taken key rolls the    *)
(* whole transaction back.  A link is given in one request only.           *)
(*                                                                         *)
(* "told", "atRisk" and "byHand" are not in the code: they record what     *)
(* reporters were told, which links another submission could overwrite     *)
(* that read the ticket before them, and who set a ticket's status last.   *)
(***************************************************************************)
EXTENDS Naturals, FiniteSets

CONSTANTS
    Reports,
    Moderators,     \* admins who approve and reject
    Patchers,       \* admins who set the status of tickets by hand
    Removers,       \* admins who delete flags
    Reporters,      \* requests of reporters that send evidence
    Links,
    MaxFiles,       \* bound on the images of a request (the code's is 8)
    None,
    MaxFaults       \* bound on requests that die or are rolled back

Procs == Moderators \cup Reporters

TicketStatuses ==
    {"OPEN", "NEEDS_EVIDENCE", "EVIDENCE_SUBMITTED", "UNDER_REVIEW", "RESOLVED", "REJECTED"}

ASSUME ModerationAssumption ==
    /\ Moderators \cap Reporters = {}
    /\ MaxFiles \in Nat
    /\ None \notin Reports
    /\ MaxFaults \in Nat

VARIABLES
    report,  \* reports.status, or "none" when there is no such row yet
    flagId,  \* is reports.flag_id set?
    flags,   \* how many flags made from this report the user carries
    ticket,  \* support_tickets.status, or "none"
    links,   \* support_tickets.evidence_links
    keys,
    told,    \* links whose submission was answered { ok: true }
    atRisk,  \* those of them that a submission under way had not read
    byHand,  \* reports whose ticket had its status set by adminPatch last
    pc, rpt, snap, sent, files,  \* a request: the report, what it read, what it brings
    faults

rows  == <<report, flagId, flags, ticket, links, keys, told, atRisk, byHand>>
local == <<pc, rpt, snap, sent, files>>
vars  == <<rows, local, faults>>

\* A pending report may be older than the table of tickets.
Init ==
    /\ report \in [Reports -> {"none", "PENDING"}]
    /\ flagId = [r \in Reports |-> FALSE]
    /\ flags = [r \in Reports |-> 0]
    /\ ticket = [r \in Reports |-> "none"]
    /\ links = [r \in Reports |-> {}]
    /\ keys = {}
    /\ told = [r \in Reports |-> {}]
    /\ atRisk = [r \in Reports |-> {}]
    /\ byHand = {}
    /\ pc = [p \in Procs |-> "idle"]
    /\ rpt = [p \in Procs |-> None]
    /\ snap = [p \in Procs |-> {}]
    /\ sent = [p \in Procs |-> {}]
    /\ files = [p \in Procs |-> 0]
    /\ faults = 0

Take(p, r, step) ==
    /\ pc' = [pc EXCEPT ![p] = step]
    /\ rpt' = [rpt EXCEPT ![p] = r]

Leave(p) ==
    /\ Take(p, None, "idle")
    /\ snap' = [snap EXCEPT ![p] = {}]
    /\ sent' = [sent EXCEPT ![p] = {}]
    /\ files' = [files EXCEPT ![p] = 0]

-----------------------------------------------------------------------------
(* New reports.                                                            *)

\* createPendingReport, with createForPendingReport.
CreatePending(r) ==
    /\ report[r] = "none"
    /\ report' = [report EXCEPT ![r] = "PENDING"]
    /\ ticket' = [ticket EXCEPT ![r] = "OPEN"]
    /\ UNCHANGED <<flagId, flags, links, keys, told, atRisk, byHand, local, faults>>

\* createInstantReport: accepted with its flag, no ticket.
CreateInstant(r) ==
    /\ report[r] = "none"
    /\ report' = [report EXCEPT ![r] = "ACCEPTED"]
    /\ flagId' = [flagId EXCEPT ![r] = TRUE]
    /\ flags' = [flags EXCEPT ![r] = 1]
    /\ UNCHANGED <<ticket, links, keys, told, atRisk, byHand, local, faults>>

-----------------------------------------------------------------------------
(* Decisions.                                                              *)

Pending(r) == report[r] = "PENDING"

\* The checks of approve and reject, outside their transactions.
CheckApprove(m, r) ==
    /\ \/ pc[m] = "idle"
       \/ pc[m] = "resolve" /\ rpt[m] = r
    /\ Pending(r) /\ ~flagId[r]
    /\ Take(m, r, "approve")
    /\ UNCHANGED <<rows, snap, sent, files, faults>>

CheckReject(m, r) ==
    /\ pc[m] = "idle"
    /\ Pending(r)
    /\ Take(m, r, "reject")
    /\ UNCHANGED <<rows, snap, sent, files, faults>>

\* POST admin/tickets/:id/resolve checks, and calls approve.
Resolve(m, r) ==
    /\ pc[m] = "idle"
    /\ ticket[r] # "none"
    /\ Pending(r)
    /\ Take(m, r, "resolve")
    /\ UNCHANGED <<rows, snap, sent, files, faults>>

\* Decided between the check of resolve and that of approve.
ResolveRefused(m) ==
    /\ pc[m] = "resolve"
    /\ ~Pending(rpt[m])
    /\ Leave(m)
    /\ UNCHANGED <<rows, faults>>

LeaveClosed(r, status) ==
    IF ticket[r] \in {"RESOLVED", "REJECTED"} THEN ticket ELSE [ticket EXCEPT ![r] = status]

\* finalizeTicketForReport
Finalized(r, status) ==
    IF ticket[r] = "none" THEN ticket ELSE [ticket EXCEPT ![r] = status]

FinalKeys(r, status) == IF ticket[r] = "none" THEN {} ELSE {<<"resolved", r, status>>}

NoKeys(r) == {}

ApprovedKeys(r) == {<<"approved", r>>}

CommitApprove(m) ==
    LET r == rpt[m]
        new == ApprovedKeys(r) \cup FinalKeys(r, "RESOLVED")
    IN  /\ pc[m] = "approve"
        /\ new \cap keys = {}
        /\ keys' = keys \cup new
        /\ flags' = [flags EXCEPT ![r] = @ + 1]
        /\ flagId' = [flagId EXCEPT ![r] = TRUE]
        /\ report' = [report EXCEPT ![r] = "ACCEPTED"]
        /\ ticket' = Finalized(r, "RESOLVED")
        /\ byHand' = byHand \ {r}
        /\ Leave(m)
        /\ UNCHANGED <<links, told, atRisk, faults>>

CommitReject(m) ==
    LET r == rpt[m]
        new == FinalKeys(r, "REJECTED")
    IN  /\ pc[m] = "reject"
        /\ new \cap keys = {}
        /\ keys' = keys \cup new
        /\ report' = [report EXCEPT ![r] = "REJECTED"]
        /\ ticket' = Finalized(r, "REJECTED")
        /\ byHand' = byHand \ {r}
        /\ Leave(m)
        /\ UNCHANGED <<flagId, flags, links, told, atRisk, faults>>

-----------------------------------------------------------------------------
(* Evidence.                                                               *)

Images == 0 .. MaxFiles

\* submitEvidence checks the status and reads the links, outside its
\* transaction.
CheckEvidence(q, r, s, n) ==
    /\ pc[q] = "idle"
    /\ ticket[r] = "NEEDS_EVIDENCE"
    /\ s # {} \/ n > 0
    /\ s \cap (told[r] \cup UNION {sent[p] : p \in Reporters}) = {}
    /\ Take(q, r, "evidence")
    /\ snap' = [snap EXCEPT ![q] = links[r]]
    /\ sent' = [sent EXCEPT ![q] = s]
    /\ files' = [files EXCEPT ![q] = n]
    /\ UNCHANGED <<rows, faults>>

OnlySent(q) == sent[q]

NextLinks(q) == snap[q] \cup sent[q]

\* The key is made of counts, not of the submission.
EvidenceKey(q) == <<"evidence", rpt[q], files[q], Cardinality(NextLinks(q))>>

\* Another submission goes on with links it read before this one commits; with
\* the same key it is going to be refused.
Overtakes(q) ==
    \E p \in Reporters \ {q} :
        pc[p] = "evidence" /\ rpt[p] = rpt[q] /\ EvidenceKey(p) # EvidenceKey(q)

CommitEvidence(q) ==
    LET r == rpt[q] IN
    /\ pc[q] = "evidence"
    /\ EvidenceKey(q) \notin keys
    /\ keys' = keys \cup {EvidenceKey(q)}
    /\ links' = [links EXCEPT ![r] = NextLinks(q)]
    /\ ticket' = [ticket EXCEPT ![r] = "EVIDENCE_SUBMITTED"]
    /\ told' = [told EXCEPT ![r] = @ \cup sent[q]]
    /\ atRisk' = IF Overtakes(q) THEN [atRisk EXCEPT ![r] = @ \cup sent[q]] ELSE atRisk
    /\ byHand' = byHand \ {r}
    /\ Leave(q)
    /\ UNCHANGED <<report, flagId, flags, faults>>

-----------------------------------------------------------------------------
(* What else touches the rows.                                             *)

\* adminPatch: any status at any time.
Patch(r, status) ==
    /\ ticket[r] # "none"
    /\ ticket' = [ticket EXCEPT ![r] = status]
    /\ byHand' = byHand \cup {r}
    /\ UNCHANGED <<report, flagId, flags, links, keys, told, atRisk, local, faults>>

\* deleteFlag; the foreign key sets reports.flag_id to NULL.
DeleteFlag(r) ==
    /\ flags[r] > 0
    /\ flags' = [flags EXCEPT ![r] = @ - 1]
    /\ flagId' = [flagId EXCEPT ![r] = FALSE]
    /\ UNCHANGED <<report, ticket, links, keys, told, atRisk, byHand, local, faults>>

\* The enqueue meets a taken key (P2002).
KeyTaken(p) ==
    /\ \/ pc[p] = "approve" /\ (ApprovedKeys(rpt[p]) \cup FinalKeys(rpt[p], "RESOLVED")) \cap keys # {}
       \/ pc[p] = "reject" /\ FinalKeys(rpt[p], "REJECTED") \cap keys # {}
       \/ pc[p] = "evidence" /\ EvidenceKey(p) \in keys
    /\ Leave(p)
    /\ UNCHANGED <<rows, faults>>

Die(p) ==
    /\ pc[p] # "idle"
    /\ faults < MaxFaults
    /\ faults' = faults + 1
    /\ Leave(p)
    /\ UNCHANGED rows

Decide(m) ==
    \/ \E r \in Reports : CheckApprove(m, r) \/ CheckReject(m, r) \/ Resolve(m, r)
    \/ ResolveRefused(m) \/ CommitApprove(m) \/ CommitReject(m)

Submit(q) ==
    \/ \E r \in Reports, s \in SUBSET Links, n \in Images : CheckEvidence(q, r, s, n)
    \/ CommitEvidence(q)

Next ==
    \/ \E r \in Reports : CreatePending(r) \/ CreateInstant(r)
    \/ \E m \in Moderators : Decide(m)
    \/ \E q \in Reporters : Submit(q)
    \/ \E x \in Patchers, r \in Reports, status \in TicketStatuses : Patch(r, status)
    \/ \E x \in Removers, r \in Reports : DeleteFlag(r)
    \/ \E p \in Procs : KeyTaken(p) \/ Die(p)

Spec == Init /\ [][Next]_vars

-----------------------------------------------------------------------------
(* What is expected of moderation.                                         *)

ReportStatuses == {"PENDING", "ACCEPTED", "REJECTED"}

TypeOK ==
    /\ report \in [Reports -> ReportStatuses \cup {"none"}]
    /\ flagId \in [Reports -> BOOLEAN]
    /\ flags \in [Reports -> Nat]
    /\ ticket \in [Reports -> TicketStatuses \cup {"none"}]
    /\ links \in [Reports -> SUBSET Links]
    /\ told \in [Reports -> SUBSET Links]
    /\ atRisk \in [Reports -> SUBSET Links]
    /\ byHand \subseteq Reports
    /\ pc \in [Procs -> {"idle", "resolve", "approve", "reject", "evidence"}]
    /\ rpt \in [Procs -> Reports \cup {None}]
    /\ snap \in [Procs -> SUBSET Links]
    /\ sent \in [Procs -> SUBSET Links]
    /\ files \in [Procs -> 0 .. MaxFiles]
    /\ faults \in Nat

\* However many admins decide on a report at once, it counts against the user
\* at most once, and the flag it made is the one it names.
OneFlagPerReport ==
    \A r \in Reports : flags[r] <= 1 /\ (flagId[r] <=> flags[r] = 1)

\* A ticket that is closed was closed by the decision its report carries, even
\* when two contrary decisions are made at once and whatever admins set by hand
\* before, unless it was closed by hand.
ClosedTicketAgrees ==
    \A r \in Reports \ byHand :
        /\ ticket[r] = "RESOLVED" => report[r] = "ACCEPTED"
        /\ ticket[r] = "REJECTED" => report[r] = "REJECTED"

\* A submission that was answered { ok: true } keeps its links, unless another
\* one of the same ticket was between its check and its transaction then.
NoEvidenceLost == \A r \in Reports : told[r] \ links[r] \subseteq atRisk[r]

\* submitEvidence adds to the links of the ticket ("merged" with the "prev"
\* ones), and answers { ok: true }.
EvidenceKept == \A r \in Reports : told[r] \subseteq links[r]

\* Only a pending report is decided: one that is rejected has no flag.
RejectedLeavesNoFlag == \A r \in Reports : report[r] = "REJECTED" => flags[r] = 0

=============================================================================
