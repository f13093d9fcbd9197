--------------------------- MODULE ActivityStream ---------------------------
(***************************************************************************)
(* The live feed of a dashboard: audit rows, the stream that polls them    *)
(* for one page, and the page that shows them.                             *)
(*                                                                         *)
(* A row is stamped when it is written and visible when its transaction    *)
(* commits.  The page is rendered with the newest rows and opens the       *)
(* stream later, which therefore starts a few seconds back.  The stream    *)
(* polls on a timer without waiting for the poll before; each answer sets  *)
(* the watermark to what the poll had read up to, forwards or back.        *)
(***************************************************************************)
EXTENDS Integers, FiniteSets, Sequences

CONSTANTS
    MaxRows,    \* audit rows, 1 .. MaxRows; a row is its id
    Polls,      \* polls that may overlap
    Lag,        \* the five seconds the stream starts back, in ticks
    Recent,     \* the rows the page is rendered with
    PageSize,   \* rows of a poll
    Kept,       \* rows the feed keeps
    None,
    MaxClock    \* bound on time

\* What is assumed of the constants.
ActivityStreamConstants ==
    /\ MaxRows \in Nat /\ Lag \in Nat /\ Recent \in Nat /\ MaxClock \in Nat
    /\ PageSize \in Nat \ {0} /\ Kept \in Nat
    /\ None \notin Int

Ids == 1 .. MaxRows

VARIABLES
    clock,
    stamp, committed,   \* audit_logs: timestamps, and the visible rows
    stream,             \* the page: unloaded, loaded, open, closed
    watermark,          \* of activityStream
    ppc, since, items,  \* each poll's step, argument and rows
    wire,               \* rows on their way to the page
    initial, seen, rows,\* LiveActivityFeed
    \* not in the code: where the stream began, the newest timestamp a poll has read up
    \* to, and the rows that committed behind it or that a full poll cut off
    from, newest, overtaken

audit == <<stamp, committed>>
api   == <<watermark, ppc, since, items>>
page  == <<stream, initial, seen, rows>>
ghost == <<from, newest, overtaken>>
vars  == <<clock, audit, api, wire, page, ghost>>

Init ==
    /\ clock = 0
    /\ stamp = [r \in Ids |-> None] /\ committed = {}
    /\ stream = "unloaded" /\ initial = {} /\ seen = {} /\ rows = <<>>
    /\ watermark = 0
    /\ ppc = [p \in Polls |-> "idle"]
    /\ since = [p \in Polls |-> None]
    /\ items = [p \in Polls |-> <<>>]
    /\ wire = <<>>
    /\ from = 0 /\ newest = -1 /\ overtaken = {}

Tick ==
    /\ clock < MaxClock
    /\ clock' = clock + 1
    /\ UNCHANGED <<audit, api, wire, page, ghost>>

-----------------------------------------------------------------------------
(* AuditService                                                            *)

\* auditLog.create; the row may be part of a longer transaction.
Log(r) ==
    /\ stamp[r] = None
    /\ stamp' = [stamp EXCEPT ![r] = clock]
    /\ UNCHANGED <<clock, committed, api, wire, page, ghost>>

\* The transaction of logWithTx, or of the insert alone, commits.
Commit(r) ==
    /\ stamp[r] # None /\ r \notin committed
    /\ committed' = committed \cup {r}
    /\ overtaken' = IF stamp[r] <= newest THEN overtaken \cup {r} ELSE overtaken
    /\ UNCHANGED <<clock, stamp, api, wire, page, from, newest>>

\* list, newest first; rows of one timestamp come in any order.
Listings(limit) ==
    {s \in UNION {[1 .. n -> committed] : n \in 0 .. limit} :
        /\ \A i, j \in DOMAIN s : i < j => s[i] # s[j] /\ stamp[s[i]] >= stamp[s[j]]
        /\ \A r \in committed : \/ \E i \in DOMAIN s : s[i] = r
                                \/ Len(s) = limit /\ \A i \in DOMAIN s : stamp[r] <= stamp[s[i]]}

-----------------------------------------------------------------------------
(* The stream.                                                             *)

\* The proxy route has passed on the request, and activityStream subscribed.
Open ==
    /\ stream = "loaded"
    /\ stream' = "open"
    /\ watermark' = clock - Lag
    /\ from' = clock - Lag
    /\ UNCHANGED <<clock, audit, ppc, since, items, wire, initial, seen, rows, newest, overtaken>>

\* A tick of the interval, which does not wait for the poll before.
Poll(p) ==
    /\ stream = "open"
    /\ ppc[p] = "idle"
    /\ ppc' = [ppc EXCEPT ![p] = "asked"]
    /\ since' = [since EXCEPT ![p] = watermark]
    /\ UNCHANGED <<clock, audit, watermark, items, wire, page, ghost>>

Before(a, b) == stamp[a] < stamp[b] \/ (stamp[a] = stamp[b] /\ a < b)

NewRows(p) == {r \in committed : stamp[r] > since[p]}

\* The oldest PageSize rows of S, the oldest first.
Pages(S) ==
    {s \in UNION {[1 .. n -> S] : n \in 0 .. PageSize} :
        /\ \A i, j \in DOMAIN s : i < j => Before(s[i], s[j])
        /\ \A r \in S : \/ \E i \in DOMAIN s : s[i] = r
                        \/ Len(s) = PageSize /\ \A i \in DOMAIN s : Before(s[i], r)}

ReadUpToNow(s, asked) == clock

\* The timestamp of the last row, or what the poll had asked for.
ReadUpTo(s, asked) == IF s = <<>> THEN asked ELSE stamp[s[Len(s)]]

\* pollAuditSince
Read(p) ==
    /\ ppc[p] = "asked"
    /\ ppc' = [ppc EXCEPT ![p] = "read"]
    /\ \E s \in Pages(NewRows(p)) :
         LET upTo == ReadUpTo(s, since[p]) IN
         /\ items' = [items EXCEPT ![p] = s]
         /\ newest' = IF upTo > newest THEN upTo ELSE newest
         /\ overtaken' = overtaken \cup
               {r \in NewRows(p) : stamp[r] = upTo /\ ~ \E i \in DOMAIN s : s[i] = r}
    /\ UNCHANGED <<clock, audit, watermark, since, wire, page, from>>

Answer(p) ==
    /\ stream = "open"
    /\ ppc[p] = "read"
    /\ watermark' = ReadUpTo(items[p], since[p])
    /\ wire' = wire \o items[p]
    /\ ppc' = [ppc EXCEPT ![p] = "idle"]
    /\ since' = [since EXCEPT ![p] = None]
    /\ items' = [items EXCEPT ![p] = <<>>]
    /\ UNCHANGED <<clock, audit, page, ghost>>

-----------------------------------------------------------------------------
(* The page.                                                               *)

LoadPage ==
    /\ stream = "unloaded"
    /\ stream' = "loaded"
    /\ rows' \in Listings(Recent)
    /\ initial' = {rows'[i] : i \in DOMAIN rows'}
    /\ seen' = initial'
    /\ UNCHANGED <<clock, audit, api, wire, ghost>>

MergedBelow(r) ==
    LET merged == rows \o <<r>> IN
    SubSeq(merged, 1, IF Len(merged) < Kept THEN Len(merged) ELSE Kept)

\* setRows: the newest on top.
Merged(r) ==
    LET merged == <<r>> \o rows IN
    SubSeq(merged, 1, IF Len(merged) < Kept THEN Len(merged) ELSE Kept)

\* onmessage
Receive ==
    /\ stream = "open"
    /\ wire # <<>>
    /\ wire' = Tail(wire)
    /\ LET r == Head(wire) IN
       IF r \in seen THEN UNCHANGED <<seen, rows>>
       ELSE seen' = seen \cup {r} /\ rows' = Merged(r)
    /\ UNCHANGED <<clock, audit, api, stream, initial, ghost>>

\* A poll or the request failed, the token was refused, or the page is left; an
\* EventSource that is closed is not opened again.
Close ==
    /\ stream \in {"loaded", "open"}
    /\ stream' = "closed"
    /\ UNCHANGED <<clock, audit, api, wire, initial, seen, rows, ghost>>

Next ==
    \/ Tick \/ LoadPage \/ Open \/ Receive \/ Close
    \/ \E r \in Ids : Log(r) \/ Commit(r)
    \/ \E p \in Polls : Poll(p) \/ Read(p) \/ Answer(p)

Spec == Init /\ [][Next]_vars

-----------------------------------------------------------------------------
TypeOK ==
    /\ clock \in 0 .. MaxClock
    /\ stamp \in [Ids -> (0 .. MaxClock) \cup {None}] /\ committed \subseteq Ids
    /\ stream \in {"unloaded", "loaded", "open", "closed"}
    /\ watermark \in Int /\ from \in Int /\ newest \in Int
    /\ ppc \in [Polls -> {"idle", "asked", "read"}]
    /\ since \in [Polls -> Int \cup {None}]
    /\ items \in [Polls -> Seq(Ids)]
    /\ wire \in Seq(Ids) /\ rows \in Seq(Ids)
    /\ initial \subseteq Ids /\ seen \subseteq Ids /\ overtaken \subseteq Ids

\* A row that commits while the page's stream is open is shown, on its way to
\* the page or still ahead of every poll to come, whatever polls overlap and in
\* whatever order they answer: unless it was stamped before the stream began,
\* or overtaken.
NothingIsSkipped ==
    stream = "open" =>
        \A r \in committed \ overtaken :
            stamp[r] > from =>
                \/ r \in seen \/ \E i \in DOMAIN wire : wire[i] = r
                \/ stamp[r] > watermark

\* The feed shows no row twice, and the rows the stream has added are in the
\* order of the audit log, the newest on top, but for those that were overtaken.
FeedIsInOrder ==
    \A i, j \in DOMAIN rows : i < j =>
        /\ rows[i] # rows[j]
        /\ \/ rows[j] \in initial \/ rows[i] \in overtaken
           \/ stamp[rows[i]] >= stamp[rows[j]]

=============================================================================
