---------------------------- MODULE TicketThread ----------------------------
(***************************************************************************)
(* The conversation of one support ticket: the pages that show it          *)
(* (TicketThreadClient), for its reporter or for an admin, the messages    *)
(* they post (TicketsService), and the decision that closes it.            *)
(*                                                                         *)
(* A page asks for the list of messages every 2.5 seconds, whether or not  *)
(* it has had the last list, and once more after each message it sent; it  *)
(* shows the list that came last.  The API lists messages in the order of  *)
(* their insertion, so that its length tells a list apart.  Posting is a   *)
(* read, an insert and an update, without a transaction, in a request that *)
(* the API goes on with when its answer cannot reach the page any more.    *)
(* Of the ticket's status it only matters whether it is closed (RESOLVED   *)
(* or REJECTED).                                                           *)
(***************************************************************************)
EXTENDS Naturals, FiniteSets, Sequences

CONSTANTS
    Pages,      \* pages that show the ticket, each in a browser of its own
    Admins,     \* those of them that are an admin's; the others are the reporter's
    Deciders,   \* admins who decide the report elsewhere
    Posts,      \* requests to post that run in the API at once
    None,
    MaxPulls,   \* bound on the requests for the list that each page has under way
    MaxTexts,   \* bound on the messages a page has to send
    MaxFaults   \* bound on failures and on what staff change by hand

ASSUME TicketThreadAssumption ==
    /\ Admins \subseteq Pages
    /\ None \notin Nat \cup Pages \cup Deciders
    /\ IsFiniteSet(Posts)
    /\ MaxPulls \in [Pages -> Nat \ {0}] /\ MaxTexts \in Nat /\ MaxFaults \in Nat

VARIABLES
    closed, assigned,   \* support_tickets: is it closed, and to whom is it assigned
    decided,            \* the decider whose decision the report has, or None
    deciding,           \* deciders who have read the report before it was decided
    thread,             \* support_ticket_messages: author and text
    pc,                 \* each page: not loaded, idle, or sending
    canPost,            \* its prop, from the status when it was rendered
    typed, text,        \* texts written so far; is the last still in the box?
    step, message,      \* each request to post: its next step, and what it posts
    seen,               \* the assignment it has read
    awaited,            \* requests whose page waits for the answer
    shown,              \* the list each page shows
    asked, lists,       \* requests for the list on their way, and lists on theirs
    \* not in the code: how often a page was told that its message failed, and
    \* the pages that were half way with a message when the ticket was last
    \* closed, and when its report was decided
    setbacks, atClose, atDecision,
    faults

ticket  == <<closed, assigned, decided>>
sending == <<pc, canPost, typed, text, setbacks>>
posting == <<step, message, seen, awaited>>
pulls   == <<asked, lists>>
staff   == <<deciding, atClose, atDecision>>
vars    == <<ticket, thread, sending, posting, shown, pulls, staff, faults>>

Init ==
    /\ closed = FALSE /\ assigned = None /\ decided = None /\ deciding = {}
    /\ thread = <<>>
    /\ pc = [p \in Pages |-> "away"]
    /\ canPost = [p \in Pages |-> FALSE]
    /\ typed = [p \in Pages |-> 0] /\ text = [p \in Pages |-> FALSE]
    /\ step = [q \in Posts |-> "free"] /\ message = [q \in Posts |-> None]
    /\ seen = [q \in Posts |-> None] /\ awaited = {}
    /\ shown = [p \in Pages |-> 0]
    /\ asked = [p \in Pages |-> 0] /\ lists = [p \in Pages |-> {}]
    /\ setbacks = [p \in Pages |-> 0]
    /\ atClose = {} /\ atDecision = {}
    /\ faults = 0

Fault == faults < MaxFaults /\ faults' = faults + 1

Goto(p, next) == pc' = [pc EXCEPT ![p] = next]

\* The page is there; while it sends, its box is disabled.
Mounted(p) == pc[p] \in {"idle", "sending", "sent"}

-----------------------------------------------------------------------------
(* Pages.                                                                  *)

\* TicketDetailPage reads the ticket, and then its messages.
LoadTicket(p) ==
    /\ pc[p] = "away"
    /\ canPost' = [canPost EXCEPT ![p] = ~closed]
    /\ Goto(p, "loading")
    /\ UNCHANGED <<ticket, thread, typed, text, setbacks, posting, shown, pulls, staff, faults>>

LoadMessages(p) ==
    /\ pc[p] = "loading"
    /\ shown' = [shown EXCEPT ![p] = Len(thread)]
    /\ Goto(p, "idle")
    /\ UNCHANGED <<ticket, thread, canPost, typed, text, setbacks, posting, pulls, staff, faults>>

\* At most MaxPulls are under way; lists of one length count once.
Asks(p) ==
    /\ asked[p] + Cardinality(lists[p]) < MaxPulls[p]
    /\ asked' = [asked EXCEPT ![p] = @ + 1]

AsksOnlyAfterSending(p) == FALSE

\* setInterval, as long as the page is in view.
Pull(p) ==
    /\ Mounted(p)
    /\ Asks(p)
    /\ UNCHANGED <<ticket, thread, sending, posting, shown, lists, staff, faults>>

\* listTicketMessages
ListMessages(p) ==
    /\ asked[p] > 0
    /\ asked' = [asked EXCEPT ![p] = @ - 1]
    /\ lists' = [lists EXCEPT ![p] = @ \cup {Len(thread)}]
    /\ UNCHANGED <<ticket, thread, sending, posting, shown, staff, faults>>

\* setItems, of whichever list came.
ShowList(p) ==
    /\ \E list \in lists[p] :
         /\ shown' = [shown EXCEPT ![p] = list]
         /\ lists' = [lists EXCEPT ![p] = @ \ {list}]
    /\ UNCHANGED <<ticket, thread, sending, posting, asked, staff, faults>>

PullFails(p) ==
    /\ asked[p] > 0
    /\ Fault
    /\ asked' = [asked EXCEPT ![p] = @ - 1]
    /\ UNCHANGED <<ticket, thread, sending, posting, shown, lists, staff>>

\* A text of a page that may post.
Type(p) ==
    /\ pc[p] = "idle"
    /\ canPost[p]
    /\ ~text[p]
    /\ typed[p] < MaxTexts
    /\ typed' = [typed EXCEPT ![p] = @ + 1]
    /\ text' = [text EXCEPT ![p] = TRUE]
    /\ setbacks' = [setbacks EXCEPT ![p] = 0]
    /\ UNCHANGED <<ticket, thread, pc, canPost, posting, shown, pulls, staff, faults>>

Message(p) == [from |-> p, text |-> typed[p]]

\* onSend: a request, and which of those that are free does not matter.
Send(p) ==
    /\ pc[p] = "idle"
    /\ canPost[p] /\ text[p]
    /\ \E q \in Posts : step[q] = "free"
    /\ LET q == CHOOSE q \in Posts : step[q] = "free"
       IN  /\ step' = [step EXCEPT ![q] = "check"]
           /\ message' = [message EXCEPT ![q] = Message(p)]
           /\ awaited' = awaited \cup {q}
    /\ Goto(p, "sending")
    /\ UNCHANGED <<ticket, thread, canPost, typed, text, setbacks, seen>>
    /\ UNCHANGED <<shown, pulls, staff, faults>>

Kept(p) == text

Cleared(p) == [text EXCEPT ![p] = FALSE]

\* The action has rendered the page again, and the box is emptied.
Sent(p) ==
    /\ pc[p] = "sent"
    /\ canPost' = [canPost EXCEPT ![p] = ~closed]
    /\ text' = Cleared(p)
    /\ Asks(p)
    /\ Goto(p, "idle")
    /\ UNCHANGED <<ticket, thread, typed, setbacks, posting, shown, lists, staff, faults>>

\* The action throws, and an error takes the place of the page: the lists on
\* their way to it are dropped.  Its reader knows what there was to send.
SendFails(p) ==
    /\ setbacks' = [setbacks EXCEPT ![p] = @ + 1]
    /\ shown' = [shown EXCEPT ![p] = 0]
    /\ asked' = [asked EXCEPT ![p] = 0] /\ lists' = [lists EXCEPT ![p] = {}]
    /\ Goto(p, "away")
    /\ UNCHANGED <<canPost, typed, text>>

\* The answer does not come, whatever the API does with the request.
AnswerLost(p) ==
    /\ pc[p] \in {"sending", "sent"}
    /\ Fault
    /\ awaited' = {q \in awaited : message[q].from # p}
    /\ SendFails(p)
    /\ UNCHANGED <<ticket, thread, step, message, seen, staff>>

-----------------------------------------------------------------------------
(* postTicketMessageFromUser and postTicketMessageFromAdmin, in the API.   *)

PostGoes(q, next) == step' = [step EXCEPT ![q] = next]

PostEnds(q) ==
    /\ PostGoes(q, "free")
    /\ message' = [message EXCEPT ![q] = None]
    /\ seen' = [seen EXCEPT ![q] = None]
    /\ awaited' = awaited \ {q}

AnyTicket == TRUE

\* assertTicketOpenForChat
OpenForChat == ~closed

ReadTicket(q) ==
    /\ step[q] = "check"
    /\ OpenForChat
    /\ seen' = [seen EXCEPT ![q] = assigned]
    /\ PostGoes(q, "insert")
    /\ UNCHANGED <<ticket, thread, sending, message, awaited, shown, pulls, staff, faults>>

InsertMessage(q) ==
    /\ step[q] = "insert"
    /\ thread' = Append(thread, message[q])
    /\ PostGoes(q, "touch")
    /\ UNCHANGED <<ticket, sending, message, seen, awaited, shown, pulls, staff, faults>>

TakesOver(q) == IF message[q].from \in Admins THEN message[q].from ELSE assigned

\* The admin who answers first is assigned.
Assignee(q) ==
    IF message[q].from \notin Admins THEN assigned
    ELSE IF seen[q] = None THEN message[q].from ELSE seen[q]

TouchTicket(q) ==
    /\ step[q] = "touch"
    /\ assigned' = Assignee(q)
    /\ IF q \in awaited THEN Goto(message[q].from, "sent") ELSE UNCHANGED pc
    /\ PostEnds(q)
    /\ UNCHANGED <<closed, decided, thread, canPost, typed, text, setbacks>>
    /\ UNCHANGED <<shown, pulls, staff, faults>>

\* A closed ticket refuses it, a statement fails, or the process dies.
PostFails(q) ==
    /\ \/ step[q] = "check" /\ ~OpenForChat /\ UNCHANGED faults
       \/ step[q] # "free" /\ Fault
    /\ PostEnds(q)
    /\ IF q \in awaited THEN SendFails(message[q].from) ELSE UNCHANGED <<sending, shown, pulls>>
    /\ UNCHANGED <<ticket, thread, staff>>

-----------------------------------------------------------------------------
(* Staff.                                                                  *)

HalfWay == {message[q].from : q \in {r \in Posts : step[r] \in {"insert", "touch"}}}

\* approve and reject read the report before their transactions.
CheckReport(d) ==
    /\ decided = None
    /\ deciding' = deciding \cup {d}
    /\ UNCHANGED <<ticket, thread, sending, posting, shown, pulls, atClose, atDecision, faults>>

\* finalizeTicketForReport, when the report is decided.
Decide(d) ==
    /\ d \in deciding
    /\ deciding' = deciding \ {d}
    /\ decided' = d
    /\ closed' = TRUE
    /\ assigned' = d
    /\ atClose' = HalfWay /\ atDecision' = HalfWay
    /\ UNCHANGED <<thread, sending, posting, shown, pulls, faults>>

\* adminPatch: an admin sets the status by hand, whatever it is.
Patch ==
    /\ Fault
    /\ closed' = ~closed
    /\ atClose' = IF closed THEN atClose ELSE HalfWay
    /\ UNCHANGED <<assigned, decided, deciding, thread, sending, posting, shown, pulls, atDecision>>

-----------------------------------------------------------------------------
Load(p) == LoadTicket(p) \/ LoadMessages(p)

Refresh(p) == Pull(p) \/ ListMessages(p) \/ ShowList(p) \/ PullFails(p)

Post(q) == ReadTicket(q) \/ InsertMessage(q) \/ TouchTicket(q) \/ PostFails(q)

Next ==
    \/ \E p \in Pages : Load(p) \/ Type(p) \/ Send(p) \/ Sent(p) \/ AnswerLost(p) \/ Refresh(p)
    \/ \E q \in Posts : Post(q)
    \/ \E d \in Deciders : CheckReport(d) \/ Decide(d)
    \/ Patch

\* A page that is loading is shown, what it sends is answered, and it stays in
\* view, so that the interval goes on; every request ends.
Fairness ==
    /\ \A p \in Pages :
        /\ WF_vars(LoadMessages(p)) /\ WF_vars(Sent(p))
        /\ WF_vars(Pull(p)) /\ WF_vars(ListMessages(p)) /\ WF_vars(ShowList(p))
    /\ \A q \in Posts : WF_vars(Post(q))

Spec == Init /\ [][Next]_vars

FairSpec == Spec /\ Fairness

-----------------------------------------------------------------------------
Messages == [from : Pages, text : Nat]

TypeOK ==
    /\ closed \in BOOLEAN
    /\ assigned \in Admins \cup Deciders \cup {None} /\ decided \in Deciders \cup {None}
    /\ deciding \subseteq Deciders
    /\ thread \in Seq(Messages)
    /\ pc \in [Pages -> {"away", "loading", "idle", "sending", "sent"}]
    /\ canPost \in [Pages -> BOOLEAN] /\ text \in [Pages -> BOOLEAN]
    /\ typed \in [Pages -> Nat] /\ shown \in [Pages -> Nat] /\ setbacks \in [Pages -> Nat]
    /\ step \in [Posts -> {"free", "check", "insert", "touch"}]
    /\ message \in [Posts -> Messages \cup {None}]
    /\ \A q \in Posts : step[q] # "free" => message[q] \in Messages
    /\ seen \in [Posts -> Admins \cup Deciders \cup {None}]
    /\ awaited \subseteq {q \in Posts : step[q] # "free"}
    /\ asked \in [Pages -> Nat] /\ lists \in [Pages -> SUBSET Nat]
    /\ atClose \subseteq Pages /\ atDecision \subseteq Pages /\ faults \in Nat

\* How often a page's text number n is in the thread.
Copies(p, n) == Cardinality({i \in DOMAIN thread : thread[i] = [from |-> p, text |-> n]})

\* A message is in the conversation once, and once more at most for each time
\* its sender was told that it had failed, although what failed for its sender
\* may still be inserted, together with what is sent in its place.
OneCopyPerSend ==
    \A p \in Pages : typed[p] > 0 => Copies(p, typed[p]) <= setbacks[p] + 1

\* A decided ticket is assigned to who decided it last, whatever is said in it
\* later, unless an admin's message was half posted at that time.
DeciderIsAssigned ==
    decided # None /\ atDecision \cap Admins = {} => assigned = decided

\* Nothing is added to a closed ticket, except by those who were half way when
\* it was closed.
ClosedThreadIsQuiet ==
    [][thread' # thread /\ closed => thread'[Len(thread')].from \in atClose]_vars

\* However the lists of messages overtake each other, a page that stays open
\* comes to show the whole conversation and goes on showing it.
ThreadCatchesUp ==
    \A p \in Pages : <>[](Mounted(p) => shown[p] = Len(thread))

=============================================================================
