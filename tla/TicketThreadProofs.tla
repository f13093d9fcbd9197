------------------------- MODULE TicketThreadProofs -------------------------
(***************************************************************************)
(* Proofs about TicketThread, for any number of pages, admins and deciders,*)
(* of texts, requests, lists and failures.                                 *)
(***************************************************************************)
EXTENDS TicketThread, FiniteSetTheorems, SequenceTheorems, TLAPS

\* The steps of Next, one disjunct each.
LEMMA StepCases ==
    ASSUME [Next]_vars
    PROVE  \/ \E p \in Pages :
                \/ LoadTicket(p) \/ LoadMessages(p) \/ Type(p) \/ Send(p) \/ Sent(p)
                \/ AnswerLost(p)
                \/ Pull(p) \/ ListMessages(p) \/ ShowList(p) \/ PullFails(p)
           \/ \E q \in Posts :
                ReadTicket(q) \/ InsertMessage(q) \/ TouchTicket(q) \/ PostFails(q)
           \/ \E d \in Deciders : CheckReport(d) \/ Decide(d)
           \/ Patch
           \/ UNCHANGED vars
  BY DEF Next, Load, Post, Refresh

PageSteps == {"away", "loading", "idle", "sending", "sent"}

PostSteps == {"free", "check", "insert", "touch"}

\* The request that a page sends.
LEMMA SendTakes ==
    ASSUME NEW p \in Pages, Send(p)
    PROVE  \E q \in Posts :
             /\ step[q] = "free" /\ step' = [step EXCEPT ![q] = "check"]
             /\ message' = [message EXCEPT ![q] = Message(p)] /\ awaited' = awaited \cup {q}
  <1> DEFINE q == CHOOSE r \in Posts : step[r] = "free"
  <1>1. q \in Posts /\ step[q] = "free"
    BY DEF Send
  <1>2. /\ step' = [step EXCEPT ![q] = "check"]
        /\ message' = [message EXCEPT ![q] = Message(p)] /\ awaited' = awaited \cup {q}
    BY DEF Send
  <1> QED
    BY <1>1, <1>2

LEMMA InitTypeOK == Init => TypeOK
  <1> SUFFICES ASSUME Init PROVE TypeOK
    OBVIOUS
  <1>1. thread \in Seq(Messages)
    BY DEF Init
  <1> QED
    BY <1>1 DEF Init, TypeOK

\* What posts are, after a step that ends one.
LEMMA EndsTyped ==
    ASSUME TypeOK, NEW q \in Posts, PostEnds(q)
    PROVE  /\ step' \in [Posts -> PostSteps]
           /\ message' \in [Posts -> Messages \cup {None}]
           /\ \A r \in Posts : step'[r] # "free" => message'[r] \in Messages
           /\ seen' \in [Posts -> Admins \cup Deciders \cup {None}]
           /\ awaited' \subseteq {r \in Posts : step'[r] # "free"}
  BY DEF TypeOK, PostEnds, PostGoes, PostSteps

LEMMA FailsTyped ==
    ASSUME TypeOK, NEW p \in Pages, SendFails(p)
    PROVE  /\ setbacks' \in [Pages -> Nat] /\ shown' \in [Pages -> Nat] /\ asked' \in [Pages -> Nat]
           /\ lists' \in [Pages -> SUBSET Nat] /\ pc' \in [Pages -> PageSteps]
           /\ UNCHANGED <<canPost, typed, text>>
  BY DEF TypeOK, SendFails, Goto, PageSteps

LEMMA NextTypeOK == TypeOK /\ [Next]_vars => TypeOK'
  <1> SUFFICES ASSUME TypeOK, [Next]_vars PROVE TypeOK'
    OBVIOUS
  <1> USE DEF ticket, sending, posting, pulls, staff, Goto, Fault
  <1>1. ASSUME NEW p \in Pages, LoadTicket(p) \/ LoadMessages(p) PROVE TypeOK'
    <2>1. CASE LoadTicket(p)
      BY <2>1 DEF TypeOK, LoadTicket
    <2>2. CASE LoadMessages(p)
      <3>1. Len(thread) \in Nat
        BY DEF TypeOK
      <3> QED
        BY <2>2, <3>1 DEF TypeOK, LoadMessages
    <2> QED
      BY <1>1, <2>1, <2>2
  <1>2. ASSUME NEW p \in Pages, Type(p) PROVE TypeOK'
    BY <1>2 DEF TypeOK, Type
  <1>3. ASSUME NEW p \in Pages, Send(p) PROVE TypeOK'
    <2>1. PICK q \in Posts :
             /\ step[q] = "free" /\ step' = [step EXCEPT ![q] = "check"]
             /\ message' = [message EXCEPT ![q] = Message(p)] /\ awaited' = awaited \cup {q}
      BY <1>3, SendTakes
    <2>2. Message(p) \in Messages
      BY DEF Message, Messages, TypeOK
    <2>3. /\ step' \in [Posts -> PostSteps]
          /\ message' \in [Posts -> Messages \cup {None}]
          /\ \A r \in Posts : step'[r] # "free" => message'[r] \in Messages
          /\ awaited' \subseteq {r \in Posts : step'[r] # "free"}
      BY <2>1, <2>2 DEF TypeOK, PostSteps
    <2>4. /\ UNCHANGED <<ticket, thread, canPost, typed, text, setbacks, seen, shown, pulls, staff, faults>>
          /\ pc' = [pc EXCEPT ![p] = "sending"]
      BY <1>3 DEF Send
    <2> QED
      BY <2>3, <2>4 DEF TypeOK, PostSteps
  <1>4. ASSUME NEW p \in Pages, Sent(p) PROVE TypeOK'
    BY <1>4 DEF TypeOK, Sent, Cleared, Asks
  <1>5. ASSUME NEW p \in Pages, AnswerLost(p) PROVE TypeOK'
    <2>1. awaited' \subseteq awaited
      BY <1>5 DEF AnswerLost
    <2> QED
      BY <1>5, <2>1, FailsTyped DEF TypeOK, AnswerLost, PageSteps
  <1>6. ASSUME NEW q \in Posts, ReadTicket(q) PROVE TypeOK'
    BY <1>6 DEF TypeOK, ReadTicket, PostGoes
  <1>7. ASSUME NEW q \in Posts, InsertMessage(q) PROVE TypeOK'
    <2>1. message[q] \in Messages
      BY <1>7 DEF InsertMessage, TypeOK
    <2>2. thread' \in Seq(Messages)
      BY <1>7, <2>1 DEF InsertMessage, TypeOK
    <2> QED
      BY <1>7, <2>2 DEF TypeOK, InsertMessage, PostGoes
  <1>8. ASSUME NEW q \in Posts, TouchTicket(q) PROVE TypeOK'
    <2>1. message[q].from \in Pages
      BY <1>8 DEF TouchTicket, TypeOK, Messages
    <2>2. assigned' \in Admins \cup Deciders \cup {None} /\ pc' \in [Pages -> PageSteps]
      BY <1>8, <2>1 DEF TypeOK, TouchTicket, Assignee, PageSteps
    <2> QED
      BY <1>8, <2>2, EndsTyped DEF TypeOK, TouchTicket, PageSteps, PostSteps
  <1>9. ASSUME NEW q \in Posts, PostFails(q) PROVE TypeOK'
    <2>1. step[q] # "free" /\ message[q].from \in Pages /\ faults' \in Nat /\ PostEnds(q)
      BY <1>9 DEF PostFails, TypeOK, Messages
    <2>2. CASE q \in awaited
      BY <1>9, <2>1, <2>2, EndsTyped, FailsTyped DEF TypeOK, PostFails, PageSteps, PostSteps
    <2>3. CASE q \notin awaited
      BY <1>9, <2>1, <2>3, EndsTyped DEF TypeOK, PostFails, PostSteps
    <2> QED
      BY <2>2, <2>3
  <1>10. ASSUME NEW p \in Pages,
               Pull(p) \/ ListMessages(p) \/ ShowList(p) \/ PullFails(p)
        PROVE  TypeOK'
    <2>1. CASE Pull(p)
      BY <2>1 DEF TypeOK, Pull, Asks
    <2>2. CASE ListMessages(p)
      <3>1. Len(thread) \in Nat
        BY DEF TypeOK
      <3> QED
        BY <2>2, <3>1 DEF TypeOK, ListMessages
    <2>3. CASE ShowList(p)
      <3>1. shown' \in [Pages -> Nat] /\ lists' \in [Pages -> SUBSET Nat]
        BY <2>3 DEF TypeOK, ShowList
      <3> QED
        BY <2>3, <3>1 DEF TypeOK, ShowList
    <2>4. CASE PullFails(p)
      BY <2>4 DEF TypeOK, PullFails
    <2> QED
      BY <1>10, <2>1, <2>2, <2>3, <2>4
  <1>11. HalfWay \subseteq Pages
    BY DEF HalfWay, TypeOK, Messages
  <1>12. ASSUME NEW d \in Deciders, CheckReport(d) \/ Decide(d) PROVE TypeOK'
    BY <1>11, <1>12 DEF TypeOK, CheckReport, Decide
  <1>13. CASE Patch
    BY <1>11, <1>13 DEF TypeOK, Patch
  <1>14. CASE UNCHANGED vars
    BY <1>14 DEF TypeOK, vars
  <1> QED
    BY <1>1, <1>2, <1>3, <1>4, <1>5, <1>6, <1>7, <1>8, <1>9, <1>10, <1>12, <1>13, <1>14, StepCases

\* The ticket, its thread, every page and every request keep their types.
THEOREM TicketThreadTypeOK == Spec => []TypeOK
  BY InitTypeOK, NextTypeOK, PTL DEF Spec

-----------------------------------------------------------------------------
\* A step that is no request's, a sending's or of staff leaves posts alone.
PostsAlone == UNCHANGED <<ticket, thread, step, message, seen, staff>>

LEMMA AloneCases ==
    ASSUME [Next]_vars
    PROVE  \/ PostsAlone
           \/ \E p \in Pages : Send(p)
           \/ \E q \in Posts :
                ReadTicket(q) \/ InsertMessage(q) \/ TouchTicket(q) \/ PostFails(q)
           \/ \E d \in Deciders : CheckReport(d) \/ Decide(d)
           \/ Patch
  BY StepCases
     DEF PostsAlone, vars, posting, LoadTicket, LoadMessages, Type, Sent, AnswerLost, Pull,
         ListMessages, ShowList, PullFails

-----------------------------------------------------------------------------
\* Who is about to insert a message into a closed ticket was half way with it
\* when it was closed.
InsertersWereHalfWay ==
    closed => \A q \in Posts : step[q] = "insert" => message[q].from \in atClose

LEMMA InitInserters == Init => InsertersWereHalfWay
  BY DEF Init, InsertersWereHalfWay

LEMMA NextInserters ==
    TypeOK /\ InsertersWereHalfWay /\ [Next]_vars => InsertersWereHalfWay'
  <1> SUFFICES ASSUME TypeOK, InsertersWereHalfWay, [Next]_vars
               PROVE  InsertersWereHalfWay'
    OBVIOUS
  <1> USE DEF ticket, sending, posting, pulls, staff, InsertersWereHalfWay
  <1>1. CASE PostsAlone
    BY <1>1 DEF PostsAlone
  <1>2. ASSUME NEW p \in Pages, Send(p) PROVE InsertersWereHalfWay'
    <2>1. PICK q \in Posts :
             /\ step[q] = "free" /\ step' = [step EXCEPT ![q] = "check"]
             /\ message' = [message EXCEPT ![q] = Message(p)] /\ awaited' = awaited \cup {q}
      BY <1>2, SendTakes
    <2>2. UNCHANGED <<closed, atClose>>
      BY <1>2 DEF Send
    <2> QED
      BY <2>1, <2>2 DEF TypeOK
  <1>3. ASSUME NEW q \in Posts, ReadTicket(q) PROVE InsertersWereHalfWay'
    BY <1>3 DEF ReadTicket, OpenForChat
  <1>4. ASSUME NEW q \in Posts, InsertMessage(q) \/ TouchTicket(q) \/ PostFails(q)
        PROVE  InsertersWereHalfWay'
    BY <1>4 DEF TypeOK, InsertMessage, TouchTicket, PostFails, PostEnds, PostGoes
  <1>5. ASSUME NEW d \in Deciders, CheckReport(d) \/ Decide(d) PROVE InsertersWereHalfWay'
    BY <1>5 DEF CheckReport, Decide, HalfWay
  <1>6. CASE Patch
    BY <1>6 DEF TypeOK, Patch, HalfWay
  <1> QED
    BY <1>1, <1>2, <1>3, <1>4, <1>5, <1>6, AloneCases

LEMMA OnlyInsertWrites ==
    ASSUME [Next]_vars, thread' # thread
    PROVE  \E q \in Posts : InsertMessage(q)
  BY AloneCases
     DEF PostsAlone, ticket, sending, pulls, Send, ReadTicket, TouchTicket, PostFails,
         CheckReport, Decide, Patch

\* A step adds to a closed ticket only what its writer was half way with when
\* it was closed, for any number of pages, requests, admins and deciders.
THEOREM QuietSafe == Spec => ClosedThreadIsQuiet
  <1>1. ASSUME TypeOK, InsertersWereHalfWay, [Next]_vars
        PROVE  [thread' # thread /\ closed => thread'[Len(thread')].from \in atClose]_vars
    <2> SUFFICES ASSUME thread' # thread, closed
                 PROVE  thread'[Len(thread')].from \in atClose
      OBVIOUS
    <2>1. PICK q \in Posts : InsertMessage(q)
      BY <1>1, OnlyInsertWrites
    <2>2. message[q] \in Messages
      BY <1>1, <2>1 DEF InsertMessage, TypeOK
    <2>3. thread'[Len(thread')] = message[q]
      BY <1>1, <2>1, <2>2 DEF InsertMessage, TypeOK
    <2> QED
      BY <1>1, <2>1, <2>3 DEF InsertMessage, InsertersWereHalfWay
  <1> QED
    BY <1>1, InitTypeOK, NextTypeOK, InitInserters, NextInserters, PTL
       DEF Spec, ClosedThreadIsQuiet

-----------------------------------------------------------------------------
\* Unless an admin was half way when the report was decided, an admin who is
\* half way now has read who decided it.
DeciderIsSeen ==
    decided # None /\ atDecision \cap Admins = {} =>
        /\ assigned = decided
        /\ \A q \in Posts :
             step[q] \in {"insert", "touch"} /\ message[q].from \in Admins => seen[q] = decided

LEMMA InitDecider == Init => DeciderIsSeen
  BY DEF Init, DeciderIsSeen

LEMMA NextDecider == TypeOK /\ DeciderIsSeen /\ [Next]_vars => DeciderIsSeen'
  <1> SUFFICES ASSUME TypeOK, DeciderIsSeen, [Next]_vars PROVE DeciderIsSeen'
    OBVIOUS
  <1> USE DEF ticket, sending, posting, pulls, staff, DeciderIsSeen
  <1>1. CASE PostsAlone
    BY <1>1 DEF PostsAlone
  <1>2. ASSUME NEW p \in Pages, Send(p) PROVE DeciderIsSeen'
    <2>1. PICK q \in Posts :
             /\ step[q] = "free" /\ step' = [step EXCEPT ![q] = "check"]
             /\ message' = [message EXCEPT ![q] = Message(p)] /\ awaited' = awaited \cup {q}
      BY <1>2, SendTakes
    <2>2. UNCHANGED <<decided, assigned, atDecision, seen>>
      BY <1>2 DEF Send
    <2> QED
      BY <2>1, <2>2 DEF TypeOK
  <1>3. ASSUME NEW q \in Posts, ReadTicket(q) PROVE DeciderIsSeen'
    BY <1>3 DEF TypeOK, ReadTicket, PostGoes
  <1>4. ASSUME NEW q \in Posts, InsertMessage(q) \/ PostFails(q) PROVE DeciderIsSeen'
    BY <1>4 DEF TypeOK, InsertMessage, PostFails, PostEnds, PostGoes
  <1>5. ASSUME NEW q \in Posts, TouchTicket(q) PROVE DeciderIsSeen'
    BY <1>5 DEF TypeOK, TouchTicket, Assignee, PostEnds, PostGoes
  <1>6. ASSUME NEW d \in Deciders, Decide(d) PROVE DeciderIsSeen'
    BY <1>6 DEF Decide, HalfWay
  <1>7. ASSUME NEW d \in Deciders, CheckReport(d) PROVE DeciderIsSeen'
    BY <1>7 DEF CheckReport
  <1>8. CASE Patch
    BY <1>8 DEF Patch
  <1> QED
    BY <1>1, <1>2, <1>3, <1>4, <1>5, <1>6, <1>7, <1>8, AloneCases

\* A decided ticket stays with who decided it last, whatever admins post later.
THEOREM DeciderSafe == Spec => []DeciderIsAssigned
  <1>1. DeciderIsSeen => DeciderIsAssigned
    BY DEF DeciderIsSeen, DeciderIsAssigned
  <1> QED
    BY <1>1, InitTypeOK, NextTypeOK, InitDecider, NextDecider, PTL DEF Spec

-----------------------------------------------------------------------------
\* Where a message is in the thread, and the requests that may still insert it.
Places(m) == {i \in DOMAIN thread : thread[i] = m}

Inserters(m) == {q \in Posts : step[q] \in {"check", "insert"} /\ message[q] = m}

Total(m) == Cardinality(Places(m)) + Cardinality(Inserters(m))

LEMMA TotalType ==
    ASSUME TypeOK, NEW m
    PROVE  /\ IsFiniteSet(Places(m)) /\ Cardinality(Places(m)) \in Nat
           /\ IsFiniteSet(Inserters(m)) /\ Cardinality(Inserters(m)) \in Nat
           /\ Total(m) \in Nat
  <1>1. DOMAIN thread = 1 .. Len(thread) /\ Len(thread) \in Nat
    BY DEF TypeOK
  <1>2. IsFiniteSet(1 .. Len(thread))
    BY <1>1, FS_Interval
  <1>3. Places(m) \subseteq 1 .. Len(thread)
    BY <1>1 DEF Places
  <1>4. IsFiniteSet(Posts) /\ Inserters(m) \subseteq Posts
    BY TicketThreadAssumption DEF Inserters
  <1>5. IsFiniteSet(Places(m)) /\ IsFiniteSet(Inserters(m))
    BY <1>2, <1>3, <1>4, FS_Subset
  <1>6. Cardinality(Places(m)) \in Nat /\ Cardinality(Inserters(m)) \in Nat
    BY <1>5, FS_CardinalityType
  <1> QED
    BY <1>5, <1>6 DEF Total

LEMMA TotalTypeNext ==
    ASSUME TypeOK', NEW m
    PROVE  Total(m)' \in Nat
  <1>1. DOMAIN thread' = 1 .. Len(thread') /\ Len(thread') \in Nat
    BY DEF TypeOK
  <1>2. IsFiniteSet(1 .. Len(thread')) /\ IsFiniteSet(Posts)
    BY <1>1, FS_Interval, TicketThreadAssumption
  <1>3. Places(m)' \subseteq 1 .. Len(thread') /\ Inserters(m)' \subseteq Posts
    BY <1>1 DEF Places, Inserters
  <1>4. Cardinality(Places(m)') \in Nat /\ Cardinality(Inserters(m)') \in Nat
    BY <1>2, <1>3, FS_Subset, FS_CardinalityType
  <1> QED
    BY <1>4 DEF Total

\* An insertion adds a place of its message, and takes one who inserts it away.
LEMMA TotalAfterInsert ==
    ASSUME TypeOK, TypeOK', NEW q \in Posts, InsertMessage(q), NEW m
    PROVE  Total(m)' = Total(m)
  <1>1. /\ thread \in Seq(Messages) /\ thread' = Append(thread, message[q])
        /\ message[q] \in Messages
    BY DEF TypeOK, InsertMessage
  <1> DEFINE last == Len(thread) + 1
  <1>2. /\ DOMAIN thread = 1 .. Len(thread) /\ Len(thread) \in Nat
        /\ DOMAIN thread' = 1 .. last
        /\ \A i \in 1 .. Len(thread) : thread'[i] = thread[i]
        /\ thread'[last] = message[q]
    BY <1>1
  <1>3. last \notin Places(m)
    BY <1>2 DEF Places
  <1>4. Places(m)' = IF m = message[q] THEN Places(m) \cup {last} ELSE Places(m)
    BY <1>2 DEF Places
  <1>5. /\ step[q] = "insert" /\ message' = message
        /\ \A r \in Posts : step'[r] = IF r = q THEN "touch" ELSE step[r]
    BY DEF InsertMessage, PostGoes, TypeOK
  <1>6. Inserters(m)' = Inserters(m) \ {q} /\ (q \in Inserters(m) <=> m = message[q])
    BY <1>5 DEF Inserters
  <1>7. CASE m = message[q]
    <2>1. Cardinality(Places(m)') = Cardinality(Places(m)) + 1
      BY <1>3, <1>4, <1>7, TotalType, FS_AddElement
    <2>2. Cardinality(Inserters(m)') = Cardinality(Inserters(m)) - 1
      BY <1>6, <1>7, TotalType, FS_RemoveElement
    <2> QED
      BY <2>1, <2>2, TotalType DEF Total
  <1>8. CASE m # message[q]
    <2>1. Places(m)' = Places(m) /\ Inserters(m)' = Inserters(m)
      BY <1>4, <1>6, <1>8
    <2> QED
      BY <2>1 DEF Total
  <1> QED
    BY <1>7, <1>8

LEMMA TotalAfterSend ==
    ASSUME TypeOK, NEW p \in Pages, Send(p), NEW m
    PROVE  Total(m)' = IF m = Message(p) THEN Total(m) + 1 ELSE Total(m)
  <1>1. PICK q \in Posts :
           /\ step[q] = "free" /\ step' = [step EXCEPT ![q] = "check"]
           /\ message' = [message EXCEPT ![q] = Message(p)] /\ awaited' = awaited \cup {q}
    BY SendTakes
  <1>2. Places(m)' = Places(m)
    BY DEF Send, Places
  <1>3. Inserters(m)' = IF m = Message(p) THEN Inserters(m) \cup {q} ELSE Inserters(m)
    BY <1>1 DEF Inserters, TypeOK
  <1>4. q \notin Inserters(m)
    BY <1>1 DEF Inserters
  <1>5. CASE m = Message(p)
    <2>1. Cardinality(Inserters(m)') = Cardinality(Inserters(m)) + 1
      BY <1>3, <1>4, <1>5, TotalType, FS_AddElement
    <2> QED
      BY <1>2, <1>5, <2>1, TotalType DEF Total
  <1>6. CASE m # Message(p)
    BY <1>2, <1>3, <1>6 DEF Total
  <1> QED
    BY <1>5, <1>6

\* A step that leaves the thread alone and lets no request insert anew.
LEMMA TotalKept ==
    ASSUME TypeOK, thread' = thread, NEW m, Inserters(m)' \subseteq Inserters(m)
    PROVE  Total(m)' <= Total(m)
  <1>1. Places(m)' = Places(m)
    BY DEF Places
  <1>2. Cardinality(Inserters(m)') <= Cardinality(Inserters(m)) /\ Cardinality(Inserters(m)') \in Nat
    BY TotalType, FS_Subset, FS_CardinalityType
  <1>3. Total(m)' = Cardinality(Places(m)) + Cardinality(Inserters(m)')
    BY <1>1 DEF Total
  <1> QED
    BY <1>2, <1>3, TotalType DEF Total

-----------------------------------------------------------------------------
\* Nobody has a text in the thread, or on its way, that they did not write.
TextsAreTyped ==
    /\ \A i \in DOMAIN thread : thread[i].text <= typed[thread[i].from]
    /\ \A q \in Posts : step[q] # "free" => message[q].text <= typed[message[q].from]

LEMMA InitTexts == Init => TextsAreTyped
  BY DEF Init, TextsAreTyped

LEMMA NextTexts == TypeOK /\ TextsAreTyped /\ [Next]_vars => TextsAreTyped'
  <1> SUFFICES ASSUME TypeOK, TextsAreTyped, [Next]_vars PROVE TextsAreTyped'
    OBVIOUS
  <1> USE DEF ticket, sending, posting, pulls, staff
  <1>types. typed \in [Pages -> Nat] /\ thread \in Seq(Messages)
    BY DEF TypeOK
  <1>1. ASSUME NEW p \in Pages, Type(p) PROVE TextsAreTyped'
    <2>1. typed' = [typed EXCEPT ![p] = typed[p] + 1] /\ UNCHANGED <<thread, step, message>>
      BY <1>1 DEF Type
    <2>2. \A r \in Pages : typed[r] \in Nat /\ typed'[r] \in Nat /\ typed[r] <= typed'[r]
      BY <1>types, <2>1
    <2>3. \A i \in DOMAIN thread : thread[i].from \in Pages /\ thread[i].text \in Nat
      <3>1. DOMAIN thread = 1 .. Len(thread)
        BY <1>types
      <3>2. \A i \in 1 .. Len(thread) : thread[i] \in Messages
        BY <1>types, ElementOfSeq
      <3> QED
        BY <3>1, <3>2 DEF Messages
    <2>4. \A q \in Posts : step[q] # "free" => message[q].from \in Pages /\ message[q].text \in Nat
      BY DEF TypeOK, Messages
    <2>5. ASSUME NEW i \in DOMAIN thread PROVE thread[i].text <= typed'[thread[i].from]
      BY <2>2, <2>3 DEF TextsAreTyped
    <2>6. ASSUME NEW q \in Posts, step[q] # "free" PROVE message[q].text <= typed'[message[q].from]
      BY <2>2, <2>4, <2>6 DEF TextsAreTyped
    <2> QED
      BY <2>1, <2>5, <2>6 DEF TextsAreTyped
  <1>2. ASSUME NEW p \in Pages, Send(p) PROVE TextsAreTyped'
    <2>1. PICK q \in Posts :
             /\ step[q] = "free" /\ step' = [step EXCEPT ![q] = "check"]
             /\ message' = [message EXCEPT ![q] = Message(p)] /\ awaited' = awaited \cup {q}
      BY <1>2, SendTakes
    <2>2. Message(p).from = p /\ Message(p).text = typed[p] /\ typed[p] \in Nat
      BY <1>types DEF Message
    <2>3. UNCHANGED <<thread, typed>>
      BY <1>2 DEF Send
    <2>4. ASSUME NEW r \in Posts, step'[r] # "free"
          PROVE  message'[r].text <= typed[message'[r].from]
      <3>1. CASE r = q
        <4>1. message'[r] = Message(p)
          BY <2>1, <3>1 DEF TypeOK
        <4> QED
          BY <2>2, <4>1
      <3>2. CASE r # q
        BY <2>1, <2>4, <3>2 DEF TextsAreTyped, TypeOK
      <3> QED
        BY <3>1, <3>2
    <2> QED
      BY <2>3, <2>4 DEF TextsAreTyped
  <1>3. ASSUME NEW q \in Posts, InsertMessage(q) PROVE TextsAreTyped'
    <2>1. /\ thread' = Append(thread, message[q]) /\ message[q] \in Messages
          /\ message[q].text <= typed[message[q].from]
          /\ UNCHANGED <<typed, message>> /\ \A r \in Posts : step'[r] # "free" => step[r] # "free"
      BY <1>3 DEF InsertMessage, PostGoes, TypeOK, TextsAreTyped
    <2>2. \A i \in DOMAIN thread' :
            thread'[i] = message[q] \/ (i \in DOMAIN thread /\ thread'[i] = thread[i])
      BY <1>types, <2>1
    <2>3. ASSUME NEW i \in DOMAIN thread' PROVE thread'[i].text <= typed[thread'[i].from]
      <3>1. CASE thread'[i] = message[q]
        BY <2>1, <3>1
      <3>2. CASE i \in DOMAIN thread /\ thread'[i] = thread[i]
        BY <3>2 DEF TextsAreTyped
      <3> QED
        BY <2>2, <3>1, <3>2
    <2> QED
      BY <2>1, <2>3 DEF TextsAreTyped
  \* The other steps write no text, and start no request.
  <1>4. ASSUME UNCHANGED <<thread, typed>>,
               \A q \in Posts : step'[q] # "free" => step[q] # "free" /\ message'[q] = message[q]
        PROVE  TextsAreTyped'
    BY <1>4 DEF TextsAreTyped
  <1>5. ASSUME NEW q \in Posts, ReadTicket(q) \/ TouchTicket(q) \/ PostFails(q)
        PROVE  TextsAreTyped'
    <2>1. UNCHANGED <<thread, typed>>
      BY <1>5 DEF ReadTicket, TouchTicket, PostFails, SendFails
    <2>2. \A r \in Posts : step'[r] # "free" => step[r] # "free" /\ message'[r] = message[r]
      BY <1>5 DEF ReadTicket, TouchTicket, PostFails, PostGoes, PostEnds, TypeOK
    <2> QED
      BY <1>4, <2>1, <2>2
  <1>6. ASSUME NEW p \in Pages,
               \/ LoadTicket(p) \/ LoadMessages(p) \/ Sent(p) \/ AnswerLost(p)
               \/ Pull(p) \/ ListMessages(p) \/ ShowList(p) \/ PullFails(p)
        PROVE  TextsAreTyped'
    BY <1>4, <1>6 DEF LoadTicket, LoadMessages, Sent, AnswerLost, SendFails, Pull, ListMessages,
                      ShowList, PullFails
  <1>7. ASSUME NEW d \in Deciders, CheckReport(d) \/ Decide(d) PROVE TextsAreTyped'
    BY <1>4, <1>7 DEF CheckReport, Decide
  <1>8. CASE Patch \/ UNCHANGED vars
    BY <1>4, <1>8 DEF Patch, vars
  <1> QED
    BY <1>1, <1>2, <1>3, <1>5, <1>6, <1>7, <1>8, StepCases

-----------------------------------------------------------------------------
\* Is the last text of the page, or was it, sent for the last time?
LastTry(p) == IF text[p] /\ pc[p] \notin {"sending", "sent"} THEN 0 ELSE 1

\* The current text is in the thread, or may still come there, as often as it
\* failed, and once more if its last try did not.
CopiesAreCounted ==
    \A p \in Pages : typed[p] > 0 => Total(Message(p)) <= setbacks[p] + LastTry(p)

LEMMA InitCopies == Init => CopiesAreCounted
  BY DEF Init, CopiesAreCounted

LEMMA NextCopies ==
    TypeOK /\ TypeOK' /\ TextsAreTyped /\ CopiesAreCounted /\ [Next]_vars => CopiesAreCounted'
  <1> SUFFICES ASSUME TypeOK, TypeOK', TextsAreTyped, CopiesAreCounted, [Next]_vars
               PROVE  CopiesAreCounted'
    OBVIOUS
  <1> USE DEF ticket, sending, posting, pulls, staff
  <1>types. /\ pc \in [Pages -> PageSteps] /\ text \in [Pages -> BOOLEAN]
            /\ typed \in [Pages -> Nat] /\ setbacks \in [Pages -> Nat]
            /\ thread \in Seq(Messages)
    BY DEF TypeOK, PageSteps
  <1>total. \A m : Total(m) \in Nat /\ Total(m)' \in Nat
    BY TotalType, TotalTypeNext
  \* What was typed stays as it is, and no copy is added.
  <1>keep. ASSUME typed' = typed,
                  \A m : Total(m)' <= Total(m),
                  \A p \in Pages :
                    /\ setbacks'[p] \in Nat
                    /\ setbacks[p] + LastTry(p) <= setbacks'[p] + LastTry(p)'
           PROVE  CopiesAreCounted'
    <2> SUFFICES ASSUME NEW p \in Pages, typed[p] > 0
                 PROVE  Total(Message(p))' <= setbacks'[p] + LastTry(p)'
      BY <1>keep DEF CopiesAreCounted
    <2>1. Message(p)' = Message(p)
      BY <1>keep DEF Message
    <2>2. Total(Message(p))' <= Total(Message(p)) /\ Total(Message(p))' \in Nat
      <3>1. \A m : m = Message(p) => Total(m)' <= Total(m) /\ Total(m)' \in Nat
        BY <1>keep, <1>total
      <3>2. \A m : m = Message(p)' => Total(m)' = Total(Message(p))'
        BY DEF Total, Places, Inserters
      <3> QED
        BY <2>1, <3>1, <3>2
    <2>3. Total(Message(p)) <= setbacks[p] + LastTry(p) /\ Total(Message(p)) \in Nat
      BY <1>total DEF CopiesAreCounted
    <2>4. LastTry(p) \in Nat /\ LastTry(p)' \in Nat /\ setbacks[p] \in Nat /\ setbacks'[p] \in Nat
      BY <1>keep, <1>types DEF LastTry
    <2> QED
      BY <1>keep, <2>2, <2>3, <2>4
  <1>same. ASSUME thread' = thread, \A m : Inserters(m)' \subseteq Inserters(m)
           PROVE  \A m : Total(m)' <= Total(m)
    BY <1>same, TotalKept
  <1>fails. ASSUME NEW p \in Pages, SendFails(p)
            PROVE  \A r \in Pages :
                    /\ setbacks'[r] \in Nat
                    /\ setbacks[r] + LastTry(r) <= setbacks'[r] + LastTry(r)'
    BY <1>types, <1>fails DEF SendFails, Goto, LastTry
  <1>1. ASSUME NEW p \in Pages, Type(p) PROVE CopiesAreCounted'
    <2>1. /\ typed' = [typed EXCEPT ![p] = typed[p] + 1] /\ text' = [text EXCEPT ![p] = TRUE]
          /\ setbacks' = [setbacks EXCEPT ![p] = 0] /\ pc[p] = "idle"
          /\ UNCHANGED <<pc, thread, step, message>>
      BY <1>1 DEF Type
    <2>2. Message(p)'.from = p /\ Message(p)'.text = typed[p] + 1
      BY <1>types, <2>1 DEF Message
    <2>3. Places(Message(p))' = {}
      BY <1>types, <2>1, <2>2 DEF Places, TextsAreTyped
    <2>4. Inserters(Message(p))' = {}
      <3> SUFFICES ASSUME NEW q \in Posts, step[q] # "free", message[q] = Message(p)' PROVE FALSE
        BY <2>1 DEF Inserters
      <3>1. message[q].text <= typed[message[q].from]
        BY DEF TextsAreTyped
      <3> QED
        BY <1>types, <2>2, <3>1
    <2>5. Total(Message(p))' = 0
      BY <2>3, <2>4, FS_EmptySet DEF Total
    <2>6. \A r \in Pages : r # p => Total(Message(r))' = Total(Message(r)) /\ typed'[r] = typed[r]
                                    /\ setbacks'[r] = setbacks[r] /\ LastTry(r)' = LastTry(r)
      BY <1>types, <2>1 DEF Total, Places, Inserters, Message, LastTry
    <2>7. setbacks'[p] + LastTry(p)' \in Nat
      BY <1>types, <2>1 DEF LastTry
    <2> QED
      BY <2>5, <2>6, <2>7 DEF CopiesAreCounted
  <1>2. ASSUME NEW p \in Pages, Send(p) PROVE CopiesAreCounted'
    <2>1. /\ pc[p] = "idle" /\ text[p] /\ pc' = [pc EXCEPT ![p] = "sending"]
          /\ UNCHANGED <<typed, text, setbacks>>
      BY <1>2 DEF Send, Goto
    <2>2. \A r \in Pages : Message(r)' = Message(r) /\ (Message(r) = Message(p) <=> r = p)
      BY <2>1 DEF Message
    <2>3. \A r \in Pages : Total(Message(r))' = IF r = p THEN Total(Message(r)) + 1 ELSE Total(Message(r))
      <3>1. \A m : Total(m)' = IF m = Message(p) THEN Total(m) + 1 ELSE Total(m)
        BY <1>2, TotalAfterSend
      <3>2. \A r \in Pages : \A m : m = Message(r)' => Total(m)' = Total(Message(r))'
        BY DEF Total, Places, Inserters
      <3> QED
        BY <2>2, <3>1, <3>2
    <2>4. \A r \in Pages : LastTry(r)' = IF r = p THEN 1 ELSE LastTry(r)
      BY <1>types, <2>1 DEF LastTry
    <2>5. LastTry(p) = 0 /\ setbacks[p] \in Nat
      BY <1>types, <2>1 DEF LastTry
    <2> QED
      BY <1>total, <2>1, <2>3, <2>4, <2>5 DEF CopiesAreCounted
  <1>3. ASSUME NEW q \in Posts, InsertMessage(q) PROVE CopiesAreCounted'
    <2>1. \A m : Total(m)' = Total(m)
      BY <1>3, TotalAfterInsert
    <2>2. UNCHANGED <<typed, text, pc, setbacks>>
      BY <1>3 DEF InsertMessage
    <2> QED
      BY <1>keep, <1>types, <1>total, <2>1, <2>2 DEF LastTry
  <1>4. ASSUME NEW q \in Posts, ReadTicket(q) PROVE CopiesAreCounted'
    <2>1. /\ step[q] = "check" /\ UNCHANGED <<message, thread, typed, text, pc, setbacks>>
          /\ \A r \in Posts : r # q => step'[r] = step[r]
      BY <1>4 DEF ReadTicket, PostGoes, TypeOK
    <2>2. \A m : Inserters(m)' \subseteq Inserters(m)
      BY <2>1 DEF Inserters
    <2> QED
      BY <1>keep, <1>same, <1>types, <2>1, <2>2 DEF LastTry
  <1>ends. ASSUME NEW q \in Posts, PostEnds(q)
           PROVE  \A m : Inserters(m)' \subseteq Inserters(m)
    BY <1>ends DEF PostEnds, PostGoes, Inserters, TypeOK
  <1>5. ASSUME NEW q \in Posts, TouchTicket(q) PROVE CopiesAreCounted'
    <2>1. /\ UNCHANGED <<thread, typed, text, setbacks>> /\ PostEnds(q)
          /\ \A r \in Pages : pc'[r] = pc[r] \/ pc'[r] = "sent"
      BY <1>5, <1>types DEF TouchTicket, Goto
    <2>2. \A r \in Pages : LastTry(r) <= LastTry(r)' /\ LastTry(r) \in Nat /\ LastTry(r)' \in Nat
      BY <1>types, <2>1 DEF LastTry
    <2> QED
      BY <1>keep, <1>same, <1>ends, <1>types, <2>1, <2>2
  <1>6. ASSUME NEW q \in Posts, PostFails(q) PROVE CopiesAreCounted'
    <2>1. thread' = thread /\ typed' = typed /\ PostEnds(q) /\ message[q].from \in Pages
      BY <1>6 DEF PostFails, SendFails, TypeOK, Messages
    <2>2. CASE q \in awaited
      BY <1>6, <1>keep, <1>same, <1>ends, <1>fails, <2>1, <2>2 DEF PostFails
    <2>3. CASE q \notin awaited
      BY <1>6, <1>keep, <1>same, <1>ends, <1>types, <2>1, <2>3 DEF PostFails, LastTry
    <2> QED
      BY <2>2, <2>3
  <1>7. ASSUME NEW p \in Pages, AnswerLost(p) PROVE CopiesAreCounted'
    <2>1. UNCHANGED <<thread, step, message, typed>> /\ SendFails(p)
      BY <1>7 DEF AnswerLost, SendFails
    <2>2. \A m : Inserters(m)' \subseteq Inserters(m)
      BY <2>1 DEF Inserters
    <2> QED
      BY <1>keep, <1>same, <1>fails, <2>1, <2>2
  \* The other steps neither type, send nor fail.
  <1>8. ASSUME UNCHANGED <<thread, step, message, typed, setbacks>>,
               \A p \in Pages : LastTry(p) <= LastTry(p)' /\ LastTry(p)' \in Nat
        PROVE  CopiesAreCounted'
    <2>1. \A m : Inserters(m)' \subseteq Inserters(m)
      BY <1>8 DEF Inserters
    <2>2. \A p \in Pages : LastTry(p) \in Nat
      BY DEF LastTry
    <2> QED
      BY <1>keep, <1>same, <1>types, <1>8, <2>1, <2>2
  <1>9. ASSUME NEW p \in Pages, LoadTicket(p) \/ LoadMessages(p) \/ Sent(p) PROVE CopiesAreCounted'
    <2>1. UNCHANGED <<thread, step, message, typed, setbacks>>
      BY <1>9 DEF LoadTicket, LoadMessages, Sent
    <2>2. CASE Sent(p)
      <3>1. text' = [text EXCEPT ![p] = FALSE] /\ pc' = [pc EXCEPT ![p] = "idle"]
        BY <2>2 DEF Sent, Goto, Cleared
      <3> QED
        BY <1>8, <1>types, <2>1, <3>1 DEF LastTry
    <2>3. CASE LoadTicket(p) \/ LoadMessages(p)
      <3>1. text' = text /\ pc[p] \in {"away", "loading"} /\ \A r \in Pages : r # p => pc'[r] = pc[r]
        BY <1>types, <2>3 DEF LoadTicket, LoadMessages, Goto
      <3>2. pc'[p] \in {"loading", "idle"}
        BY <1>types, <2>3 DEF LoadTicket, LoadMessages, Goto
      <3> QED
        BY <1>8, <1>types, <2>1, <3>1, <3>2 DEF LastTry
    <2> QED
      BY <1>9, <2>2, <2>3
  <1>10. ASSUME NEW p \in Pages, Pull(p) \/ ListMessages(p) \/ ShowList(p) \/ PullFails(p)
         PROVE  CopiesAreCounted'
    BY <1>8, <1>10 DEF Pull, ListMessages, ShowList, PullFails, LastTry
  <1>11. ASSUME NEW d \in Deciders, CheckReport(d) \/ Decide(d) PROVE CopiesAreCounted'
    BY <1>8, <1>11 DEF CheckReport, Decide, LastTry
  <1>12. CASE Patch \/ UNCHANGED vars
    BY <1>8, <1>12 DEF Patch, vars, LastTry
  <1> QED
    BY <1>1, <1>2, <1>3, <1>4, <1>5, <1>6, <1>7, <1>9, <1>10, <1>11, <1>12, StepCases

\* A message is in the thread once, and once more at most for every failure its
\* sender was shown, however often it is sent again, and although the API may
\* go on with what failed for its sender.
THEOREM OneCopySafe == Spec => []OneCopyPerSend
  <1>1. TypeOK /\ CopiesAreCounted => OneCopyPerSend
    <2> SUFFICES ASSUME TypeOK, CopiesAreCounted, NEW p \in Pages, typed[p] > 0
                 PROVE  Copies(p, typed[p]) <= setbacks[p] + 1
      BY DEF OneCopyPerSend
    <2>1. Copies(p, typed[p]) = Cardinality(Places(Message(p)))
      BY DEF Copies, Places, Message
    <2>2. /\ Cardinality(Places(Message(p))) \in Nat /\ Cardinality(Inserters(Message(p))) \in Nat
          /\ setbacks[p] \in Nat /\ LastTry(p) \in {0, 1}
      BY TotalType DEF TypeOK, LastTry
    <2>3. Total(Message(p)) <= setbacks[p] + LastTry(p)
      BY DEF CopiesAreCounted
    <2> QED
      BY <2>1, <2>2, <2>3 DEF Total
  <1> QED
    BY <1>1, InitTypeOK, NextTypeOK, InitTexts, NextTexts, InitCopies, NextCopies, PTL DEF Spec

=============================================================================
