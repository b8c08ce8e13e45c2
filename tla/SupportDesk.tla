------------------------------ MODULE SupportDesk ------------------------------
(***************************************************************************)
(* The support desk. The mail worker hands every mail to an intake route,   *)
(* again and again until it is accepted; the intake workflow stores the     *)
(* mail, finds or opens the ticket of its thread, files the mail there as a *)
(* message and links it. Customers and operators write into the same        *)
(* tickets, and operators set their status.                                 *)
(***************************************************************************)
EXTENDS Naturals, Sequences, Functions

CONSTANTS
    Mails,        \* mails, by the id in their header
    ThreadOf,     \* the thread a mail belongs to: what it refers to first, or itself
    Tickets,      \* ticket ids
    Requests,     \* requests the server works on at the same time
    Decisions,    \* statuses operators set
    Nil,          \* no mail, no ticket
    MaxFaults     \* bound on failing statements and dying processes

TicketStatuses == {"open", "pending_customer", "pending_operator", "escalated", "resolved",
                   "closed"}

ASSUME SupportAssumption ==
    /\ Nil \notin Mails \cup Tickets
    /\ Decisions \subseteq TicketStatuses
    /\ MaxFaults \in Nat

VARIABLES
    inbound,   \* inbound_message: what became of each mail, and its ticket
    arrivals,  \* the mails in the order they were received
    ticket,    \* the status of each ticket
    filed,     \* the tickets each mail has been made a message of, in turn
    turn,      \* the status each ticket should have after its last message
    request,   \* each request: pc, what it does, its mail, its ticket, the status it read
    accepted,  \* mails the route has answered with a success
    died,      \* mails whose process died
    split,     \* threads that may have more than one ticket
    faults     \* failing statements and dying processes so far

rowVars == <<inbound, arrivals, ticket, filed>>
historyVars == <<died, split, turn>>
vars == <<rowVars, request, accepted, historyVars, faults>>

Idle == [pc |-> "idle", kind |-> "mail", mail |-> Nil, ticket |-> Nil, seen |-> "none"]

Init ==
    /\ inbound = [m \in Mails |-> [status |-> "none", ticket |-> Nil]]
    /\ arrivals = << >>
    /\ ticket = [t \in Tickets |-> "none"]
    /\ filed = [m \in Mails |-> << >>]
    /\ turn = [t \in Tickets |-> "any"]
    /\ request = [r \in Requests |-> Idle]
    /\ accepted = {}
    /\ died = {} /\ split = {}
    /\ faults = 0

Goto(r, pc) == request' = [request EXCEPT ![r].pc = pc]
Return(r) == request' = [request EXCEPT ![r] = Idle]
Fault == faults < MaxFaults /\ faults' = faults + 1

\* getFollowupStatusFromMessage: whose turn it is after a message; an operator's
\* decision aims at the status itself.
Aim(kind) == CASE kind \in {"mail", "customer"} -> "pending_operator"
               [] kind = "operator" -> "pending_customer"
               [] OTHER -> kind

\* The mails of a thread that are linked to a ticket.
Linked(thread) == {m \in Mails : ThreadOf[m] = thread /\ inbound[m].ticket # Nil}

\* Mail m is the one of these mails that was received last.
IsLatest(m, mails) ==
    /\ m \in mails
    /\ \E i \in DOMAIN arrivals :
          /\ arrivals[i] = m
          /\ \A j \in DOMAIN arrivals : j > i => arrivals[j] \notin mails

\* Requests, other than r, that work on a mail of its thread.
Siblings(r) ==
    {q \in Requests \ {r} : /\ request[q].pc \notin {"idle", "insert"}
                            /\ request[q].kind = "mail"
                            /\ ThreadOf[request[q].mail] = ThreadOf[request[r].mail]}

------------------------------------------------------------------------------
(* The intake of a mail                                                    *)

\* The worker forwards a mail, for the first time or again: it has got no answer,
\* an error, or the answer was lost.
Deliver(r, m) ==
    /\ request[r].pc = "idle"
    /\ request' = [request EXCEPT ![r] = [Idle EXCEPT !.pc = "insert", !.mail = m]]
    /\ UNCHANGED <<rowVars, accepted, historyVars, faults>>

\* Fault: a mail that failed is taken up again.
InsertInboundAfterFailure(r) ==
    LET m == request[r].mail IN
    /\ request[r].pc = "insert"
    /\ IF inbound[m].status \in {"none", "failed"}
       THEN /\ inbound' = [inbound EXCEPT ![m].status = "received"]
            /\ arrivals' = IF inbound[m].status = "none" THEN Append(arrivals, m) ELSE arrivals
            /\ Goto(r, "find")
            /\ UNCHANGED accepted
       ELSE /\ accepted' = accepted \cup {m}
            /\ Return(r)
            /\ UNCHANGED <<inbound, arrivals>>
    /\ UNCHANGED <<ticket, filed, historyVars, faults>>

\* insertInboundMessage; a mail that is there already, whatever became of it, is
\* accepted as a duplicate.
InsertInbound(r) ==
    LET m == request[r].mail IN
    /\ request[r].pc = "insert"
    /\ IF inbound[m].status = "none"
       THEN /\ inbound' = [inbound EXCEPT ![m].status = "received"]
            /\ arrivals' = Append(arrivals, m)
            /\ Goto(r, "find")
            /\ UNCHANGED accepted
       ELSE /\ accepted' = accepted \cup {m}
            /\ Return(r)
            /\ UNCHANGED <<inbound, arrivals>>
    /\ UNCHANGED <<ticket, filed, historyVars, faults>>

\* Fault: only the mail received last is looked at, linked or not.
FindTicketOfLatest(r) ==
    LET thread == ThreadOf[request[r].mail] IN
    /\ request[r].pc = "find"
    /\ \E m \in Mails :
          /\ IsLatest(m, {n \in Mails : ThreadOf[n] = thread})
          /\ IF inbound[m].ticket = Nil
             THEN Goto(r, "create")
             ELSE request' = [request EXCEPT ![r].pc = "read", ![r].ticket = inbound[m].ticket]
    /\ UNCHANGED <<rowVars, accepted, historyVars, faults>>

\* findTicketIdByExternalThread: the ticket of the linked mail received last.
FindTicket(r) ==
    LET thread == ThreadOf[request[r].mail]
        linked == Linked(thread)
    IN
    /\ request[r].pc = "find"
    /\ \/ /\ linked = {}
          /\ Goto(r, "create")
          /\ split' = IF Siblings(r) = {} THEN split ELSE split \cup {thread}
       \/ /\ \E m \in Mails :
                /\ IsLatest(m, linked)
                /\ request' = [request EXCEPT ![r].pc = "read", ![r].ticket = inbound[m].ticket]
          /\ UNCHANGED split
    /\ UNCHANGED <<rowVars, accepted, died, turn, faults>>

\* createTicket, with an id that is new.
NewTicket == CHOOSE t \in Tickets : ticket[t] = "none"

CreateTicket(r) ==
    /\ request[r].pc = "create"
    /\ \E t \in Tickets : ticket[t] = "none"
    /\ ticket' = [ticket EXCEPT ![NewTicket] = "open"]
    /\ request' = [request EXCEPT ![r].pc = "read", ![r].ticket = NewTicket]
    /\ UNCHANGED <<inbound, arrivals, filed, accepted, historyVars, faults>>

\* updateInboundProcessingState, and the route answers 202.
MarkProcessed(r) ==
    LET m == request[r].mail IN
    /\ request[r].pc = "finish"
    /\ inbound' = [inbound EXCEPT ![m] = [status |-> "processed", ticket |-> request[r].ticket]]
    /\ accepted' = accepted \cup {m}
    /\ Return(r)
    /\ UNCHANGED <<arrivals, ticket, filed, historyVars, faults>>

------------------------------------------------------------------------------
(* Messages and statuses                                                   *)

\* Whether a request that aims at another status has read ticket t and not written.
Overlaps(r, t, kind) ==
    \E q \in Requests \ {r} : /\ request[q].pc \in {"write", "status"}
                              /\ request[q].ticket = t
                              /\ Aim(request[q].kind) # Aim(kind)

\* addCustomerTicketMessage and addTicketMessage, of a message that is not internal.
AddMessage(r, t, author) ==
    /\ request[r].pc = "idle"
    /\ ticket[t] # "none"
    /\ request' = [request EXCEPT ![r] = [Idle EXCEPT !.pc = "read", !.kind = author,
                                                      !.ticket = t]]
    /\ UNCHANGED <<rowVars, accepted, historyVars, faults>>

\* persistMessage reads the ticket in its transaction, without a lock.
ReadTicket(r) ==
    LET t == request[r].ticket IN
    /\ request[r].pc = "read"
    /\ request' = [request EXCEPT ![r].pc = "write", ![r].seen = ticket[t]]
    /\ turn' = IF Overlaps(r, t, request[r].kind) THEN [turn EXCEPT ![t] = "raced"] ELSE turn
    /\ UNCHANGED <<rowVars, accepted, died, split, faults>>

\* Fault: a ticket that is over stays so.
PersistMessageKeepingClosed(r) ==
    LET t == request[r].ticket
        mailed == request[r].kind = "mail"
    IN
    /\ request[r].pc = "write"
    /\ filed' = IF mailed THEN [filed EXCEPT ![request[r].mail] = Append(@, t)] ELSE filed
    /\ ticket' = IF request[r].seen \in {Aim(request[r].kind), "resolved", "closed"} THEN ticket
                 ELSE [ticket EXCEPT ![t] = Aim(request[r].kind)]
    /\ turn' = [turn EXCEPT ![t] = IF @ = "raced" THEN @ ELSE Aim(request[r].kind)]
    /\ IF mailed THEN request' = [request EXCEPT ![r].pc = "finish", ![r].seen = "none"]
                 ELSE Return(r)
    /\ UNCHANGED <<inbound, arrivals, accepted, died, split, faults>>

\* The message is inserted and, unless the ticket was seen with that status, whose
\* turn it is now; resolved and closed tickets are opened again.
PersistMessage(r) ==
    LET t == request[r].ticket
        mailed == request[r].kind = "mail"
    IN
    /\ request[r].pc = "write"
    /\ filed' = IF mailed THEN [filed EXCEPT ![request[r].mail] = Append(@, t)] ELSE filed
    /\ ticket' = IF request[r].seen = Aim(request[r].kind) THEN ticket
                 ELSE [ticket EXCEPT ![t] = Aim(request[r].kind)]
    /\ turn' = [turn EXCEPT ![t] = IF @ = "raced" THEN @ ELSE Aim(request[r].kind)]
    /\ IF mailed THEN request' = [request EXCEPT ![r].pc = "finish", ![r].seen = "none"]
                 ELSE Return(r)
    /\ UNCHANGED <<inbound, arrivals, accepted, died, split, faults>>

\* updateTicketStatus reads the ticket, and returns if it has the status.
ReadStatus(r, t, status) ==
    /\ request[r].pc = "idle"
    /\ ticket[t] \notin {"none", status}
    /\ request' = [request EXCEPT ![r] = [Idle EXCEPT !.pc = "status", !.kind = status,
                                                      !.ticket = t]]
    /\ turn' = IF Overlaps(r, t, status) THEN [turn EXCEPT ![t] = "raced"] ELSE turn
    /\ UNCHANGED <<rowVars, accepted, died, split, faults>>

\* It writes the status by ticket id.
WriteStatus(r) ==
    LET t == request[r].ticket IN
    /\ request[r].pc = "status"
    /\ ticket' = [ticket EXCEPT ![t] = request[r].kind]
    /\ turn' = [turn EXCEPT ![t] = IF @ = "raced" THEN @ ELSE "any"]
    /\ Return(r)
    /\ UNCHANGED <<inbound, arrivals, filed, accepted, died, split, faults>>

------------------------------------------------------------------------------
(* Failures                                                                *)

\* What a mail that is given up half way may do to its thread.
Splits(r) == split' = IF /\ request[r].kind = "mail"
                         /\ request[r].pc # "insert"
                         /\ Linked(ThreadOf[request[r].mail]) = {}
                      THEN split \cup {ThreadOf[request[r].mail]} ELSE split

\* Fault: the route answers a failure of the first statement like a duplicate.
StatementThrowsAccepted(r) ==
    LET m == request[r].mail IN
    /\ request[r].pc \notin {"idle"}
    /\ Fault
    /\ inbound' = IF request[r].kind = "mail" /\ request[r].pc # "insert"
                  THEN [inbound EXCEPT ![m] = [status |-> "failed", ticket |-> Nil]]
                  ELSE inbound
    /\ accepted' = IF request[r].pc = "insert" THEN accepted \cup {m} ELSE accepted
    /\ Splits(r)
    /\ Return(r)
    /\ UNCHANGED <<arrivals, ticket, filed, died, turn>>

\* A statement throws: a mail that is stored becomes failed, without the ticket it
\* may have got; a transaction is rolled back, and the sender is told.
StatementThrows(r) ==
    LET m == request[r].mail IN
    /\ request[r].pc # "idle"
    /\ Fault
    /\ inbound' = IF request[r].kind = "mail" /\ request[r].pc # "insert"
                  THEN [inbound EXCEPT ![m] = [status |-> "failed", ticket |-> Nil]]
                  ELSE inbound
    /\ Splits(r)
    /\ Return(r)
    /\ UNCHANGED <<arrivals, ticket, filed, accepted, died, turn>>

\* The process dies, or cannot even store the failure: a stored mail stays received.
Crash(r) ==
    /\ request[r].pc # "idle"
    /\ Fault
    /\ died' = IF request[r].kind = "mail" /\ request[r].pc # "insert"
               THEN died \cup {request[r].mail} ELSE died
    /\ Splits(r)
    /\ Return(r)
    /\ UNCHANGED <<rowVars, accepted, turn>>

\* The steps of a request that has begun.
Proceed(r) ==
    \/ InsertInbound(r)
    \/ FindTicket(r)
    \/ CreateTicket(r)
    \/ ReadTicket(r)
    \/ PersistMessage(r)
    \/ MarkProcessed(r)
    \/ WriteStatus(r)

Next ==
    \E r \in Requests :
        \/ \E m \in Mails : Deliver(r, m)
        \/ \E t \in Tickets, author \in {"customer", "operator"} : AddMessage(r, t, author)
        \/ \E t \in Tickets, status \in Decisions : ReadStatus(r, t, status)
        \/ Proceed(r)
        \/ StatementThrows(r)
        \/ Crash(r)

Spec == Init /\ [][Next]_vars

\* The server goes on with every request, and a mail is delivered until it is
\* accepted: strongly, as it need not wait for one of the Requests.
FairSpec ==
    /\ Spec
    /\ \A r \in Requests : WF_vars(Proceed(r))
    /\ \A m \in Mails : SF_vars(m \notin accepted /\ \E r \in Requests : Deliver(r, m))

------------------------------------------------------------------------------
(* Properties                                                              *)

PCs == {"idle", "insert", "find", "create", "read", "write", "finish", "status"}
Kinds == {"mail", "customer", "operator"} \cup Decisions

\* Every row and request keeps its type, and a mail is processed only with a ticket.
TypeOK ==
    /\ inbound \in [Mails -> [status : {"none", "received", "processed", "failed"},
                              ticket : Tickets \cup {Nil}]]
    /\ ticket \in [Tickets -> TicketStatuses \cup {"none"}]
    /\ turn \in [Tickets -> {"any", "raced", "pending_operator", "pending_customer"}]
    /\ \A m \in Mails : Range(filed[m]) \subseteq Tickets
    /\ request \in [Requests -> [pc : PCs, kind : Kinds, mail : Mails \cup {Nil},
                                 ticket : Tickets \cup {Nil},
                                 seen : TicketStatuses \cup {"none"}]]
    /\ \A m \in Mails : inbound[m].status = "processed" => inbound[m].ticket # Nil
    /\ accepted \subseteq Mails /\ died \subseteq Mails
    /\ split \subseteq {ThreadOf[m] : m \in Mails}
    /\ faults \in 0..MaxFaults

InProgress(m) == \E r \in Requests : /\ request[r].mail = m
                                     /\ request[r].pc \notin {"idle", "insert"}

\* However often a mail is delivered, by several workers at once, it is filed at
\* most once; and the sender is told of its acceptance only when it is filed, about
\* to be, listed as failed, or its process died.
MailsAreFiledOnce ==
    \A m \in Mails :
        /\ Len(filed[m]) <= 1
        /\ m \in accepted => \/ Len(filed[m]) = 1
                             \/ InProgress(m)
                             \/ inbound[m].status = "failed"
                             \/ m \in died

\* The mails of a thread are filed in one ticket, unless two of them were processed
\* at the same time before one was linked, or the first was given up half way; a
\* failure after that does no harm.
OneTicketPerThread ==
    \A m, n \in Mails :
        (ThreadOf[m] = ThreadOf[n] /\ ThreadOf[m] \notin split) =>
            \A t \in Range(filed[m]), u \in Range(filed[n]) : t = u

\* A ticket waits for the side that did not write last, unless an operator has
\* decided otherwise since or requests that aim at different statuses overlapped:
\* no message is lost in a ticket that is resolved, and overlapping messages of the
\* same side do no harm.
WaitsForTheOtherSide ==
    \A t \in Tickets : turn[t] \notin {"any", "raced"} => ticket[t] = turn[t]

\* Every mail is filed in the end, or its failure is on record or its process died.
EveryMailSettles ==
    \A m \in Mails :
        <>(filed[m] # << >> \/ inbound[m].status = "failed" \/ m \in died)
==============================================================================
