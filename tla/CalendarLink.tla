----------------------------- MODULE CalendarLink -----------------------------
(***************************************************************************)
(* Bookings mirrored into an external calendar. A request changes a booking *)
(* and emits a domain event before it returns; registerBookingLifecycleSync *)
(* creates, moves or deletes the booking's calendar event and remembers it  *)
(* in the booking's link row. Every read, provider call and write is a      *)
(* statement of its own, and whatever the provider throws is swallowed.     *)
(***************************************************************************)
EXTENDS Naturals, FiniteSets, BookingStatus

CONSTANTS
    Bookings,     \* booking ids, all of one listing
    Connections,  \* the listing's calendar connections, each to its own calendar
    Events,       \* ids the provider gives to the events it creates
    Requests,     \* requests the server works on at the same time
    Targets,      \* the statuses requests ask for
    Nil,          \* no booking, no connection, no event
    MaxTime,      \* bookings are at the times 0..MaxTime
    MaxDisturbances  \* bound on failures of calls and processes and on changes of
                     \* the connections, together

ASSUME LinkAssumption ==
    /\ Targets \subseteq BookingStatuses
    /\ Nil \notin Bookings \cup Connections \cup Events
    /\ MaxTime \in Nat /\ MaxDisturbances \in Nat

VARIABLES
    booking,     \* the booking rows: status and time
    connection,  \* the connections: usable (active, not disabled) and primary
    calendar,    \* the provider's events: state, calendar, booking and time
    link,        \* booking_calendar_link: the event and the connection of a booking
    request,     \* each request: pc, booking, kind (the status it asks for, or "move"),
                 \* and what it has read
    trouble,     \* per booking: whether its event may be "misplaced" or "orphaned"
    confirmed,   \* how often a confirmation of the booking was announced
    disturbances \* failures of calls and processes, and changes of the connections

vars == <<booking, connection, calendar, link, request, trouble, confirmed, disturbances>>

Times == 0..MaxTime

\* The kinds of overlapping requests that may leave an event of a cancelled
\* booking behind, and those that may leave the event of a confirmed one wrong.
Troubles == {"misplaced", "orphaned"}
Orphaning == {{"confirmed"}, {"confirmed", "awaiting_payment"}, {"confirmed", "cancelled"}}
Misplacing == {{"move"}, {"confirmed", "move"}}

Idle == [pc |-> "idle", id |-> Nil, kind |-> "move", time |-> 0, event |-> Nil, conn |-> Nil]
NoLink == [event |-> Nil, conn |-> Nil]

Init ==
    /\ booking = [b \in Bookings |-> [status |-> "pending", time |-> 0]]
    /\ connection = [c \in Connections |-> [usable |-> TRUE, primary |-> FALSE]]
    /\ calendar = [e \in Events |-> [state |-> "unused", conn |-> Nil, booking |-> Nil, time |-> 0]]
    /\ link = [b \in Bookings |-> NoLink]
    /\ request = [r \in Requests |-> Idle]
    /\ trouble = [b \in Bookings |-> {}]
    /\ confirmed = [b \in Bookings |-> 0]
    /\ disturbances = 0

Goto(r, pc) == request' = [request EXCEPT ![r].pc = pc]
Return(r) == request' = [request EXCEPT ![r] = Idle]

\* The kinds of requests on booking b that are under way.
UnderWay(b) == {request[r].kind : r \in {q \in Requests : request[q].id = b}}

\* Request r begins to work on booking b.
Begin(r, b, kind, time, pc) ==
    /\ request[r].pc = "idle"
    /\ request' = [request EXCEPT ![r] = [Idle EXCEPT !.pc = pc, !.id = b,
                                                      !.kind = kind, !.time = time]]
    /\ LET races == {{kind, k} : k \in UnderWay(b)} IN
       trouble' = [trouble EXCEPT ![b] = @ \cup {t \in Troubles :
           races \cap (IF t = "orphaned" THEN Orphaning ELSE Misplacing) # {}}]

Disturb == /\ disturbances < MaxDisturbances
           /\ disturbances' = disturbances + 1

\* The synchronisation of request r gives up: it failed, or it found no usable
\* connection.
GivesUp(r) == trouble' = [trouble EXCEPT ![request[r].id] = Troubles]
Fails(r) == Disturb /\ GivesUp(r)

------------------------------------------------------------------------------
(* Requests on the booking                                                 *)

\* updateBookingStatus reads and checks the row.
CheckTransition(r, b, status) ==
    /\ CanBecome(booking[b].status, status)
    /\ Begin(r, b, status, 0, "status:write")
    /\ UNCHANGED <<booking, connection, calendar, link, confirmed, disturbances>>

\* It writes the status by booking id and announces a confirmation or a cancellation.
WriteStatus(r) ==
    LET b == request[r].id
        status == request[r].kind
    IN
    /\ request[r].pc = "status:write"
    /\ booking' = [booking EXCEPT ![b].status = status]
    /\ confirmed' = IF status = "confirmed" THEN [confirmed EXCEPT ![b] = @ + 1] ELSE confirmed
    /\ CASE status = "confirmed" -> Goto(r, "confirm:booking")
         [] status = "cancelled" -> Goto(r, "link")
         [] OTHER -> Return(r)
    /\ UNCHANGED <<connection, calendar, link, trouble, disturbances>>

\* updateBookingSchedule reads and checks the row (the slot is free).
CheckSchedule(r, b, time) ==
    /\ booking[b].status \in OpenStatuses
    /\ Begin(r, b, "move", time, "schedule:write")
    /\ UNCHANGED <<booking, connection, calendar, link, confirmed, disturbances>>

\* It writes the times and announces them.
WriteSchedule(r) ==
    /\ request[r].pc = "schedule:write"
    /\ booking' = [booking EXCEPT ![request[r].id].time = request[r].time]
    /\ request' = [request EXCEPT ![r].pc = "link", ![r].time = 0]
    /\ UNCHANGED <<connection, calendar, link, trouble, confirmed, disturbances>>

------------------------------------------------------------------------------
(* syncOnBookingConfirmed                                                  *)

\* The booking row is read; its status is not looked at.
ReadConfirmed(r) ==
    /\ request[r].pc = "confirm:booking"
    /\ request' = [request EXCEPT ![r].pc = "confirm:connection",
                                  ![r].time = booking[request[r].id].time]
    /\ UNCHANGED <<booking, connection, calendar, link, trouble, confirmed, disturbances>>

\* fetchActiveConnection: the usable primary one, else the one updated last, which
\* the synchronisation makes any of them.
Preferred == LET usable == {c \in Connections : connection[c].usable}
                 primary == {c \in usable : connection[c].primary}
             IN  IF primary # {} THEN primary ELSE usable

ChooseConnection(r) ==
    /\ request[r].pc = "confirm:connection"
    /\ \/ \E c \in Preferred :
             /\ request' = [request EXCEPT ![r].pc = "confirm:create", ![r].conn = c]
             /\ UNCHANGED trouble
       \/ /\ Preferred = {}
          /\ Return(r)
          /\ GivesUp(r)
    /\ UNCHANGED <<booking, connection, calendar, link, confirmed, disturbances>>

\* The provider's events after one more is created for the booking of request r.
WithNewEvent(r, e) ==
    [calendar EXCEPT ![e] = [state |-> "present", conn |-> request[r].conn,
                             booking |-> request[r].id, time |-> request[r].time]]

\* Fault: a call whose answer is lost is made again.
CreateEventAgain(r) ==
    /\ request[r].pc = "confirm:create"
    /\ \E e \in Events :
          /\ calendar[e].state = "unused"
          /\ calendar' = WithNewEvent(r, e)
          /\ \/ /\ request' = [request EXCEPT ![r].pc = "confirm:store", ![r].event = e]
                /\ UNCHANGED <<trouble, disturbances>>
             \/ Fails(r) /\ UNCHANGED request
    /\ UNCHANGED <<booking, connection, link, confirmed>>

\* adapter.createEvent answers with the event's id; or the answer does not come.
CreateEvent(r) ==
    /\ request[r].pc = "confirm:create"
    /\ \E e \in Events :
          /\ calendar[e].state = "unused"
          /\ calendar' = WithNewEvent(r, e)
          /\ \/ /\ request' = [request EXCEPT ![r].pc = "confirm:store", ![r].event = e]
                /\ UNCHANGED <<trouble, disturbances>>
             \/ Fails(r) /\ Return(r)
    /\ UNCHANGED <<booking, connection, link, confirmed>>

\* The link is inserted; on conflict only its event is replaced.
StoreLink(r) ==
    LET b == request[r].id IN
    /\ request[r].pc = "confirm:store"
    /\ link' = [link EXCEPT ![b] = [event |-> request[r].event,
                   conn |-> IF link[b] = NoLink THEN request[r].conn ELSE link[b].conn]]
    /\ Return(r)
    /\ UNCHANGED <<booking, connection, calendar, trouble, confirmed, disturbances>>

------------------------------------------------------------------------------
(* syncOnBookingCancelled and syncOnBookingScheduleUpdated                 *)

\* Without a link there is nothing to do.
ReadLink(r) ==
    LET stored == link[request[r].id] IN
    /\ request[r].pc = "link"
    /\ IF stored = NoLink
       THEN Return(r)
       ELSE request' = [request EXCEPT ![r].pc = "connection", ![r].event = stored.event,
                                       ![r].conn = stored.conn]
    /\ UNCHANGED <<booking, connection, calendar, link, trouble, confirmed, disturbances>>

\* Fault: the listing's preferred connection is used, not the link's.
ReadPreferredConnection(r) ==
    /\ request[r].pc = "connection"
    /\ \E c \in Preferred :
          request' = [request EXCEPT ![r].pc = IF request[r].kind = "move" THEN "move:booking"
                                                                          ELSE "delete",
                                     ![r].conn = c]
    /\ UNCHANGED <<booking, connection, calendar, link, trouble, confirmed, disturbances>>

\* fetchUsableConnectionById: a connection disabled since then is left alone.
ReadConnection(r) ==
    /\ request[r].pc = "connection"
    /\ \/ /\ connection[request[r].conn].usable
          /\ Goto(r, IF request[r].kind = "move" THEN "move:booking" ELSE "delete")
          /\ UNCHANGED trouble
       \/ /\ ~connection[request[r].conn].usable
          /\ Return(r)
          /\ GivesUp(r)
    /\ UNCHANGED <<booking, connection, calendar, link, confirmed, disturbances>>

\* The event as the calendar of the request's connection knows it.
Found(r) == /\ calendar[request[r].event].state = "present"
            /\ calendar[request[r].event].conn = request[r].conn

\* adapter.deleteEvent; an event that is not there counts as deleted.
DeleteEvent(r) ==
    /\ request[r].pc = "delete"
    /\ calendar' = IF Found(r) THEN [calendar EXCEPT ![request[r].event].state = "deleted"]
                               ELSE calendar
    /\ Return(r)
    /\ UNCHANGED <<booking, connection, link, trouble, confirmed, disturbances>>

\* The booking is read after its link and connection.
ReadMoved(r) ==
    /\ request[r].pc = "move:booking"
    /\ request' = [request EXCEPT ![r].pc = "update", ![r].time = booking[request[r].id].time]
    /\ UNCHANGED <<booking, connection, calendar, link, trouble, confirmed, disturbances>>

\* Fault: without a time zone the adapter leaves the times out of its request.
UpdateEventUntimed(r) ==
    /\ request[r].pc = "update"
    /\ Return(r)
    /\ UNCHANGED <<booking, connection, calendar, link, trouble, confirmed, disturbances>>

\* adapter.updateEvent; an event that is not there makes it throw.
UpdateEvent(r) ==
    /\ request[r].pc = "update"
    /\ calendar' = IF Found(r) THEN [calendar EXCEPT ![request[r].event].time = request[r].time]
                               ELSE calendar
    /\ Return(r)
    /\ UNCHANGED <<booking, connection, link, trouble, confirmed, disturbances>>

\* A statement or a provider call throws, without effect, or the process dies:
\* before the booking is written, nothing has happened.
RequestFails(r) ==
    /\ request[r].pc # "idle"
    /\ Return(r)
    /\ IF request[r].pc \in {"status:write", "schedule:write"}
       THEN UNCHANGED <<trouble, disturbances>>
       ELSE Fails(r)
    /\ UNCHANGED <<booking, connection, calendar, link, confirmed>>

------------------------------------------------------------------------------
(* The operator's changes of the connections (see CalendarSync)            *)

SetUsable(c) ==
    /\ Disturb
    /\ connection' = [connection EXCEPT ![c].usable = ~@]
    /\ UNCHANGED <<booking, calendar, link, request, trouble, confirmed>>

SetPrimary(c) ==
    /\ connection[c].usable
    /\ Disturb
    /\ connection' = [d \in Connections |-> [connection[d] EXCEPT !.primary = d = c]]
    /\ UNCHANGED <<booking, calendar, link, request, trouble, confirmed>>

\* The steps of a request that has begun.
Proceed(r) ==
    \/ WriteStatus(r)
    \/ WriteSchedule(r)
    \/ ReadConfirmed(r)
    \/ ChooseConnection(r)
    \/ CreateEvent(r)
    \/ StoreLink(r)
    \/ ReadLink(r)
    \/ ReadConnection(r)
    \/ DeleteEvent(r)
    \/ ReadMoved(r)
    \/ UpdateEvent(r)

Next ==
    \/ \E r \in Requests :
          \/ \E b \in Bookings, status \in Targets : CheckTransition(r, b, status)
          \/ \E b \in Bookings, time \in Times : CheckSchedule(r, b, time)
          \/ Proceed(r)
          \/ RequestFails(r)
    \/ \E c \in Connections : SetUsable(c) \/ SetPrimary(c)

Spec == Init /\ [][Next]_vars

\* The server goes on with every request: every provider call ends, by its
\* timeout (google-adapter.ts:671) at the latest. Nothing else has to happen.
FairSpec == Spec /\ \A r \in Requests : WF_vars(Proceed(r))

------------------------------------------------------------------------------
(* Properties                                                              *)

PresentEvents(b) == {e \in Events : calendar[e].state = "present" /\ calendar[e].booking = b}

\* A booking that stays cancelled loses its calendar event, unless its
\* confirmation raced with the cancellation or with another confirmation, a
\* provider call or process failed, or the connection could not be used then.
\* The listing's primary connection may have changed between the two.
CancelledLeavesCalendar ==
    \A b \in Bookings :
        booking[b].status = "cancelled"
            ~> \/ PresentEvents(b) = {}
               \/ "orphaned" \in trouble[b]

\* Once nothing works on a confirmed booking, its link names an event that is in
\* the calendar of the link's connection, at the booking's time, unless one of
\* the races or failures of Misplacing happened; overlapping cancellations that
\* lost to other updates do no harm.
LinkShowsBooking ==
    \A b \in Bookings :
        (/\ booking[b].status = "confirmed"
         /\ UnderWay(b) = {}
         /\ trouble[b] = {})
            => LET e == link[b].event IN
               /\ PresentEvents(b) = {e}
               /\ calendar[e].conn = link[b].conn
               /\ calendar[e].time = booking[b].time

\* However requests race and fail, the calendars never hold more events of a
\* booking than its confirmation was announced.
EventsAreConfirmations ==
    \A b \in Bookings : Cardinality(PresentEvents(b)) <= confirmed[b]
==============================================================================
