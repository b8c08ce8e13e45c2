-------------------------- MODULE CalendarLinkProofs --------------------------
(***************************************************************************)
(* Proofs about CalendarLink, for any bookings, connections, requests at a *)
(* time, failures and statuses asked for: types and the ownership of       *)
(* events, that there are no more events of a booking than announced       *)
(* confirmations, and that the link of a booking nothing has troubled      *)
(* shows it.                                                               *)
(***************************************************************************)
EXTENDS CalendarLink, FiniteSetTheorems, TLAPS

------------------------------------------------------------------------------
(* Types, and what the statement a request is at says of it.               *)

ConfirmPCs == {"confirm:booking", "confirm:connection", "confirm:create", "confirm:store"}
EventPCs == {"connection", "delete", "move:booking", "update"}
RequestPCs == {"idle", "status:write", "schedule:write", "link"} \cup ConfirmPCs \cup EventPCs

RequestState == [pc : RequestPCs, id : Bookings \cup {Nil}, kind : BookingStatuses \cup {"move"},
                 time : Times, event : Events \cup {Nil}, conn : Connections \cup {Nil}]

EventState == [state : {"unused", "present", "deleted"}, conn : Connections \cup {Nil},
               booking : Bookings \cup {Nil}, time : Times]

Link == [event : Events \cup {Nil}, conn : Connections \cup {Nil}]

\* A request has a booking, and is at a statement of the handler of its kind.
WellFormed(q) ==
    /\ q.pc = "idle" <=> q.id = Nil
    /\ q.pc = "status:write" => \E from \in BookingStatuses : CanBecome(from, q.kind)
    /\ q.pc \in ConfirmPCs => q.kind = "confirmed"
    /\ q.pc \in {"schedule:write", "move:booking", "update"} => q.kind = "move"
    /\ q.pc \in {"link", "connection"} => q.kind \in {"move", "cancelled"}
    /\ q.pc = "delete" => q.kind = "cancelled"

TypeOK ==
    /\ booking \in [Bookings -> [status : BookingStatuses, time : Times]]
    /\ connection \in [Connections -> [usable : BOOLEAN, primary : BOOLEAN]]
    /\ calendar \in [Events -> EventState]
    /\ link \in [Bookings -> Link]
    /\ request \in [Requests -> RequestState]
    /\ \A r \in Requests : WellFormed(request[r])
    /\ trouble \in [Bookings -> SUBSET Troubles]
    /\ confirmed \in [Bookings -> Nat]
    /\ disturbances \in Nat

\* The event e was created for booking b.
CreatedFor(e, b) == e \in Events /\ calendar[e].booking = b /\ calendar[e].state # "unused"

\* A link, and a request that has an event in hand, names an event of its own booking.
Owned ==
    /\ \A b \in Bookings : link[b] # NoLink => CreatedFor(link[b].event, b)
    /\ \A r \in Requests : request[r].pc \in EventPCs \cup {"confirm:store"} =>
           CreatedFor(request[r].event, request[r].id)

\* The requests on booking b that are about to create an event.
Creating(b) ==
    {r \in Requests : /\ request[r].id = b
                      /\ request[r].pc \in {"confirm:booking", "confirm:connection", "confirm:create"}}

\* Every event there is and every one to come has its announcement.
Counted ==
    \A b \in Bookings :
        /\ IsFiniteSet(PresentEvents(b)) /\ IsFiniteSet(Creating(b))
        /\ Cardinality(PresentEvents(b)) + Cardinality(Creating(b)) <= confirmed[b]

\* The requests on booking b, and those among them that mirror its confirmation.
Of(b) == {r \in Requests : request[r].id = b}
Confirming(b) == {r \in Of(b) : request[r].pc \in ConfirmPCs}

\* Those that have the event of a booking that was moved, or cancelled, before them.
Moving(b) == {r \in Of(b) : request[r].kind = "move"
                            /\ request[r].pc \in {"link", "connection", "move:booking", "update"}}
Removing(b) == {r \in Of(b) : request[r].kind = "cancelled"
                              /\ request[r].pc \in {"link", "connection", "delete"}}

\* No two requests on b are of kinds that race.
Apart(b) ==
    \A q, r \in Of(b) : q # r => {request[q].kind, request[r].kind} \notin Orphaning \cup Misplacing

\* Booking b is confirmed once at most, and nothing takes it back to before.
ConfirmedOnce(b) ==
    /\ confirmed[b] \in {0, 1}
    /\ confirmed[b] = 0 => /\ booking[b].status # "confirmed" /\ Confirming(b) = {}
                           /\ link[b] = NoLink /\ PresentEvents(b) = {}
    /\ confirmed[b] = 1 =>
           /\ booking[b].status \notin {"pending", "awaiting_payment"}
           /\ \A r \in Of(b) : request[r].pc = "status:write" =>
                  request[r].kind \notin {"awaiting_payment", "confirmed"}

\* While the event of b is being created there is no link, and the event is as the
\* request that creates it knows it.
CreationTells(b) ==
    \A r \in Confirming(b) :
        LET q == request[r] IN
        /\ link[b] = NoLink
        /\ q.pc # "confirm:booking" => q.time = booking[b].time
        /\ q.pc # "confirm:store" => PresentEvents(b) = {}
        /\ q.pc = "confirm:store" => /\ PresentEvents(b) = {q.event}
                                     /\ calendar[q.event].conn = q.conn
                                     /\ calendar[q.event].time = q.time

\* From then on the link names the only event of b, which is there while b stays
\* confirmed, at its time unless a move is under way.
LinkTells(b) ==
    confirmed[b] = 1 /\ Confirming(b) = {} =>
        LET e == link[b].event IN
        /\ link[b] # NoLink
        /\ PresentEvents(b) \subseteq {e}
        /\ calendar[e].conn = link[b].conn
        /\ booking[b].status = "confirmed" => calendar[e].state = "present" /\ Removing(b) = {}
        /\ Moving(b) = {} /\ calendar[e].state = "present" => calendar[e].time = booking[b].time
        /\ \A r \in Moving(b) :
               /\ request[r].pc # "link" => /\ request[r].event = e
                                            /\ request[r].conn = link[b].conn
               /\ request[r].pc = "update" => request[r].time = booking[b].time

Shown(b) ==
    trouble[b] = {} => Apart(b) /\ ConfirmedOnce(b) /\ CreationTells(b) /\ LinkTells(b)

------------------------------------------------------------------------------
(* What the steps do to the requests.                                      *)

\* The other requests stay as they are.
Others(r) == \A q \in Requests \ {r} : request'[q] = request[q]

RequestsTyped == request \in [Requests -> RequestState] /\ \A r \in Requests : WellFormed(request[r])

LEMMA TimeZero == ASSUME LinkAssumption PROVE 0 \in Times
BY DEF LinkAssumption, Times

LEMMA SetDoes ==
    ASSUME TypeOK, NEW r \in Requests, NEW y \in RequestState, WellFormed(y),
           request' = [request EXCEPT ![r] = y]
    PROVE  RequestsTyped' /\ Others(r) /\ request'[r] = y
BY DEF TypeOK, Others, RequestsTyped

LEMMA ReturnDoes ==
    ASSUME LinkAssumption, TypeOK, NEW r \in Requests, Return(r)
    PROVE  /\ RequestsTyped' /\ Others(r)
           /\ request'[r].pc = "idle" /\ request'[r].id = Nil
<1>1. Idle \in RequestState /\ Idle.pc = "idle" /\ Idle.id = Nil
  BY TimeZero DEF Idle, RequestState, RequestPCs
<1>2. WellFormed(Idle)
  BY <1>1 DEF WellFormed, ConfirmPCs
<1> QED BY <1>1, <1>2, SetDoes DEF Return

\* Request r has gone to the statement pc, for the same booking and to the same end.
GoesTo(r, pc) ==
    /\ request'[r].pc = pc /\ request'[r].id = request[r].id
    /\ request'[r].kind = request[r].kind

LEMMA GotoDoes ==
    ASSUME TypeOK, NEW r \in Requests, NEW pc \in RequestPCs,
           WellFormed([request[r] EXCEPT !.pc = pc]), Goto(r, pc)
    PROVE  /\ RequestsTyped' /\ Others(r) /\ GoesTo(r, pc)
           /\ request'[r].time = request[r].time /\ request'[r].event = request[r].event
           /\ request'[r].conn = request[r].conn
<1> DEFINE x == request[r]
           y == [x EXCEPT !.pc = pc]
<1>1. x \in RequestState /\ WellFormed(y) /\ request' = [request EXCEPT ![r] = y]
  BY DEF TypeOK, Goto
<1> HIDE DEF x
<1>2. /\ y \in RequestState /\ y.pc = pc /\ y.id = x.id /\ y.kind = x.kind
      /\ y.time = x.time /\ y.event = x.event /\ y.conn = x.conn
  BY <1>1 DEF RequestState
<1> HIDE DEF y
<1>3. RequestsTyped' /\ Others(r) /\ request'[r] = y
  BY <1>1, <1>2, SetDoes
<1> QED BY <1>2, <1>3 DEF x, GoesTo

\* The statements after the first, from one to another of the same request.
LEMMA GoesDoes ==
    ASSUME TypeOK, NEW r \in Requests, NEW y \in RequestState, request[r].id # Nil,
           y.id = request[r].id, y.kind = request[r].kind, y.pc \notin {"idle", "status:write"},
           y.pc \in ConfirmPCs => y.kind = "confirmed",
           y.pc \in {"schedule:write", "move:booking", "update"} => y.kind = "move",
           y.pc \in {"link", "connection"} => y.kind \in {"move", "cancelled"},
           y.pc = "delete" => y.kind = "cancelled",
           request' = [request EXCEPT ![r] = y]
    PROVE  RequestsTyped' /\ Others(r) /\ GoesTo(r, y.pc) /\ request'[r] = y
<1>1. WellFormed(y)
  BY DEF WellFormed
<1> QED BY <1>1, SetDoes DEF GoesTo

LEMMA BeginDoes ==
    ASSUME LinkAssumption, TypeOK, NEW r \in Requests, NEW b \in Bookings,
           NEW kind \in BookingStatuses \cup {"move"}, NEW time \in Times,
           NEW pc \in {"status:write", "schedule:write"},
           pc = "status:write" => CanBecome(booking[b].status, kind),
           pc = "schedule:write" => kind = "move",
           Begin(r, b, kind, time, pc)
    PROVE  /\ RequestsTyped' /\ Others(r) /\ request[r].id = Nil
           /\ request'[r].pc = pc /\ request'[r].id = b /\ request'[r].kind = kind
           /\ trouble' \in [Bookings -> SUBSET Troubles]
           /\ \A d \in Bookings \ {b} : trouble'[d] = trouble[d]
           /\ trouble'[b] = {} => /\ trouble[b] = {}
                                  /\ \A q \in Of(b) : {kind, request[q].kind} \notin Orphaning \cup Misplacing
<1> DEFINE y == [Idle EXCEPT !.pc = pc, !.id = b, !.kind = kind, !.time = time]
<1>1. /\ y \in RequestState /\ y.pc = pc /\ y.id = b /\ y.kind = kind /\ y.event = Nil
      /\ y.conn = Nil
  BY DEF Idle, RequestState, RequestPCs
<1>2. request' = [request EXCEPT ![r] = y] /\ request[r].pc = "idle" /\ b # Nil
  BY DEF Begin, LinkAssumption
<1> HIDE DEF y
<1>3. WellFormed(y)
  <2>1. pc = "status:write" => \E from \in BookingStatuses : CanBecome(from, kind)
    BY DEF TypeOK
  <2> QED BY <1>1, <1>2, <2>1 DEF WellFormed, ConfirmPCs
<1>4. RequestsTyped' /\ Others(r) /\ request'[r] = y /\ request[r].id = Nil
  BY <1>1, <1>2, <1>3, SetDoes DEF TypeOK, WellFormed
<1> DEFINE races == {{kind, k} : k \in UnderWay(b)}
           new == {t \in Troubles : races \cap (IF t = "orphaned" THEN Orphaning ELSE Misplacing) # {}}
<1>5. trouble' = [trouble EXCEPT ![b] = @ \cup new] /\ new \subseteq Troubles
  BY DEF Begin
<1>6. new = {} => \A q \in Of(b) : {kind, request[q].kind} \notin Orphaning \cup Misplacing
  <2>1. ASSUME NEW q \in Of(b), {kind, request[q].kind} \in Orphaning \cup Misplacing
        PROVE  new # {}
    <3>1. {kind, request[q].kind} \in races
      BY DEF Of, UnderWay
    <3>2. CASE {kind, request[q].kind} \in Orphaning
      <4>1. "orphaned" \in new
        BY <3>1, <3>2 DEF Troubles
      <4> QED BY <4>1
    <3>3. CASE {kind, request[q].kind} \in Misplacing
      <4>1. "misplaced" \in new
        BY <3>1, <3>3 DEF Troubles
      <4> QED BY <4>1
    <3> QED BY <2>1, <3>2, <3>3
  <2> QED BY <2>1
<1> HIDE DEF new
<1>7. /\ trouble' \in [Bookings -> SUBSET Troubles]
      /\ \A d \in Bookings \ {b} : trouble'[d] = trouble[d]
      /\ trouble'[b] = {} => trouble[b] = {} /\ new = {}
  BY <1>5 DEF TypeOK
<1> QED BY <1>1, <1>2, <1>4, <1>6, <1>7

\* The status is written, and announced when it is a confirmation or a cancellation.
LEMMA WriteStatusDoes ==
    ASSUME LinkAssumption, TypeOK, NEW r \in Requests, WriteStatus(r)
    PROVE  LET b == request[r].id
               kind == request[r].kind IN
           /\ RequestsTyped' /\ Others(r) /\ request[r].pc = "status:write"
           /\ b \in Bookings /\ kind \in BookingStatuses \ {"pending"}
           /\ \/ kind = "confirmed" /\ GoesTo(r, "confirm:booking")
              \/ kind = "cancelled" /\ GoesTo(r, "link")
              \/ /\ kind \notin {"confirmed", "cancelled"}
                 /\ request'[r].pc = "idle" /\ request'[r].id = Nil
<1> DEFINE b == request[r].id
           kind == request[r].kind
<1>1. /\ request[r].pc = "status:write" /\ request[r] \in RequestState /\ WellFormed(request[r])
  BY DEF WriteStatus, TypeOK
<1>2. PICK from \in BookingStatuses : CanBecome(from, kind)
  BY <1>1 DEF WellFormed
<1>3. kind \in BookingStatuses \ {"pending"}
  BY <1>2 DEF CanBecome, ValidTransitions, BookingStatuses
<1>4. b \in Bookings
  BY <1>1 DEF RequestState, WellFormed
<1>5. CASE kind = "confirmed"
  <2>1. Goto(r, "confirm:booking")
    BY <1>5 DEF WriteStatus
  <2>2. WellFormed([request[r] EXCEPT !.pc = "confirm:booking"])
    BY <1>1, <1>4, <1>5 DEF WellFormed, RequestState, ConfirmPCs, LinkAssumption
  <2>3. RequestsTyped' /\ Others(r) /\ GoesTo(r, "confirm:booking")
    BY <2>1, <2>2, GotoDoes DEF RequestPCs, ConfirmPCs
  <2> QED BY <1>1, <1>3, <1>4, <1>5, <2>3
<1>6. CASE kind = "cancelled"
  <2>1. Goto(r, "link")
    BY <1>6 DEF WriteStatus
  <2>2. WellFormed([request[r] EXCEPT !.pc = "link"])
    BY <1>1, <1>4, <1>6 DEF WellFormed, RequestState, ConfirmPCs, LinkAssumption
  <2>3. RequestsTyped' /\ Others(r) /\ GoesTo(r, "link")
    BY <2>1, <2>2, GotoDoes DEF RequestPCs
  <2> QED BY <1>1, <1>3, <1>4, <1>6, <2>3
<1>7. CASE kind \notin {"confirmed", "cancelled"}
  <2>1. Return(r)
    BY <1>7 DEF WriteStatus
  <2> QED BY <1>1, <1>3, <1>4, <1>7, <2>1, ReturnDoes
<1> QED BY <1>5, <1>6, <1>7

LEMMA RequestTyped ==
    ASSUME LinkAssumption, TypeOK, NEW r \in Requests
    PROVE  /\ request[r] \in RequestState /\ WellFormed(request[r])
           /\ request[r].pc # "idle" => request[r].id \in Bookings /\ request[r].id # Nil
BY DEF TypeOK, RequestState, WellFormed, LinkAssumption

LEMMA WriteScheduleDoes ==
    ASSUME LinkAssumption, TypeOK, NEW r \in Requests, WriteSchedule(r)
    PROVE  /\ RequestsTyped' /\ Others(r) /\ GoesTo(r, "link")
           /\ request[r].pc = "schedule:write" /\ request[r].kind = "move"
<1> DEFINE x == request[r]
           y == [x EXCEPT !.pc = "link", !.time = 0]
<1>1. /\ x \in RequestState /\ x.id # Nil /\ x.pc = "schedule:write" /\ x.kind = "move"
      /\ request' = [request EXCEPT ![r] = y]
  BY RequestTyped DEF WriteSchedule, WellFormed
<1> HIDE DEF x
<1>2. y \in RequestState /\ y.pc = "link" /\ y.id = x.id /\ y.kind = x.kind
  BY <1>1, TimeZero DEF RequestState, RequestPCs
<1> HIDE DEF y
<1>3. RequestsTyped' /\ Others(r) /\ GoesTo(r, y.pc)
  BY <1>1, <1>2, GoesDoes DEF x, ConfirmPCs
<1> QED BY <1>1, <1>2, <1>3 DEF x

\* The booking is read, by a confirmation or by a move.
LEMMA ReadBookingDoes ==
    ASSUME LinkAssumption, TypeOK, NEW r \in Requests, ReadConfirmed(r) \/ ReadMoved(r)
    PROVE  /\ RequestsTyped' /\ Others(r)
           /\ request'[r].time = booking[request[r].id].time
           /\ request'[r].event = request[r].event /\ request'[r].conn = request[r].conn
           /\ \/ /\ request[r].pc = "confirm:booking" /\ request[r].kind = "confirmed"
                 /\ GoesTo(r, "confirm:connection")
              \/ /\ request[r].pc = "move:booking" /\ request[r].kind = "move"
                 /\ GoesTo(r, "update")
<1> DEFINE x == request[r]
           time == booking[x.id].time
<1>1. PICK pc \in {"confirm:connection", "update"} :
          /\ request' = [request EXCEPT ![r] = [x EXCEPT !.pc = pc, !.time = time]]
          /\ \/ /\ pc = "confirm:connection" /\ x.pc = "confirm:booking"
             \/ /\ pc = "update" /\ x.pc = "move:booking"
  BY DEF ReadConfirmed, ReadMoved
<1> DEFINE y == [x EXCEPT !.pc = pc, !.time = time]
<1>2. x \in RequestState /\ x.id \in Bookings /\ x.id # Nil /\ WellFormed(x)
  BY <1>1, RequestTyped
<1>3. time \in Times
  BY <1>2 DEF TypeOK
<1>4. /\ request' = [request EXCEPT ![r] = y]
      /\ pc = "confirm:connection" => x.kind = "confirmed"
      /\ pc = "update" => x.kind = "move"
  BY <1>1, <1>2 DEF WellFormed, ConfirmPCs
<1> HIDE DEF x, time
<1>5. /\ y \in RequestState /\ y.pc = pc /\ y.id = x.id /\ y.kind = x.kind /\ y.time = time
      /\ y.event = x.event /\ y.conn = x.conn
  BY <1>2, <1>3 DEF RequestState, RequestPCs, ConfirmPCs, EventPCs
<1> HIDE DEF y
<1>6. RequestsTyped' /\ Others(r) /\ GoesTo(r, y.pc) /\ request'[r] = y
  <2>1. /\ y.pc \notin {"idle", "status:write"}
        /\ y.pc \in ConfirmPCs => y.kind = "confirmed"
        /\ y.pc \in {"schedule:write", "move:booking", "update"} => y.kind = "move"
        /\ ~(y.pc \in {"link", "connection"}) /\ y.pc # "delete"
    BY <1>4, <1>5 DEF ConfirmPCs
  <2> QED BY <1>2, <1>4, <1>5, <2>1, GoesDoes DEF x
<1> QED BY <1>1, <1>4, <1>5, <1>6 DEF x, time

\* A usable connection is chosen, or the synchronisation gives up.
LEMMA ChooseDoes ==
    ASSUME LinkAssumption, TypeOK, NEW r \in Requests, ChooseConnection(r)
    PROVE  /\ RequestsTyped' /\ Others(r)
           /\ request[r].pc = "confirm:connection" /\ request[r].kind = "confirmed"
           /\ \/ /\ GoesTo(r, "confirm:create") /\ request'[r].time = request[r].time
                 /\ trouble' = trouble
              \/ /\ request'[r].pc = "idle" /\ request'[r].id = Nil
                 /\ GivesUp(r)
<1> DEFINE x == request[r]
<1>1. /\ x.pc = "confirm:connection" /\ x \in RequestState /\ WellFormed(x) /\ x.id # Nil
      /\ x.kind = "confirmed"
  BY RequestTyped DEF ChooseConnection, WellFormed, ConfirmPCs
<1>2. CASE Return(r) /\ GivesUp(r)
  BY <1>1, <1>2, ReturnDoes
<1>3. ASSUME NEW c \in Connections, trouble' = trouble,
             request' = [request EXCEPT ![r] = [x EXCEPT !.pc = "confirm:create", !.conn = c]]
      PROVE  RequestsTyped' /\ Others(r) /\ GoesTo(r, "confirm:create")
             /\ request'[r].time = request[r].time
  <2> DEFINE y == [x EXCEPT !.pc = "confirm:create", !.conn = c]
  <2>1. request' = [request EXCEPT ![r] = y]
    BY <1>3
  <2> HIDE DEF x
  <2>2. /\ y \in RequestState /\ y.pc = "confirm:create" /\ y.id = x.id /\ y.kind = x.kind
        /\ y.time = x.time
    BY <1>1 DEF RequestState, RequestPCs, ConfirmPCs
  <2> HIDE DEF y
  <2>3. RequestsTyped' /\ Others(r) /\ GoesTo(r, y.pc) /\ request'[r] = y
    BY <1>1, <2>1, <2>2, GoesDoes DEF x
  <2> QED BY <2>2, <2>3 DEF x
<1>4. \/ Return(r) /\ GivesUp(r)
      \/ \E c \in Connections :
            /\ trouble' = trouble
            /\ request' = [request EXCEPT ![r] = [x EXCEPT !.pc = "confirm:create", !.conn = c]]
  BY DEF ChooseConnection, Preferred
<1> QED BY <1>1, <1>2, <1>3, <1>4

\* An event the provider has not used becomes the booking's; the answer comes or not.
LEMMA CreateDoes ==
    ASSUME LinkAssumption, TypeOK, NEW r \in Requests, CreateEvent(r)
    PROVE  /\ RequestsTyped' /\ Others(r)
           /\ request[r].pc = "confirm:create" /\ request[r].kind = "confirmed"
           /\ \E e \in Events :
                 /\ calendar[e].state = "unused"
                 /\ \A d \in Events \ {e} : calendar'[d] = calendar[d]
                 /\ calendar'[e] = [state |-> "present", conn |-> request[r].conn,
                                    booking |-> request[r].id, time |-> request[r].time]
                 /\ \/ /\ GoesTo(r, "confirm:store") /\ request'[r].time = request[r].time
                       /\ request'[r].conn = request[r].conn /\ request'[r].event = e
                       /\ trouble' = trouble
                    \/ /\ request'[r].pc = "idle" /\ request'[r].id = Nil
                       /\ GivesUp(r)
           /\ calendar' \in [Events -> EventState]
<1> DEFINE x == request[r]
<1>1. /\ x.pc = "confirm:create" /\ x \in RequestState /\ WellFormed(x) /\ x.id # Nil
      /\ x.kind = "confirmed" /\ x.id \in Bookings
  BY RequestTyped DEF CreateEvent, WellFormed, ConfirmPCs
<1>2. PICK e \in Events :
          /\ calendar[e].state = "unused"
          /\ calendar' = WithNewEvent(r, e)
          /\ \/ /\ request' = [request EXCEPT ![r] = [x EXCEPT !.pc = "confirm:store", !.event = e]]
                /\ trouble' = trouble
             \/ Fails(r) /\ Return(r)
  BY DEF CreateEvent
<1>3. /\ \A d \in Events \ {e} : calendar'[d] = calendar[d]
      /\ calendar'[e] = [state |-> "present", conn |-> request[r].conn,
                         booking |-> request[r].id, time |-> request[r].time]
      /\ calendar' \in [Events -> EventState]
  <2>1. [state |-> "present", conn |-> request[r].conn, booking |-> request[r].id,
         time |-> request[r].time] \in EventState
    BY <1>1 DEF EventState, RequestState
  <2> QED BY <1>2, <2>1 DEF WithNewEvent, TypeOK
<1>4. CASE Fails(r) /\ Return(r)
  BY <1>1, <1>2, <1>3, <1>4, ReturnDoes DEF Fails
<1>5. CASE /\ request' = [request EXCEPT ![r] = [x EXCEPT !.pc = "confirm:store", !.event = e]]
           /\ trouble' = trouble
  <2> DEFINE y == [x EXCEPT !.pc = "confirm:store", !.event = e]
  <2>1. request' = [request EXCEPT ![r] = y]
    BY <1>5
  <2> HIDE DEF x
  <2>2. /\ y \in RequestState /\ y.pc = "confirm:store" /\ y.id = x.id /\ y.kind = x.kind
        /\ y.time = x.time /\ y.conn = x.conn /\ y.event = e
    BY <1>1 DEF RequestState, RequestPCs, ConfirmPCs
  <2> HIDE DEF y
  <2>3. RequestsTyped' /\ Others(r) /\ GoesTo(r, y.pc) /\ request'[r] = y
    BY <1>1, <2>1, <2>2, GoesDoes DEF x
  <2>4. /\ RequestsTyped' /\ Others(r) /\ GoesTo(r, "confirm:store")
        /\ request'[r].time = request[r].time
        /\ request'[r].conn = request[r].conn /\ request'[r].event = e
    BY <2>2, <2>3 DEF x
  <2> QED BY <1>1, <1>2, <1>3, <1>5, <2>4 DEF x
<1> QED BY <1>2, <1>4, <1>5

LEMMA ReadLinkDoes ==
    ASSUME LinkAssumption, TypeOK, NEW r \in Requests, ReadLink(r)
    PROVE  LET b == request[r].id IN
           /\ RequestsTyped' /\ Others(r)
           /\ request[r].pc = "link" /\ request[r].kind \in {"move", "cancelled"}
           /\ \/ link[b] = NoLink /\ request'[r].pc = "idle" /\ request'[r].id = Nil
              \/ /\ link[b] # NoLink /\ GoesTo(r, "connection")
                 /\ request'[r].event = link[b].event /\ request'[r].conn = link[b].conn
<1> DEFINE x == request[r]
           b == x.id
           stored == link[b]
<1>1. /\ x.pc = "link" /\ x \in RequestState /\ WellFormed(x) /\ x.id # Nil
      /\ x.kind \in {"move", "cancelled"} /\ x.id \in Bookings
  BY RequestTyped DEF ReadLink, WellFormed
<1>2. CASE stored = NoLink
  <2>1. Return(r)
    BY <1>2 DEF ReadLink
  <2> QED BY <1>1, <1>2, <2>1, ReturnDoes
<1>3. CASE stored # NoLink
  <2> DEFINE y == [x EXCEPT !.pc = "connection", !.event = stored.event, !.conn = stored.conn]
  <2>1. request' = [request EXCEPT ![r] = y] /\ stored \in Link
    BY <1>1, <1>3 DEF ReadLink, TypeOK
  <2> HIDE DEF x, stored
  <2>2. /\ y \in RequestState /\ y.pc = "connection" /\ y.id = x.id /\ y.kind = x.kind
        /\ y.event = stored.event /\ y.conn = stored.conn
    BY <1>1, <2>1 DEF RequestState, RequestPCs, EventPCs, Link
  <2> HIDE DEF y
  <2>3. RequestsTyped' /\ Others(r) /\ GoesTo(r, y.pc) /\ request'[r] = y
    BY <1>1, <2>1, <2>2, GoesDoes DEF x, ConfirmPCs
  <2> QED BY <1>1, <1>3, <2>2, <2>3 DEF x, stored
<1> QED BY <1>2, <1>3

LEMMA ReadConnectionDoes ==
    ASSUME LinkAssumption, TypeOK, NEW r \in Requests, ReadConnection(r)
    PROVE  /\ RequestsTyped' /\ Others(r) /\ request[r].pc = "connection"
           /\ \/ /\ \/ request[r].kind = "move" /\ GoesTo(r, "move:booking")
                    \/ request[r].kind = "cancelled" /\ GoesTo(r, "delete")
                 /\ request'[r].event = request[r].event /\ request'[r].conn = request[r].conn
                 /\ trouble' = trouble
              \/ /\ request'[r].pc = "idle" /\ request'[r].id = Nil
                 /\ GivesUp(r)
<1>1. /\ request[r].pc = "connection" /\ request[r] \in RequestState /\ WellFormed(request[r])
      /\ request[r].kind \in {"move", "cancelled"} /\ request[r].id # Nil
  BY RequestTyped DEF ReadConnection, WellFormed
<1>2. CASE Return(r) /\ GivesUp(r)
  BY <1>1, <1>2, ReturnDoes
<1>3. CASE trouble' = trouble /\ Goto(r, IF request[r].kind = "move" THEN "move:booking" ELSE "delete")
  <2>1. CASE request[r].kind = "move"
    <3>1. Goto(r, "move:booking")
      BY <1>3, <2>1
    <3>2. WellFormed([request[r] EXCEPT !.pc = "move:booking"])
      BY <1>1, <2>1 DEF WellFormed, RequestState, ConfirmPCs
    <3> QED BY <1>1, <1>3, <2>1, <3>1, <3>2, GotoDoes DEF RequestPCs, EventPCs
  <2>2. CASE request[r].kind = "cancelled"
    <3>1. Goto(r, "delete")
      BY <1>3, <2>2
    <3>2. WellFormed([request[r] EXCEPT !.pc = "delete"])
      BY <1>1, <2>2 DEF WellFormed, RequestState, ConfirmPCs
    <3> QED BY <1>1, <1>3, <2>2, <3>1, <3>2, GotoDoes DEF RequestPCs, EventPCs
  <2> QED BY <1>1, <2>1, <2>2
<1> QED BY <1>2, <1>3 DEF ReadConnection

\* The provider deletes or moves the event it finds.
LEMMA EventDoes ==
    ASSUME LinkAssumption, TypeOK, NEW r \in Requests, DeleteEvent(r) \/ UpdateEvent(r)
    PROVE  LET e == request[r].event IN
           /\ RequestsTyped' /\ Others(r) /\ request'[r].pc = "idle" /\ request'[r].id = Nil
           /\ \/ request[r].pc = "delete" /\ request[r].kind = "cancelled"
              \/ request[r].pc = "update" /\ request[r].kind = "move"
           /\ calendar' \in [Events -> EventState]
           /\ \A d \in Events \ {e} : calendar'[d] = calendar[d]
           /\ e \in Events /\ Found(r) =>
                  /\ calendar'[e].booking = calendar[e].booking
                  /\ calendar'[e].conn = calendar[e].conn
                  /\ calendar'[e].state \in {"present", "deleted"}
                  /\ request[r].pc = "update" => /\ calendar'[e].state = "present"
                                                 /\ calendar'[e].time = request[r].time
                  /\ request[r].pc = "delete" => calendar'[e].state = "deleted"
           /\ ~Found(r) => calendar' = calendar
<1> DEFINE e == request[r].event
           old == calendar[e]
<1>1. /\ Return(r) /\ request[r] \in RequestState
      /\ \/ request[r].pc = "delete" /\ request[r].kind = "cancelled"
         \/ request[r].pc = "update" /\ request[r].kind = "move"
  BY RequestTyped DEF DeleteEvent, UpdateEvent, WellFormed
<1>2. RequestsTyped' /\ Others(r) /\ request'[r].pc = "idle" /\ request'[r].id = Nil
  BY <1>1, ReturnDoes
<1>3. CASE ~Found(r)
  BY <1>1, <1>2, <1>3 DEF DeleteEvent, UpdateEvent, TypeOK
<1>4. CASE Found(r)
  <2>1. calendar[e] \in EventState \/ e \notin Events
    BY DEF TypeOK
  <2>2. CASE request[r].pc = "delete"
    <3> DEFINE y == [old EXCEPT !.state = "deleted"]
    <3>1. calendar' = [calendar EXCEPT ![e] = y]
      BY <1>4, <2>2 DEF DeleteEvent, UpdateEvent
    <3> HIDE DEF old
    <3>2. old \in EventState => y \in EventState /\ y.state = "deleted" /\ y.booking = old.booking
                                /\ y.conn = old.conn
      BY DEF EventState
    <3> HIDE DEF y
    <3>3. /\ calendar' \in [Events -> EventState]
          /\ \A d \in Events \ {e} : calendar'[d] = calendar[d]
          /\ e \in Events => calendar'[e] = y
      BY <2>1, <3>1, <3>2 DEF TypeOK, old
    <3> QED BY <1>1, <1>2, <1>4, <2>1, <2>2, <3>2, <3>3 DEF old
  <2>3. CASE request[r].pc = "update"
    <3> DEFINE time == request[r].time
               y == [old EXCEPT !.time = time]
    <3>1. calendar' = [calendar EXCEPT ![e] = y] /\ time \in Times
      BY <1>1, <1>4, <2>3 DEF DeleteEvent, UpdateEvent, RequestState
    <3>2. old.state = "present"
      BY <1>4 DEF Found
    <3> HIDE DEF old, time
    <3>3. old \in EventState => y \in EventState /\ y.state = "present" /\ y.booking = old.booking
                                /\ y.conn = old.conn /\ y.time = time
      BY <3>1, <3>2 DEF EventState
    <3> HIDE DEF y
    <3>4. /\ calendar' \in [Events -> EventState]
          /\ \A d \in Events \ {e} : calendar'[d] = calendar[d]
          /\ e \in Events => calendar'[e] = y
      BY <2>1, <3>1, <3>3 DEF TypeOK, old
    <3> QED BY <1>1, <1>2, <1>4, <2>1, <2>3, <3>3, <3>4 DEF old, time
  <2> QED BY <1>1, <2>2, <2>3
<1> QED BY <1>3, <1>4

------------------------------------------------------------------------------
(* Types and ownership.                                                    *)

OwnedInv == TypeOK /\ Owned

LEMMA OwnedInit ==
    ASSUME LinkAssumption, Init
    PROVE  OwnedInv
<1>1. /\ Idle \in RequestState /\ Idle.pc = "idle" /\ WellFormed(Idle)
      /\ Idle.pc \notin EventPCs \cup {"confirm:store"}
  BY TimeZero DEF Idle, RequestState, RequestPCs, WellFormed, ConfirmPCs, EventPCs
<1>2. NoLink \in Link /\ \A b \in Bookings : link[b] = NoLink
  BY DEF Init, NoLink, Link
<1>3. TypeOK
  BY <1>1, <1>2, TimeZero DEF Init, TypeOK, BookingStatuses, EventState, Troubles
<1>4. Owned
  BY <1>1, <1>2 DEF Init, Owned
<1> QED BY <1>3, <1>4 DEF OwnedInv

LEMMA GivesUpTyped ==
    ASSUME TypeOK, NEW r \in Requests, GivesUp(r)
    PROVE  trouble' \in [Bookings -> SUBSET Troubles]
BY DEF TypeOK, GivesUp

\* Every step of a request keeps the types.
LEMMA TypeRequest ==
    ASSUME LinkAssumption, TypeOK, NEW r \in Requests,
           \/ \E b \in Bookings, status \in Targets : CheckTransition(r, b, status)
           \/ \E b \in Bookings, time \in Times : CheckSchedule(r, b, time)
           \/ Proceed(r) \/ RequestFails(r)
    PROVE  TypeOK'
<1>a. RequestsTyped' /\ UNCHANGED <<booking, connection, calendar, link, trouble, confirmed, disturbances>>
      => TypeOK'
  BY DEF TypeOK, RequestsTyped
<1>1. ASSUME NEW b \in Bookings, NEW status \in Targets, CheckTransition(r, b, status)
      PROVE  TypeOK'
  <2>1. Begin(r, b, status, 0, "status:write") /\ CanBecome(booking[b].status, status)
        /\ status \in BookingStatuses \cup {"move"}
    BY <1>1 DEF CheckTransition, LinkAssumption
  <2>2. RequestsTyped' /\ trouble' \in [Bookings -> SUBSET Troubles]
    BY <2>1, BeginDoes, TimeZero
  <2> QED BY <1>1, <2>2 DEF CheckTransition, TypeOK, RequestsTyped
<1>2. ASSUME NEW b \in Bookings, NEW time \in Times, CheckSchedule(r, b, time)
      PROVE  TypeOK'
  <2>1. Begin(r, b, "move", time, "schedule:write")
    BY <1>2 DEF CheckSchedule
  <2>2. RequestsTyped' /\ trouble' \in [Bookings -> SUBSET Troubles]
    BY <2>1, BeginDoes
  <2> QED BY <1>2, <2>2 DEF CheckSchedule, TypeOK, RequestsTyped
<1>3. CASE WriteStatus(r)
  <2>1. RequestsTyped' /\ request[r].id \in Bookings /\ request[r].kind \in BookingStatuses
    BY <1>3, WriteStatusDoes
  <2>2. /\ booking' \in [Bookings -> [status : BookingStatuses, time : Times]]
        /\ confirmed' \in [Bookings -> Nat]
    BY <1>3, <2>1 DEF WriteStatus, TypeOK
  <2> QED BY <1>3, <2>1, <2>2 DEF WriteStatus, TypeOK, RequestsTyped
<1>4. CASE WriteSchedule(r)
  <2>1. RequestsTyped' /\ request[r].time \in Times /\ request[r].id \in Bookings
    BY <1>4, WriteScheduleDoes, RequestTyped DEF RequestState
  <2> DEFINE b == request[r].id
             time == request[r].time
  <2>b. booking \in [Bookings -> [status : BookingStatuses, time : Times]]
    BY DEF TypeOK
  <2>c. booking' = [booking EXCEPT ![b].time = time]
    BY <1>4 DEF WriteSchedule
  <2>2. booking' \in [Bookings -> [status : BookingStatuses, time : Times]]
    <3> HIDE DEF b, time
    <3> QED BY <2>1, <2>b, <2>c DEF b, time
  <2> QED BY <1>4, <2>1, <2>2 DEF WriteSchedule, TypeOK, RequestsTyped
<1>5. CASE ReadConfirmed(r) \/ ReadMoved(r)
  BY <1>5, <1>a, ReadBookingDoes DEF ReadConfirmed, ReadMoved
<1>6. CASE ChooseConnection(r)
  <2>1. RequestsTyped' /\ trouble' \in [Bookings -> SUBSET Troubles]
    BY <1>6, ChooseDoes, GivesUpTyped DEF TypeOK
  <2> QED BY <1>6, <2>1 DEF ChooseConnection, TypeOK, RequestsTyped
<1>7. CASE CreateEvent(r)
  <2>1. RequestsTyped' /\ trouble' \in [Bookings -> SUBSET Troubles] /\ calendar' \in [Events -> EventState]
    BY <1>7, CreateDoes, GivesUpTyped DEF TypeOK
  <2>2. disturbances' \in Nat /\ UNCHANGED <<booking, connection, link, confirmed>>
    BY <1>7 DEF CreateEvent, Fails, Disturb, TypeOK
  <2> QED BY <2>1, <2>2 DEF TypeOK, RequestsTyped
<1>8. CASE StoreLink(r)
  <2>1. RequestsTyped'
    BY <1>8, ReturnDoes DEF StoreLink
  <2> DEFINE b == request[r].id
             conn == IF link[b] = NoLink THEN request[r].conn ELSE link[b].conn
             y == [event |-> request[r].event, conn |-> conn]
  <2>2. link' = [link EXCEPT ![b] = y]
    BY <1>8 DEF StoreLink
  <2>3. y \in Link
    BY <1>8, RequestTyped DEF StoreLink, TypeOK, Link, RequestState
  <2> HIDE DEF y
  <2>4. link' \in [Bookings -> Link]
    BY <2>2, <2>3 DEF TypeOK
  <2> QED BY <1>8, <2>1, <2>4 DEF StoreLink, TypeOK, RequestsTyped
<1>9. CASE ReadLink(r)
  BY <1>9, <1>a, ReadLinkDoes DEF ReadLink
<1>10. CASE ReadConnection(r)
  <2>1. RequestsTyped' /\ trouble' \in [Bookings -> SUBSET Troubles]
    BY <1>10, ReadConnectionDoes, GivesUpTyped DEF TypeOK
  <2> QED BY <1>10, <2>1 DEF ReadConnection, TypeOK, RequestsTyped
<1>11. CASE DeleteEvent(r) \/ UpdateEvent(r)
  <2>1. RequestsTyped' /\ calendar' \in [Events -> EventState]
    BY <1>11, EventDoes
  <2>2. UNCHANGED <<booking, connection, link, trouble, confirmed, disturbances>>
    BY <1>11 DEF DeleteEvent, UpdateEvent
  <2> QED BY <2>1, <2>2 DEF TypeOK, RequestsTyped
<1>12. CASE RequestFails(r)
  <2>1. RequestsTyped'
    BY <1>12, ReturnDoes DEF RequestFails
  <2>2. trouble' \in [Bookings -> SUBSET Troubles] /\ disturbances' \in Nat
    BY <1>12, GivesUpTyped DEF RequestFails, Fails, Disturb, TypeOK
  <2> QED BY <1>12, <2>1, <2>2 DEF RequestFails, TypeOK, RequestsTyped
<1> QED BY <1>1, <1>2, <1>3, <1>4, <1>5, <1>6, <1>7, <1>8, <1>9, <1>10, <1>11, <1>12 DEF Proceed

\* The operator changes the connections only.
LEMMA TypeOperator ==
    ASSUME TypeOK, \/ \E c \in Connections : SetUsable(c) \/ SetPrimary(c)
                   \/ UNCHANGED vars
    PROVE  TypeOK' /\ UNCHANGED <<booking, calendar, link, request, trouble, confirmed>>
<1>1. ASSUME NEW c \in Connections, SetUsable(c)
      PROVE  connection' \in [Connections -> [usable : BOOLEAN, primary : BOOLEAN]]
  BY <1>1 DEF SetUsable, TypeOK
<1>2. ASSUME NEW c \in Connections, SetPrimary(c)
      PROVE  connection' \in [Connections -> [usable : BOOLEAN, primary : BOOLEAN]]
  BY <1>2 DEF SetPrimary, TypeOK
<1>3. UNCHANGED <<booking, calendar, link, request, trouble, confirmed>>
  BY DEF SetUsable, SetPrimary, vars
<1>4. CASE UNCHANGED vars
  BY <1>4 DEF vars, TypeOK
<1>5. CASE \E c \in Connections : SetUsable(c) \/ SetPrimary(c)
  <2>1. connection' \in [Connections -> [usable : BOOLEAN, primary : BOOLEAN]]
    BY <1>1, <1>2, <1>5
  <2>2. disturbances' \in Nat
    BY <1>5 DEF SetUsable, SetPrimary, Disturb, TypeOK
  <2> QED BY <1>3, <2>1, <2>2 DEF TypeOK
<1> QED BY <1>3, <1>4, <1>5

\* An event that was created stays its booking's.
Kept == \A e \in Events : calendar[e].state # "unused" =>
            calendar'[e].state # "unused" /\ calendar'[e].booking = calendar[e].booking

LEMMA OwnedFrame ==
    ASSUME Owned, NEW r \in Requests, Others(r), Kept,
           \A b \in Bookings : link'[b] = link[b] \/ CreatedFor(link'[b].event, b),
           request'[r].pc \in EventPCs \cup {"confirm:store"} =>
               CreatedFor(request[r].event, request[r].id)'
    PROVE  Owned'
<1>1. \A e, b : CreatedFor(e, b) =>
          e \in Events /\ calendar'[e].booking = b /\ calendar'[e].state # "unused"
  BY DEF Kept, CreatedFor
<1>2. \A b \in Bookings : link'[b] # NoLink => CreatedFor(link[b].event, b)'
  BY <1>1 DEF Owned, CreatedFor
<1>3. ASSUME NEW q \in Requests, request'[q].pc \in EventPCs \cup {"confirm:store"}
      PROVE  CreatedFor(request[q].event, request[q].id)'
  <2>1. CASE q = r
    BY <1>3, <2>1
  <2>2. CASE q # r
    <3>1. request'[q] = request[q]
      BY <2>2 DEF Others
    <3> QED BY <1>1, <1>3, <3>1 DEF Owned, CreatedFor
  <2> QED BY <2>1, <2>2
<1> QED BY <1>2, <1>3 DEF Owned

LEMMA OwnedRequest ==
    ASSUME LinkAssumption, OwnedInv, NEW r \in Requests,
           \/ \E b \in Bookings, status \in Targets : CheckTransition(r, b, status)
           \/ \E b \in Bookings, time \in Times : CheckSchedule(r, b, time)
           \/ Proceed(r) \/ RequestFails(r)
    PROVE  Kept /\ Owned'
<1>0. TypeOK /\ Owned
  BY DEF OwnedInv
<1>a. ASSUME Others(r), request'[r].pc \notin EventPCs \cup {"confirm:store"}, calendar' = calendar,
             link' = link
      PROVE  Kept /\ Owned'
  BY <1>0, <1>a, OwnedFrame DEF Kept
<1>b. ASSUME Others(r), GoesTo(r, request'[r].pc), request[r].pc \in EventPCs,
             request'[r].event = request[r].event, calendar' = calendar, link' = link
      PROVE  Kept /\ Owned'
  <2>1. CreatedFor(request[r].event, request[r].id)'
    BY <1>0, <1>b DEF Owned, CreatedFor, GoesTo
  <2> QED BY <1>0, <1>b, <2>1, OwnedFrame DEF Kept
<1>1. ASSUME NEW b \in Bookings, NEW status \in Targets, CheckTransition(r, b, status)
      PROVE  Kept /\ Owned'
  <2>1. Begin(r, b, status, 0, "status:write") /\ CanBecome(booking[b].status, status)
        /\ status \in BookingStatuses \cup {"move"}
    BY <1>1 DEF CheckTransition, LinkAssumption
  <2>2. Others(r) /\ request'[r].pc = "status:write"
    BY <1>0, <2>1, BeginDoes, TimeZero
  <2> QED BY <1>1, <1>a, <2>2 DEF CheckTransition, EventPCs
<1>2. ASSUME NEW b \in Bookings, NEW time \in Times, CheckSchedule(r, b, time)
      PROVE  Kept /\ Owned'
  <2>1. Begin(r, b, "move", time, "schedule:write")
    BY <1>2 DEF CheckSchedule
  <2>2. Others(r) /\ request'[r].pc = "schedule:write"
    BY <1>0, <2>1, BeginDoes
  <2> QED BY <1>2, <1>a, <2>2 DEF CheckSchedule, EventPCs
<1>3. CASE WriteStatus(r) \/ WriteSchedule(r)
  <2>1. Others(r) /\ request'[r].pc \in {"confirm:booking", "link", "idle"}
    BY <1>0, <1>3, WriteStatusDoes, WriteScheduleDoes DEF GoesTo
  <2> QED BY <1>3, <1>a, <2>1 DEF WriteStatus, WriteSchedule, EventPCs
<1>4. CASE ReadConfirmed(r) \/ ReadMoved(r)
  <2>1. Others(r) /\ request'[r].event = request[r].event
        /\ \/ request'[r].pc = "confirm:connection"
           \/ request[r].pc = "move:booking" /\ GoesTo(r, "update")
    BY <1>0, <1>4, ReadBookingDoes DEF GoesTo
  <2> QED BY <1>4, <1>a, <1>b, <2>1 DEF ReadConfirmed, ReadMoved, EventPCs, GoesTo
<1>5. CASE ChooseConnection(r)
  <2>1. Others(r) /\ request'[r].pc \in {"confirm:create", "idle"}
    BY <1>0, <1>5, ChooseDoes DEF GoesTo
  <2> QED BY <1>5, <1>a, <2>1 DEF ChooseConnection, EventPCs
<1>6. CASE CreateEvent(r)
  <2>1. Others(r)
    BY <1>0, <1>6, CreateDoes
  <2>2. PICK e \in Events :
            /\ calendar[e].state = "unused"
            /\ \A d \in Events \ {e} : calendar'[d] = calendar[d]
            /\ calendar'[e] = [state |-> "present", conn |-> request[r].conn,
                               booking |-> request[r].id, time |-> request[r].time]
            /\ \/ /\ GoesTo(r, "confirm:store") /\ request'[r].time = request[r].time
                  /\ request'[r].conn = request[r].conn /\ request'[r].event = e
                  /\ trouble' = trouble
               \/ /\ request'[r].pc = "idle" /\ request'[r].id = Nil
                  /\ GivesUp(r)
    BY <1>0, <1>6, CreateDoes
  <2>3. Kept
    BY <2>2 DEF Kept
  <2>4. request'[r].pc = "confirm:store" => CreatedFor(request[r].event, request[r].id)'
    BY <2>2 DEF CreatedFor, GoesTo
  <2>5. link' = link /\ request'[r].pc \notin EventPCs
    BY <1>6, <2>2 DEF CreateEvent, GoesTo, EventPCs
  <2> QED BY <1>0, <2>1, <2>3, <2>4, <2>5, OwnedFrame
<1>7. CASE StoreLink(r)
  <2> DEFINE b == request[r].id
  <2>1. Others(r) /\ request'[r].pc = "idle" /\ calendar' = calendar
    BY <1>0, <1>7, ReturnDoes DEF StoreLink
  <2>2. CreatedFor(request[r].event, b) /\ b \in Bookings
    BY <1>0, <1>7, RequestTyped DEF StoreLink, Owned
  <2>3. /\ \A d \in Bookings \ {b} : link'[d] = link[d]
        /\ link'[b].event = request[r].event
    BY <1>0, <1>7, <2>2 DEF StoreLink, TypeOK
  <2> QED BY <1>0, <2>1, <2>2, <2>3, OwnedFrame DEF Kept, EventPCs
<1>8. CASE ReadLink(r)
  <2>1. /\ Others(r) /\ calendar' = calendar /\ link' = link
        /\ request'[r].pc = "idle"
           \/ /\ link[request[r].id] # NoLink /\ GoesTo(r, "connection")
              /\ request'[r].event = link[request[r].id].event
    BY <1>0, <1>8, ReadLinkDoes DEF ReadLink
  <2>2. request[r].id \in Bookings
    BY <1>0, <1>8, RequestTyped DEF ReadLink
  <2>3. request'[r].pc # "idle" => CreatedFor(request[r].event, request[r].id)'
    BY <1>0, <2>1, <2>2 DEF Owned, CreatedFor, GoesTo
  <2>4. "idle" \notin EventPCs \cup {"confirm:store"}
    BY DEF EventPCs
  <2> QED BY <1>0, <2>1, <2>3, <2>4, OwnedFrame DEF Kept
<1>9. CASE ReadConnection(r)
  <2>1. /\ Others(r) /\ calendar' = calendar /\ link' = link /\ request[r].pc = "connection"
        /\ \/ request'[r].pc = "idle"
           \/ /\ GoesTo(r, "move:booking") \/ GoesTo(r, "delete")
              /\ request'[r].event = request[r].event
    BY <1>0, <1>9, ReadConnectionDoes DEF ReadConnection
  <2> QED BY <1>a, <1>b, <2>1 DEF EventPCs, GoesTo
<1>10. CASE DeleteEvent(r) \/ UpdateEvent(r)
  <2>1. Others(r) /\ request'[r].pc = "idle" /\ link' = link
    BY <1>0, <1>10, EventDoes DEF DeleteEvent, UpdateEvent
  <2>2. Kept
    BY <1>0, <1>10, EventDoes DEF Kept
  <2> QED BY <1>0, <2>1, <2>2, OwnedFrame DEF EventPCs
<1>11. CASE RequestFails(r)
  <2>1. Others(r) /\ request'[r].pc = "idle" /\ calendar' = calendar /\ link' = link
    BY <1>0, <1>11, ReturnDoes DEF RequestFails
  <2> QED BY <1>a, <2>1 DEF EventPCs
<1> QED BY <1>1, <1>2, <1>3, <1>4, <1>5, <1>6, <1>7, <1>8, <1>9, <1>10, <1>11 DEF Proceed

LEMMA OwnedNext ==
    ASSUME LinkAssumption, OwnedInv, [Next]_vars
    PROVE  OwnedInv'
<1>1. ASSUME NEW r \in Requests,
             \/ \E b \in Bookings, status \in Targets : CheckTransition(r, b, status)
             \/ \E b \in Bookings, time \in Times : CheckSchedule(r, b, time)
             \/ Proceed(r) \/ RequestFails(r)
      PROVE  OwnedInv'
  BY <1>1, TypeRequest, OwnedRequest DEF OwnedInv
<1>2. ASSUME \/ \E c \in Connections : SetUsable(c) \/ SetPrimary(c)
             \/ UNCHANGED vars
      PROVE  OwnedInv'
  <2>1. TypeOK' /\ UNCHANGED <<booking, calendar, link, request, trouble, confirmed>>
    BY <1>2, TypeOperator DEF OwnedInv
  <2> QED BY <2>1 DEF OwnedInv, Owned, CreatedFor
<1> QED BY <1>1, <1>2 DEF Next

\* The rows, the calendars and the requests keep their types, and whatever races or
\* fails, a link or a request never has the event of another booking in hand.
THEOREM OwnersCorrect == ASSUME LinkAssumption PROVE Spec => [](TypeOK /\ Owned)
<1>1. Init => OwnedInv
  BY OwnedInit
<1>2. OwnedInv /\ [Next]_vars => OwnedInv'
  BY OwnedNext
<1> QED BY <1>1, <1>2, PTL DEF Spec, OwnedInv

------------------------------------------------------------------------------
(* Events are counted by confirmations.                                    *)

Within(P, C, n) == IsFiniteSet(P) /\ IsFiniteSet(C) /\ Cardinality(P) + Cardinality(C) <= n

LEMMA WithinShrinks ==
    ASSUME NEW P, NEW C, NEW n \in Nat, Within(P, C, n), NEW Q \in SUBSET P, NEW D \in SUBSET C,
           NEW m \in Nat, n <= m
    PROVE  Within(Q, D, m)
<1>1. IsFiniteSet(P) /\ IsFiniteSet(C) /\ IsFiniteSet(Q) /\ IsFiniteSet(D)
  BY FS_Subset DEF Within
<1>2. Cardinality(Q) <= Cardinality(P) /\ Cardinality(D) <= Cardinality(C)
  BY <1>1, FS_Subset
<1>3. /\ Cardinality(P) \in Nat /\ Cardinality(C) \in Nat
      /\ Cardinality(Q) \in Nat /\ Cardinality(D) \in Nat
  BY <1>1, FS_CardinalityType
<1> QED BY <1>1, <1>2, <1>3 DEF Within

\* One more request is about to create an event, and one more confirmation announced.
LEMMA WithinAnnounced ==
    ASSUME NEW P, NEW C, NEW n \in Nat, Within(P, C, n), NEW r
    PROVE  Within(P, C \cup {r}, n + 1)
<1>1. IsFiniteSet(P) /\ IsFiniteSet(C)
  BY DEF Within
<1>2. Cardinality(P) \in Nat /\ Cardinality(C) \in Nat
  BY <1>1, FS_CardinalityType
<1>3. IsFiniteSet(C \cup {r}) /\ Cardinality(C \cup {r}) <= Cardinality(C) + 1
  <2>1. /\ IsFiniteSet(C \cup {r})
        /\ Cardinality(C \cup {r}) \in {Cardinality(C), Cardinality(C) + 1}
    BY <1>1, FS_AddElement
  <2> QED BY <1>2, <2>1
<1>4. Cardinality(C \cup {r}) \in Nat
  BY <1>3, FS_CardinalityType
<1> QED BY <1>1, <1>2, <1>3, <1>4 DEF Within

\* A request that was about to create an event has created it.
LEMMA WithinCreated ==
    ASSUME NEW P, NEW C, NEW n \in Nat, Within(P, C, n), NEW r \in C, NEW e
    PROVE  Within(P \cup {e}, C \ {r}, n)
<1>1. IsFiniteSet(P) /\ IsFiniteSet(C)
  BY DEF Within
<1>2. Cardinality(P) \in Nat /\ Cardinality(C) \in Nat
  BY <1>1, FS_CardinalityType
<1>3. IsFiniteSet(P \cup {e}) /\ Cardinality(P \cup {e}) <= Cardinality(P) + 1
  <2>1. /\ IsFiniteSet(P \cup {e})
        /\ Cardinality(P \cup {e}) \in {Cardinality(P), Cardinality(P) + 1}
    BY <1>1, FS_AddElement
  <2> QED BY <1>2, <2>1
<1>4. IsFiniteSet(C \ {r}) /\ Cardinality(C \ {r}) = Cardinality(C) - 1
  BY <1>1, FS_RemoveElement
<1>5. Cardinality(P \cup {e}) \in Nat
  BY <1>3, FS_CardinalityType
<1> QED BY <1>1, <1>2, <1>3, <1>4, <1>5 DEF Within

CreatingPCs == {"confirm:booking", "confirm:connection", "confirm:create"}

CountInv == OwnedInv /\ Counted

LEMMA CountedIsWithin ==
    Counted <=> \A b \in Bookings : Within(PresentEvents(b), Creating(b), confirmed[b])
BY DEF Counted, Within

\* A step that creates no event and announces nothing.
LEMMA CountedFrame ==
    ASSUME TypeOK, Counted, NEW r \in Requests, Others(r), confirmed' = confirmed,
           \A b \in Bookings : PresentEvents(b)' \subseteq PresentEvents(b),
           request'[r].pc \in CreatingPCs =>
               request[r].pc \in CreatingPCs /\ request'[r].id = request[r].id
    PROVE  Counted'
<1>1. \A b \in Bookings : Creating(b)' \subseteq Creating(b)
  BY DEF Creating, Others, CreatingPCs
<1>2. \A b \in Bookings : confirmed[b] \in Nat /\ Within(PresentEvents(b), Creating(b), confirmed[b])
  BY CountedIsWithin DEF TypeOK
<1>3. ASSUME NEW b \in Bookings
      PROVE  Within(PresentEvents(b)', Creating(b)', confirmed'[b])
  <2>1. confirmed[b] <= confirmed[b]
    BY <1>2
  <2> QED BY <1>1, <1>2, <2>1, WithinShrinks
<1> QED BY <1>3 DEF Counted, Within

LEMMA CountedCreates ==
    ASSUME LinkAssumption, TypeOK, Counted, NEW r \in Requests, CreateEvent(r)
    PROVE  Counted'
<1> DEFINE b == request[r].id
<1>1. /\ Others(r) /\ request[r].pc = "confirm:create" /\ b \in Bookings
      /\ request'[r].pc \in {"confirm:store", "idle"} /\ confirmed' = confirmed
  BY CreateDoes, RequestTyped DEF GoesTo, CreateEvent
<1>2. PICK e \in Events :
          /\ calendar[e].state = "unused"
          /\ \A d \in Events \ {e} : calendar'[d] = calendar[d]
          /\ calendar'[e] = [state |-> "present", conn |-> request[r].conn,
                             booking |-> request[r].id, time |-> request[r].time]
          /\ \/ /\ GoesTo(r, "confirm:store") /\ request'[r].time = request[r].time
                /\ request'[r].conn = request[r].conn /\ request'[r].event = e
                /\ trouble' = trouble
             \/ /\ request'[r].pc = "idle" /\ request'[r].id = Nil
                /\ GivesUp(r)
  BY CreateDoes
<1>3. ASSUME NEW d \in Bookings
      PROVE  Within(PresentEvents(d)', Creating(d)', confirmed'[d])
  <2>1. Within(PresentEvents(d), Creating(d), confirmed[d]) /\ confirmed[d] \in Nat
    BY CountedIsWithin DEF TypeOK
  <2>2. CASE d = b
    <3>1. PresentEvents(d)' = PresentEvents(d) \cup {e}
      BY <1>2, <2>2 DEF PresentEvents
    <3>2. r \in Creating(d) /\ Creating(d)' = Creating(d) \ {r}
      BY <1>1, <2>2 DEF Creating, Others
    <3>3. Within(PresentEvents(d) \cup {e}, Creating(d) \ {r}, confirmed[d])
      BY <2>1, <3>2, WithinCreated
    <3> QED BY <1>1, <3>1, <3>2, <3>3
  <2>3. CASE d # b
    <3>1. PresentEvents(d)' = PresentEvents(d)
      BY <1>2, <2>3 DEF PresentEvents
    <3>2. Creating(d)' = Creating(d)
      BY <1>1, <2>3 DEF Creating, Others
    <3> QED BY <1>1, <2>1, <3>1, <3>2
  <2> QED BY <2>2, <2>3
<1> QED BY <1>3 DEF Counted, Within

LEMMA CountedWrites ==
    ASSUME LinkAssumption, TypeOK, Counted, NEW r \in Requests, WriteStatus(r)
    PROVE  Counted'
<1> DEFINE b == request[r].id
<1>1. /\ Others(r) /\ request[r].pc = "status:write" /\ b \in Bookings
      /\ \/ request[r].kind = "confirmed" /\ GoesTo(r, "confirm:booking")
         \/ request[r].kind # "confirmed" /\ request'[r].pc \in {"link", "idle"}
  BY WriteStatusDoes DEF GoesTo
<1>2. \A d \in Bookings : PresentEvents(d)' = PresentEvents(d)
  BY DEF WriteStatus, PresentEvents
<1>3. CASE request[r].kind # "confirmed"
  BY <1>1, <1>2, <1>3, CountedFrame DEF WriteStatus, CreatingPCs
<1>4. CASE request[r].kind = "confirmed"
  <2>1. confirmed' = [confirmed EXCEPT ![b] = @ + 1]
    BY <1>4 DEF WriteStatus
  <2>2. ASSUME NEW d \in Bookings
        PROVE  Within(PresentEvents(d)', Creating(d)', confirmed'[d])
    <3>1. Within(PresentEvents(d), Creating(d), confirmed[d]) /\ confirmed[d] \in Nat
      BY CountedIsWithin DEF TypeOK
    <3>2. CASE d = b
      <4>1. Creating(d)' = Creating(d) \cup {r}
        BY <1>1, <1>4, <3>2 DEF Creating, Others, GoesTo
      <4>2. confirmed'[d] = confirmed[d] + 1
        BY <2>1, <3>2 DEF TypeOK
      <4>3. Within(PresentEvents(d), Creating(d) \cup {r}, confirmed[d] + 1)
        BY <3>1, WithinAnnounced
      <4> QED BY <1>2, <4>1, <4>2, <4>3
    <3>3. CASE d # b
      <4>1. Creating(d)' = Creating(d) /\ confirmed'[d] = confirmed[d]
        BY <1>1, <1>4, <2>1, <3>3 DEF Creating, Others, GoesTo, TypeOK
      <4> QED BY <1>2, <3>1, <4>1
    <3> QED BY <3>2, <3>3
  <2> QED BY <2>2 DEF Counted, Within
<1> QED BY <1>3, <1>4

LEMMA CountedRequest ==
    ASSUME LinkAssumption, CountInv, NEW r \in Requests,
           \/ \E b \in Bookings, status \in Targets : CheckTransition(r, b, status)
           \/ \E b \in Bookings, time \in Times : CheckSchedule(r, b, time)
           \/ Proceed(r) \/ RequestFails(r)
    PROVE  Counted'
<1>0. TypeOK /\ Counted
  BY DEF CountInv, OwnedInv
<1>p. calendar' = calendar => \A b \in Bookings : PresentEvents(b)' \subseteq PresentEvents(b)
  BY DEF PresentEvents
<1>1. ASSUME NEW b \in Bookings, NEW status \in Targets, CheckTransition(r, b, status)
      PROVE  Counted'
  <2>1. Begin(r, b, status, 0, "status:write") /\ CanBecome(booking[b].status, status)
        /\ status \in BookingStatuses \cup {"move"}
    BY <1>1 DEF CheckTransition, LinkAssumption
  <2>2. Others(r) /\ request'[r].pc = "status:write"
    BY <1>0, <2>1, BeginDoes, TimeZero
  <2> QED BY <1>0, <1>1, <1>p, <2>2, CountedFrame DEF CheckTransition, CreatingPCs
<1>2. ASSUME NEW b \in Bookings, NEW time \in Times, CheckSchedule(r, b, time)
      PROVE  Counted'
  <2>1. Begin(r, b, "move", time, "schedule:write")
    BY <1>2 DEF CheckSchedule
  <2>2. Others(r) /\ request'[r].pc = "schedule:write"
    BY <1>0, <2>1, BeginDoes
  <2> QED BY <1>0, <1>2, <1>p, <2>2, CountedFrame DEF CheckSchedule, CreatingPCs
<1>3. CASE WriteSchedule(r) \/ ReadConfirmed(r) \/ ReadMoved(r) \/ ChooseConnection(r)
           \/ ReadLink(r) \/ ReadConnection(r)
  <2>1. /\ Others(r)
        /\ \/ request'[r].pc \in {"link", "connection", "move:booking", "delete", "update", "idle"}
           \/ /\ request[r].pc \in CreatingPCs /\ request'[r].pc \in CreatingPCs
              /\ request'[r].id = request[r].id
    BY <1>0, <1>3, WriteScheduleDoes, ReadBookingDoes, ChooseDoes, ReadLinkDoes, ReadConnectionDoes
       DEF GoesTo, CreatingPCs
  <2>2. calendar' = calendar /\ confirmed' = confirmed
    BY <1>3 DEF WriteSchedule, ReadConfirmed, ReadMoved, ChooseConnection, ReadLink, ReadConnection
  <2> QED BY <1>0, <1>p, <2>1, <2>2, CountedFrame DEF CreatingPCs
<1>4. CASE StoreLink(r) \/ RequestFails(r)
  <2>1. Others(r) /\ request'[r].pc = "idle"
    BY <1>0, <1>4, ReturnDoes DEF StoreLink, RequestFails
  <2> QED BY <1>0, <1>4, <1>p, <2>1, CountedFrame DEF StoreLink, RequestFails, CreatingPCs
<1>5. CASE DeleteEvent(r) \/ UpdateEvent(r)
  <2>1. Others(r) /\ request'[r].pc = "idle" /\ confirmed' = confirmed
    BY <1>0, <1>5, EventDoes DEF DeleteEvent, UpdateEvent
  <2>2. ASSUME NEW b \in Bookings
        PROVE  PresentEvents(b)' \subseteq PresentEvents(b)
    <3>1. CASE Found(r)
      BY <1>0, <1>5, <3>1, EventDoes DEF PresentEvents, Found
    <3>2. CASE ~Found(r)
      BY <1>0, <1>5, <3>2, EventDoes DEF PresentEvents
    <3> QED BY <3>1, <3>2
  <2> QED BY <1>0, <2>1, <2>2, CountedFrame DEF CreatingPCs
<1> QED BY <1>0, <1>1, <1>2, <1>3, <1>4, <1>5, CountedCreates, CountedWrites DEF Proceed

LEMMA CountNext ==
    ASSUME LinkAssumption, CountInv, [Next]_vars
    PROVE  CountInv'
<1>1. OwnedInv'
  BY OwnedNext DEF CountInv
<1>2. ASSUME \/ \E c \in Connections : SetUsable(c) \/ SetPrimary(c)
             \/ UNCHANGED vars
      PROVE  Counted'
  <2>1. UNCHANGED <<calendar, request, confirmed>>
    BY <1>2 DEF SetUsable, SetPrimary, vars
  <2> QED BY <2>1 DEF CountInv, Counted, PresentEvents, Creating
<1> QED BY <1>1, <1>2, CountedRequest DEF Next, CountInv

\* However requests race and fail, the calendars never hold more events of a booking
\* than its confirmation was announced.
THEOREM EventsCounted == ASSUME LinkAssumption PROVE Spec => []EventsAreConfirmations
<1>1. Init => CountInv
  <2>1. ASSUME Init, NEW b \in Bookings
        PROVE  PresentEvents(b) = {} /\ Creating(b) = {} /\ confirmed[b] = 0
    <3>1. b # Nil
      BY DEF LinkAssumption
    <3> QED BY <2>1, <3>1 DEF Init, PresentEvents, Creating, Idle
  <2> QED BY <2>1, OwnedInit, FS_EmptySet DEF CountInv, Counted
<1>2. CountInv /\ [Next]_vars => CountInv'
  BY CountNext
<1>3. CountInv => EventsAreConfirmations
  <2>1. ASSUME CountInv, NEW b \in Bookings
        PROVE  Cardinality(PresentEvents(b)) <= confirmed[b]
    <3>1. /\ IsFiniteSet(PresentEvents(b)) /\ IsFiniteSet(Creating(b)) /\ confirmed[b] \in Nat
          /\ Cardinality(PresentEvents(b)) + Cardinality(Creating(b)) <= confirmed[b]
      BY <2>1 DEF CountInv, Counted, OwnedInv, TypeOK
    <3>2. Cardinality(PresentEvents(b)) \in Nat /\ Cardinality(Creating(b)) \in Nat
      BY <3>1, FS_CardinalityType
    <3> QED BY <3>1, <3>2
  <2> QED BY <2>1 DEF EventsAreConfirmations
<1> QED BY <1>1, <1>2, <1>3, PTL DEF Spec

------------------------------------------------------------------------------
(* What the link shows.                                                    *)

ShownInv == OwnedInv /\ \A b \in Bookings : Shown(b)

\* What a request of a kind excludes on a booking nothing has troubled.
LEMMA Rivals ==
    ASSUME LinkAssumption, TypeOK, NEW b \in Bookings, Apart(b), NEW r \in Of(b)
    PROVE  /\ request[r].kind = "confirmed" =>
                  /\ Confirming(b) \subseteq {r} /\ Moving(b) = {} /\ Removing(b) = {}
                  /\ \A q \in Of(b) \ {r} :
                        request[q].kind \notin {"confirmed", "awaiting_payment"}
           /\ request[r].kind = "move" => Confirming(b) = {} /\ Moving(b) \subseteq {r}
           /\ request[r].kind = "cancelled" => Confirming(b) = {}
<1>1. \A q \in Confirming(b) : q \in Of(b) /\ request[q].kind = "confirmed"
  BY DEF Confirming, Of, TypeOK, WellFormed
<1>2. \A q \in Of(b) \ {r} : {request[q].kind, request[r].kind} \notin Orphaning \cup Misplacing
  BY DEF Apart
<1>3. CASE request[r].kind = "confirmed"
  <2>1. \A q \in Of(b) \ {r} :
            request[q].kind \notin {"confirmed", "awaiting_payment", "cancelled", "move"}
    BY <1>2, <1>3 DEF Orphaning, Misplacing
  <2> QED BY <1>1, <1>3, <2>1 DEF Moving, Removing
<1>4. CASE request[r].kind = "move"
  <2>1. \A q \in Of(b) \ {r} : request[q].kind \notin {"confirmed", "move"}
    BY <1>2, <1>4 DEF Orphaning, Misplacing
  <2> QED BY <1>1, <1>4, <2>1 DEF Moving
<1>5. CASE request[r].kind = "cancelled"
  <2>1. \A q \in Of(b) \ {r} : request[q].kind # "confirmed"
    BY <1>2, <1>5 DEF Orphaning, Misplacing
  <2> QED BY <1>1, <1>5, <2>1
<1> QED BY <1>3, <1>4, <1>5

\* A request that returns leaves its booking.
LEMMA Leaves ==
    ASSUME LinkAssumption, NEW b \in Bookings, NEW r \in Requests, Others(r),
           request[r].id = b, request'[r].id = Nil
    PROVE  /\ Of(b)' = Of(b) \ {r} /\ Confirming(b)' = Confirming(b) \ {r}
           /\ Moving(b)' = Moving(b) \ {r} /\ Removing(b)' = Removing(b) \ {r}
           /\ \A q \in Of(b)' : request'[q] = request[q]
           /\ Apart(b) => Apart(b)'
<1>1. b # Nil
  BY DEF LinkAssumption
<1>2. Of(b)' = Of(b) \ {r} /\ \A q \in Of(b)' : request'[q] = request[q]
  BY <1>1 DEF Of, Others
<1> QED BY <1>2 DEF Confirming, Moving, Removing, Apart

\* A request that goes on stays at its booking.
LEMMA Stays ==
    ASSUME NEW b \in Bookings, NEW r \in Requests, Others(r), request[r].id = b,
           NEW pc, GoesTo(r, pc)
    PROVE  /\ Of(b)' = Of(b) /\ r \in Of(b)
           /\ Confirming(b)' = IF pc \in ConfirmPCs THEN Confirming(b) \cup {r}
                                                    ELSE Confirming(b) \ {r}
           /\ Moving(b)' = IF /\ pc \in {"link", "connection", "move:booking", "update"}
                              /\ request[r].kind = "move"
                           THEN Moving(b) \cup {r} ELSE Moving(b) \ {r}
           /\ Removing(b)' = IF /\ pc \in {"link", "connection", "delete"}
                                /\ request[r].kind = "cancelled"
                             THEN Removing(b) \cup {r} ELSE Removing(b) \ {r}
           /\ \A q \in Of(b) \ {r} : request'[q] = request[q]
           /\ Apart(b) => Apart(b)'
<1>1. /\ Of(b)' = Of(b) /\ r \in Of(b) /\ \A q \in Of(b) \ {r} : request'[q] = request[q]
      /\ \A q \in Of(b) : request'[q].kind = request[q].kind
  BY DEF Of, Others, GoesTo
<1>2. Apart(b) => Apart(b)'
  BY <1>1 DEF Apart
<1>3. Confirming(b)' = IF pc \in ConfirmPCs THEN Confirming(b) \cup {r} ELSE Confirming(b) \ {r}
  BY <1>1 DEF Confirming, GoesTo
<1>4. Moving(b)' = IF /\ pc \in {"link", "connection", "move:booking", "update"}
                      /\ request[r].kind = "move"
                   THEN Moving(b) \cup {r} ELSE Moving(b) \ {r}
  BY <1>1 DEF Moving, GoesTo
<1>5. Removing(b)' = IF /\ pc \in {"link", "connection", "delete"}
                        /\ request[r].kind = "cancelled"
                     THEN Removing(b) \cup {r} ELSE Removing(b) \ {r}
  BY <1>1 DEF Removing, GoesTo
<1> QED BY <1>1, <1>2, <1>3, <1>4, <1>5

\* Where it stays: among those that confirm, move or cancel.
LEMMA StaysConfirming ==
    ASSUME NEW b \in Bookings, NEW r \in Requests, Others(r), request[r].id = b,
           NEW pc \in ConfirmPCs, GoesTo(r, pc)
    PROVE  /\ Of(b)' = Of(b) /\ Confirming(b)' = Confirming(b) \cup {r}
           /\ Moving(b)' = Moving(b) \ {r} /\ Removing(b)' = Removing(b) \ {r}
           /\ \A q \in Of(b) \ {r} : request'[q] = request[q]
           /\ Apart(b) => Apart(b)'
<1>1. pc \notin {"link", "connection", "move:booking", "update", "delete"}
  BY DEF ConfirmPCs
<1> QED BY <1>1, Stays

LEMMA StaysMoving ==
    ASSUME NEW b \in Bookings, NEW r \in Requests, Others(r), request[r].id = b,
           request[r].kind = "move",
           NEW pc \in {"link", "connection", "move:booking", "update"}, GoesTo(r, pc)
    PROVE  /\ Of(b)' = Of(b) /\ Confirming(b)' = Confirming(b) \ {r}
           /\ Moving(b)' = Moving(b) \cup {r} /\ Removing(b)' = Removing(b) \ {r}
           /\ \A q \in Of(b) \ {r} : request'[q] = request[q]
           /\ Apart(b) => Apart(b)'
<1>1. pc \notin ConfirmPCs
  BY DEF ConfirmPCs
<1> QED BY <1>1, Stays

LEMMA StaysRemoving ==
    ASSUME NEW b \in Bookings, NEW r \in Requests, Others(r), request[r].id = b,
           request[r].kind = "cancelled",
           NEW pc \in {"link", "connection", "delete"}, GoesTo(r, pc)
    PROVE  /\ Of(b)' = Of(b) /\ Confirming(b)' = Confirming(b) \ {r}
           /\ Moving(b)' = Moving(b) \ {r} /\ Removing(b)' = Removing(b) \cup {r}
           /\ \A q \in Of(b) \ {r} : request'[q] = request[q]
           /\ Apart(b) => Apart(b)'
<1>1. pc \notin ConfirmPCs
  BY DEF ConfirmPCs
<1> QED BY <1>1, Stays

\* A step of a request on booking b does nothing to the other bookings.
LEMMA OtherBookings ==
    ASSUME LinkAssumption, ShownInv, NEW r \in Requests, NEW b \in Bookings, Others(r),
           request[r].id \in {b, Nil}, request'[r].id \in {b, Nil},
           \A d \in Bookings \ {b} : /\ booking'[d] = booking[d] /\ link'[d] = link[d]
                                     /\ confirmed'[d] = confirmed[d] /\ trouble'[d] = trouble[d],
           \A e \in Events : \/ calendar'[e] = calendar[e]
                             \/ /\ calendar[e].state = "unused" \/ calendar[e].booking = b
                                /\ calendar'[e].booking = b
    PROVE  \A d \in Bookings \ {b} : Shown(d)'
<1> SUFFICES ASSUME NEW d \in Bookings \ {b}, trouble'[d] = {}
             PROVE  Apart(d)' /\ ConfirmedOnce(d)' /\ CreationTells(d)' /\ LinkTells(d)'
  BY DEF Shown
<1>0. /\ TypeOK /\ Owned /\ Apart(d) /\ ConfirmedOnce(d) /\ CreationTells(d) /\ LinkTells(d)
      /\ booking'[d] = booking[d] /\ link'[d] = link[d] /\ confirmed'[d] = confirmed[d]
      /\ d \notin {b, Nil}
  BY DEF ShownInv, OwnedInv, Shown, LinkAssumption
<1>1. Of(d)' = Of(d) /\ \A q \in Of(d) : request'[q] = request[q]
  BY <1>0 DEF Of, Others
<1>2. Confirming(d)' = Confirming(d) /\ Moving(d)' = Moving(d) /\ Removing(d)' = Removing(d)
  BY <1>1 DEF Confirming, Moving, Removing
<1>3. PresentEvents(d)' = PresentEvents(d)
  BY <1>0 DEF PresentEvents
<1>4. \A e : CreatedFor(e, d) => calendar'[e] = calendar[e]
  BY <1>0 DEF CreatedFor
<1>5. Apart(d)' /\ ConfirmedOnce(d)'
  BY <1>0, <1>1, <1>2, <1>3 DEF Apart, ConfirmedOnce
<1>6. CreationTells(d)'
  <2>1. \A q \in Confirming(d) : request'[q] = request[q]
    BY <1>1 DEF Confirming
  <2>2. \A q \in Confirming(d) : request[q].pc = "confirm:store" =>
            calendar'[request[q].event] = calendar[request[q].event]
    BY <1>0, <1>4 DEF Owned, Confirming, Of
  <2> QED BY <1>0, <1>2, <1>3, <2>1, <2>2 DEF CreationTells
<1>7. LinkTells(d)'
  <2>1. link[d] # NoLink => calendar'[link[d].event] = calendar[link[d].event]
    BY <1>0, <1>4 DEF Owned
  <2>2. \A q \in Moving(d) : request'[q] = request[q]
    BY <1>1 DEF Moving
  <2> QED BY <1>0, <1>2, <1>3, <2>1, <2>2 DEF LinkTells
<1> QED BY <1>5, <1>6, <1>7

\* A request begins.
LEMMA ShownBegins ==
    ASSUME LinkAssumption, ShownInv, NEW r \in Requests, NEW b \in Bookings,
           \/ \E status \in Targets : CheckTransition(r, b, status)
           \/ \E time \in Times : CheckSchedule(r, b, time)
    PROVE  \A d \in Bookings : Shown(d)'
<1>0. TypeOK /\ Owned
  BY DEF ShownInv, OwnedInv
<1>1. PICK kind \in BookingStatuses \cup {"move"}, pc \in {"status:write", "schedule:write"} :
          /\ Others(r) /\ request[r].id = Nil
          /\ request'[r].pc = pc /\ request'[r].id = b /\ request'[r].kind = kind
          /\ pc = "status:write" => CanBecome(booking[b].status, kind)
          /\ \A d \in Bookings \ {b} : trouble'[d] = trouble[d]
          /\ trouble'[b] = {} => /\ trouble[b] = {}
                                 /\ \A q \in Of(b) : {kind, request[q].kind} \notin Orphaning \cup Misplacing
  <2>1. ASSUME NEW status \in Targets, CheckTransition(r, b, status)
        PROVE  /\ Others(r) /\ request[r].id = Nil /\ status \in BookingStatuses
               /\ request'[r].pc = "status:write" /\ request'[r].id = b /\ request'[r].kind = status
               /\ CanBecome(booking[b].status, status)
               /\ \A d \in Bookings \ {b} : trouble'[d] = trouble[d]
               /\ trouble'[b] = {} =>
                      /\ trouble[b] = {}
                      /\ \A q \in Of(b) : {status, request[q].kind} \notin Orphaning \cup Misplacing
    <3>1. Begin(r, b, status, 0, "status:write") /\ CanBecome(booking[b].status, status)
          /\ status \in BookingStatuses \cup {"move"} /\ status \in BookingStatuses
      BY <2>1 DEF CheckTransition, LinkAssumption
    <3> QED BY <1>0, <3>1, BeginDoes, TimeZero
  <2>2. ASSUME NEW time \in Times, CheckSchedule(r, b, time)
        PROVE  /\ Others(r) /\ request[r].id = Nil
               /\ request'[r].pc = "schedule:write" /\ request'[r].id = b /\ request'[r].kind = "move"
               /\ \A d \in Bookings \ {b} : trouble'[d] = trouble[d]
               /\ trouble'[b] = {} =>
                      /\ trouble[b] = {}
                      /\ \A q \in Of(b) : {"move", request[q].kind} \notin Orphaning \cup Misplacing
    <3>1. Begin(r, b, "move", time, "schedule:write")
      BY <2>2 DEF CheckSchedule
    <3> QED BY <1>0, <3>1, BeginDoes
  <2> QED BY <2>1, <2>2
<1>2. UNCHANGED <<booking, calendar, link, confirmed>>
  BY DEF CheckTransition, CheckSchedule
<1>3. \A d \in Bookings \ {b} : Shown(d)'
  BY <1>1, <1>2, OtherBookings
<1>4. Shown(b)'
  <2> SUFFICES ASSUME trouble'[b] = {}
               PROVE  Apart(b)' /\ ConfirmedOnce(b)' /\ CreationTells(b)' /\ LinkTells(b)'
    BY DEF Shown
  <2>0. Apart(b) /\ ConfirmedOnce(b) /\ CreationTells(b) /\ LinkTells(b)
    BY <1>1 DEF ShownInv, Shown
  <2>1. b # Nil /\ r \notin Of(b)
    BY <1>1 DEF Of, LinkAssumption
  <2>2. Of(b)' = Of(b) \cup {r} /\ \A q \in Of(b) : request'[q] = request[q]
    BY <1>1, <2>1 DEF Of, Others
  <2>3. Confirming(b)' = Confirming(b) /\ Moving(b)' = Moving(b) /\ Removing(b)' = Removing(b)
    BY <1>1, <2>1, <2>2 DEF Confirming, Moving, Removing, ConfirmPCs
  <2>4. PresentEvents(b)' = PresentEvents(b)
    BY <1>2 DEF PresentEvents
  <2>5. Apart(b)'
    BY <1>1, <2>0, <2>1, <2>2 DEF Apart
  <2>6. ConfirmedOnce(b)'
    <3>1. confirmed[b] = 1 /\ pc = "status:write" => kind \notin {"awaiting_payment", "confirmed"}
      <4>1. confirmed[b] = 1 => booking[b].status \in BookingStatuses \ {"pending", "awaiting_payment"}
        BY <1>0, <2>0 DEF ConfirmedOnce, TypeOK
      <4> QED BY <1>1, <4>1 DEF CanBecome, ValidTransitions, BookingStatuses
    <3> QED BY <1>1, <1>2, <2>0, <2>1, <2>2, <2>3, <2>4, <3>1 DEF ConfirmedOnce
  <2>7. CreationTells(b)'
    <3>1. \A q \in Confirming(b) : request'[q] = request[q]
      BY <2>2 DEF Confirming
    <3> QED BY <1>2, <2>0, <2>3, <2>4, <3>1 DEF CreationTells
  <2>8. LinkTells(b)'
    <3>1. \A q \in Moving(b) : request'[q] = request[q]
      BY <2>2 DEF Moving
    <3> QED BY <1>2, <2>0, <2>3, <2>4, <3>1 DEF LinkTells
  <2> QED BY <2>5, <2>6, <2>7, <2>8
<1> QED BY <1>3, <1>4

\* A status is written. A confirmation is the first, and nothing else that could
\* confirm the booking or take it back is under way.
LEMMA ShownWritesStatus ==
    ASSUME LinkAssumption, ShownInv, NEW r \in Requests, NEW b \in Bookings, request[r].id = b,
           WriteStatus(r), trouble[b] = {}
    PROVE  Apart(b)' /\ ConfirmedOnce(b)' /\ CreationTells(b)' /\ LinkTells(b)'
<1>0. /\ TypeOK /\ Owned /\ Apart(b) /\ ConfirmedOnce(b) /\ CreationTells(b) /\ LinkTells(b)
      /\ r \in Of(b) /\ b # Nil
  BY DEF ShownInv, OwnedInv, Shown, Of, LinkAssumption
<1> DEFINE kind == request[r].kind
<1>1. /\ Others(r) /\ request[r].pc = "status:write" /\ kind \in BookingStatuses \ {"pending"}
      /\ \/ kind = "confirmed" /\ GoesTo(r, "confirm:booking")
         \/ kind = "cancelled" /\ GoesTo(r, "link")
         \/ /\ kind \notin {"confirmed", "cancelled"}
            /\ request'[r].pc = "idle" /\ request'[r].id = Nil
  BY <1>0, WriteStatusDoes
<1>2. /\ UNCHANGED <<calendar, link>> /\ PresentEvents(b)' = PresentEvents(b)
      /\ confirmed' = IF kind = "confirmed" THEN [confirmed EXCEPT ![b] = @ + 1] ELSE confirmed
  BY DEF WriteStatus, PresentEvents
<1>3. booking'[b].status = kind /\ booking'[b].time = booking[b].time
  BY <1>0 DEF WriteStatus, TypeOK
<1>4. r \notin Confirming(b) \cup Moving(b) \cup Removing(b)
  BY <1>1 DEF Confirming, Moving, Removing, ConfirmPCs
<1>5. confirmed[b] = 1 => kind \notin {"awaiting_payment", "confirmed"}
  BY <1>0, <1>1 DEF ConfirmedOnce
<1>6. CASE kind = "confirmed"
  <2>1. /\ Of(b)' = Of(b) /\ Confirming(b)' = Confirming(b) \cup {r}
        /\ \A q \in Of(b) \ {r} : request'[q] = request[q]
        /\ Apart(b)'
    <3>1. GoesTo(r, "confirm:booking") /\ "confirm:booking" \in ConfirmPCs
      BY <1>1, <1>6 DEF ConfirmPCs
    <3> QED BY <1>0, <1>1, <3>1, StaysConfirming
  <2>2. /\ confirmed[b] = 0 /\ confirmed'[b] = 1 /\ Confirming(b)' = {r}
        /\ link[b] = NoLink /\ PresentEvents(b) = {}
    <3>1. confirmed[b] = 0 /\ link[b] = NoLink /\ PresentEvents(b) = {} /\ Confirming(b) = {}
      BY <1>0, <1>5, <1>6 DEF ConfirmedOnce
    <3>2. confirmed'[b] = confirmed[b] + 1
      BY <1>0, <1>2, <1>6 DEF TypeOK
    <3> QED BY <2>1, <3>1, <3>2
  <2>3. request'[r].pc = "confirm:booking"
    BY <1>1, <1>6 DEF GoesTo
  <2>4. ConfirmedOnce(b)'
    <3>1. \A q \in Of(b) \ {r} : request[q].kind \notin {"confirmed", "awaiting_payment"}
      BY <1>0, <1>6, Rivals
    <3> QED BY <1>3, <1>6, <2>1, <2>2, <2>3, <3>1 DEF ConfirmedOnce
  <2>5. CreationTells(b)'
    BY <1>2, <2>2, <2>3 DEF CreationTells
  <2>6. LinkTells(b)'
    BY <2>2 DEF LinkTells
  <2> QED BY <2>1, <2>4, <2>5, <2>6
<1>7. CASE kind # "confirmed"
  <2>1. /\ Of(b)' \subseteq Of(b) /\ Confirming(b)' = Confirming(b) /\ Moving(b)' = Moving(b)
        /\ \A q \in Of(b)' \ {r} : request'[q] = request[q]
        /\ request'[r].pc \in {"link", "idle"}
        /\ Apart(b)'
    <3>1. CASE kind = "cancelled"
      <4>1. GoesTo(r, "link") /\ request'[r].pc = "link"
        BY <1>1, <3>1 DEF GoesTo
      <4>2. /\ Of(b)' = Of(b) /\ Confirming(b)' = Confirming(b) \ {r}
            /\ Moving(b)' = Moving(b) \ {r}
            /\ \A q \in Of(b) \ {r} : request'[q] = request[q]
            /\ Apart(b)'
        BY <1>0, <1>1, <3>1, <4>1, StaysRemoving
      <4> QED BY <1>4, <4>1, <4>2
    <3>2. CASE kind # "cancelled"
      <4>1. request'[r].pc = "idle" /\ request'[r].id = Nil
        BY <1>1, <1>7, <3>2
      <4>2. /\ Of(b)' = Of(b) \ {r} /\ Confirming(b)' = Confirming(b) \ {r}
            /\ Moving(b)' = Moving(b) \ {r}
            /\ \A q \in Of(b)' : request'[q] = request[q]
            /\ Apart(b)'
        BY <1>0, <1>1, <4>1, Leaves
      <4> QED BY <1>4, <4>1, <4>2
    <3> QED BY <3>1, <3>2
  <2>2. confirmed' = confirmed
    BY <1>2, <1>7
  <2>3. ConfirmedOnce(b)'
    BY <1>0, <1>1, <1>2, <1>3, <1>5, <1>7, <2>1, <2>2 DEF ConfirmedOnce
  <2>4. CreationTells(b)'
    <3>1. \A q \in Confirming(b) : request'[q] = request[q]
      BY <1>4, <2>1 DEF Confirming
    <3> QED BY <1>0, <1>2, <1>3, <2>1, <3>1 DEF CreationTells
  <2>5. LinkTells(b)'
    <3>1. \A q \in Moving(b) : request'[q] = request[q]
      BY <1>4, <2>1 DEF Moving
    <3> QED BY <1>0, <1>2, <1>3, <1>7, <2>1, <2>2, <3>1 DEF LinkTells
  <2> QED BY <2>1, <2>3, <2>4, <2>5
<1> QED BY <1>6, <1>7

\* The times are written by the only move under way.
LEMMA ShownWritesSchedule ==
    ASSUME LinkAssumption, ShownInv, NEW r \in Requests, NEW b \in Bookings, request[r].id = b,
           WriteSchedule(r), trouble[b] = {}
    PROVE  Apart(b)' /\ ConfirmedOnce(b)' /\ CreationTells(b)' /\ LinkTells(b)'
<1>0. /\ TypeOK /\ Owned /\ Apart(b) /\ ConfirmedOnce(b) /\ CreationTells(b) /\ LinkTells(b)
      /\ r \in Of(b)
  BY DEF ShownInv, OwnedInv, Shown, Of
<1>1. /\ Others(r) /\ GoesTo(r, "link") /\ request[r].pc = "schedule:write"
      /\ request[r].kind = "move"
  BY <1>0, WriteScheduleDoes
<1>2. /\ UNCHANGED <<calendar, link, confirmed>> /\ PresentEvents(b)' = PresentEvents(b)
      /\ booking'[b].status = booking[b].status
  BY <1>0 DEF WriteSchedule, PresentEvents, TypeOK
<1>3. Confirming(b) = {} /\ Moving(b) \subseteq {r} /\ r \notin Removing(b)
  BY <1>0, <1>1, Rivals DEF Removing
<1>4. /\ Of(b)' = Of(b) /\ Confirming(b)' = {} /\ Moving(b)' = {r} /\ Removing(b)' = Removing(b)
      /\ \A q \in Of(b) \ {r} : request'[q] = request[q]
      /\ request'[r].pc = "link" /\ Apart(b)'
  <2>1. /\ Of(b)' = Of(b) /\ Confirming(b)' = Confirming(b) \ {r}
        /\ Moving(b)' = Moving(b) \cup {r} /\ Removing(b)' = Removing(b) \ {r}
        /\ \A q \in Of(b) \ {r} : request'[q] = request[q]
        /\ Apart(b)'
    BY <1>0, <1>1, StaysMoving
  <2>2. request'[r].pc = "link"
    BY <1>1 DEF GoesTo
  <2> QED BY <1>3, <2>1, <2>2
<1>5. ConfirmedOnce(b)'
  BY <1>0, <1>2, <1>4 DEF ConfirmedOnce
<1>6. CreationTells(b)'
  BY <1>4 DEF CreationTells
<1>7. LinkTells(b)'
  BY <1>0, <1>2, <1>3, <1>4 DEF LinkTells
<1> QED BY <1>4, <1>5, <1>6, <1>7

\* The booking is read for its event; no move is under way beside this request.
LEMMA ShownReadsBooking ==
    ASSUME LinkAssumption, ShownInv, NEW r \in Requests, NEW b \in Bookings, request[r].id = b,
           ReadConfirmed(r) \/ ReadMoved(r), trouble[b] = {}
    PROVE  Apart(b)' /\ ConfirmedOnce(b)' /\ CreationTells(b)' /\ LinkTells(b)'
<1>0. /\ TypeOK /\ Owned /\ Apart(b) /\ ConfirmedOnce(b) /\ CreationTells(b) /\ LinkTells(b)
      /\ r \in Of(b)
  BY DEF ShownInv, OwnedInv, Shown, Of
<1>1. /\ Others(r) /\ request'[r].time = booking[b].time
      /\ request'[r].event = request[r].event /\ request'[r].conn = request[r].conn
      /\ \/ /\ request[r].pc = "confirm:booking" /\ request[r].kind = "confirmed"
            /\ GoesTo(r, "confirm:connection")
         \/ /\ request[r].pc = "move:booking" /\ request[r].kind = "move"
            /\ GoesTo(r, "update")
  BY <1>0, ReadBookingDoes
<1>2. UNCHANGED <<booking, calendar, link, confirmed>> /\ PresentEvents(b)' = PresentEvents(b)
  BY DEF ReadConfirmed, ReadMoved, PresentEvents
<1>3. /\ Of(b)' = Of(b) /\ \A q \in Of(b) \ {r} : request'[q] = request[q]
      /\ Apart(b)'
      /\ Confirming(b)' = Confirming(b) /\ Moving(b)' = Moving(b) /\ Removing(b)' = Removing(b)
  <2>1. CASE request[r].pc = "confirm:booking" /\ GoesTo(r, "confirm:connection") /\ request[r].kind = "confirmed"
    <3>1. r \in Confirming(b) /\ r \notin Moving(b) \cup Removing(b)
      BY <1>0, <2>1 DEF Confirming, Moving, Removing, ConfirmPCs
    <3>2. /\ Of(b)' = Of(b) /\ Confirming(b)' = Confirming(b) \cup {r}
          /\ Moving(b)' = Moving(b) \ {r} /\ Removing(b)' = Removing(b) \ {r}
          /\ \A q \in Of(b) \ {r} : request'[q] = request[q]
          /\ Apart(b)'
      <4>1. "confirm:connection" \in ConfirmPCs
        BY DEF ConfirmPCs
      <4> QED BY <1>0, <1>1, <2>1, <4>1, StaysConfirming
    <3> QED BY <3>1, <3>2
  <2>2. CASE request[r].pc = "move:booking" /\ GoesTo(r, "update") /\ request[r].kind = "move"
    <3>1. r \notin Confirming(b) \cup Removing(b) /\ r \in Moving(b)
      BY <1>0, <2>2 DEF Confirming, Moving, Removing, ConfirmPCs
    <3>2. /\ Of(b)' = Of(b) /\ Confirming(b)' = Confirming(b) \ {r}
          /\ Moving(b)' = Moving(b) \cup {r} /\ Removing(b)' = Removing(b) \ {r}
          /\ \A q \in Of(b) \ {r} : request'[q] = request[q]
          /\ Apart(b)'
      BY <1>0, <1>1, <2>2, StaysMoving
    <3> QED BY <3>1, <3>2
  <2> QED BY <1>1, <2>1, <2>2
<1>4. request'[r].pc # "status:write"
  BY <1>1 DEF GoesTo
<1>5. ConfirmedOnce(b)'
  BY <1>0, <1>2, <1>3, <1>4 DEF ConfirmedOnce
<1>6. CreationTells(b)'
  <2>1. \A q \in Confirming(b) : q # r => q \in Of(b) \ {r}
    BY DEF Confirming
  <2>2. r \in Confirming(b) => request[r].pc = "confirm:booking" /\ request'[r].pc = "confirm:connection"
    BY <1>1 DEF GoesTo, Confirming, ConfirmPCs
  <2> QED BY <1>0, <1>1, <1>2, <1>3, <2>1, <2>2 DEF CreationTells
<1>7. LinkTells(b)'
  <2>1. \A q \in Moving(b) : q # r => q \in Of(b) \ {r}
    BY DEF Moving
  <2>2. r \in Moving(b) => request[r].pc = "move:booking"
    BY <1>1 DEF Moving
  <2> QED BY <1>0, <1>1, <1>2, <1>3, <2>1, <2>2 DEF LinkTells
<1> QED BY <1>3, <1>5, <1>6, <1>7

\* A connection is chosen for the event.
LEMMA ShownChooses ==
    ASSUME LinkAssumption, ShownInv, NEW r \in Requests, NEW b \in Bookings, request[r].id = b,
           ChooseConnection(r), trouble[b] = {}, GoesTo(r, "confirm:create")
    PROVE  Apart(b)' /\ ConfirmedOnce(b)' /\ CreationTells(b)' /\ LinkTells(b)'
<1>0. /\ TypeOK /\ Owned /\ Apart(b) /\ ConfirmedOnce(b) /\ CreationTells(b) /\ LinkTells(b)
      /\ r \in Of(b)
  BY DEF ShownInv, OwnedInv, Shown, Of
<1>1. /\ Others(r) /\ request[r].pc = "confirm:connection" /\ request[r].kind = "confirmed"
      /\ request'[r].time = request[r].time /\ request'[r].pc = "confirm:create"
  BY <1>0, ChooseDoes DEF GoesTo
<1>2. UNCHANGED <<booking, calendar, link, confirmed>> /\ PresentEvents(b)' = PresentEvents(b)
  BY DEF ChooseConnection, PresentEvents
<1>3. r \in Confirming(b) /\ r \notin Moving(b) \cup Removing(b)
  BY <1>0, <1>1 DEF Confirming, Moving, Removing, ConfirmPCs
<1>4. /\ Of(b)' = Of(b) /\ \A q \in Of(b) \ {r} : request'[q] = request[q]
      /\ Apart(b)'
      /\ Confirming(b)' = Confirming(b) /\ Moving(b)' = Moving(b) /\ Removing(b)' = Removing(b)
  <2>1. "confirm:create" \in ConfirmPCs
    BY DEF ConfirmPCs
  <2>2. /\ Of(b)' = Of(b) /\ Confirming(b)' = Confirming(b) \cup {r}
        /\ Moving(b)' = Moving(b) \ {r} /\ Removing(b)' = Removing(b) \ {r}
        /\ \A q \in Of(b) \ {r} : request'[q] = request[q]
        /\ Apart(b)'
    BY <1>0, <1>1, <2>1, StaysConfirming
  <2> QED BY <1>3, <2>2
<1>5. ConfirmedOnce(b)'
  BY <1>0, <1>1, <1>2, <1>4 DEF ConfirmedOnce
<1>6. CreationTells(b)'
  <2>1. \A q \in Confirming(b) : q # r => q \in Of(b) \ {r}
    BY DEF Confirming
  <2> QED BY <1>0, <1>1, <1>2, <1>3, <1>4, <2>1 DEF CreationTells
<1>7. LinkTells(b)'
  BY <1>3, <1>4 DEF LinkTells
<1> QED BY <1>4, <1>5, <1>6, <1>7

\* The event is created, the first of its booking.
LEMMA ShownCreates ==
    ASSUME LinkAssumption, ShownInv, NEW r \in Requests, NEW b \in Bookings, request[r].id = b,
           CreateEvent(r), trouble[b] = {}, GoesTo(r, "confirm:store")
    PROVE  Apart(b)' /\ ConfirmedOnce(b)' /\ CreationTells(b)' /\ LinkTells(b)'
<1>0. /\ TypeOK /\ Owned /\ Apart(b) /\ ConfirmedOnce(b) /\ CreationTells(b) /\ LinkTells(b)
      /\ r \in Of(b)
  BY DEF ShownInv, OwnedInv, Shown, Of
<1>1. /\ Others(r) /\ request[r].pc = "confirm:create" /\ request[r].kind = "confirmed"
      /\ request'[r].pc = "confirm:store"
  BY <1>0, CreateDoes DEF GoesTo
<1>2. PICK e \in Events :
          /\ calendar[e].state = "unused"
          /\ \A d \in Events \ {e} : calendar'[d] = calendar[d]
          /\ calendar'[e] = [state |-> "present", conn |-> request[r].conn,
                             booking |-> request[r].id, time |-> request[r].time]
          /\ \/ /\ GoesTo(r, "confirm:store") /\ request'[r].time = request[r].time
                /\ request'[r].conn = request[r].conn /\ request'[r].event = e
                /\ trouble' = trouble
             \/ /\ request'[r].pc = "idle" /\ request'[r].id = Nil
                /\ GivesUp(r)
  BY <1>0, CreateDoes
<1>3. UNCHANGED <<booking, link, confirmed>>
  BY DEF CreateEvent
<1>4. Confirming(b) = {r} /\ r \notin Moving(b) \cup Removing(b)
  <2>1. r \in Confirming(b)
    BY <1>0, <1>1 DEF Confirming, ConfirmPCs
  <2> QED BY <1>0, <1>1, <2>1, Rivals
<1>5. /\ Of(b)' = Of(b) /\ \A q \in Of(b) \ {r} : request'[q] = request[q]
      /\ Apart(b)' /\ Confirming(b)' = {r}
  <2>1. "confirm:store" \in ConfirmPCs
    BY DEF ConfirmPCs
  <2>2. /\ Of(b)' = Of(b) /\ Confirming(b)' = Confirming(b) \cup {r}
        /\ \A q \in Of(b) \ {r} : request'[q] = request[q]
        /\ Apart(b)'
    BY <1>0, <1>1, <2>1, StaysConfirming
  <2> QED BY <1>4, <2>2
<1>6. link[b] = NoLink /\ PresentEvents(b) = {} /\ request[r].time = booking[b].time
  BY <1>0, <1>1, <1>4 DEF CreationTells
<1>7. PresentEvents(b)' = {e}
  <2>1. PresentEvents(b)' = PresentEvents(b) \cup {e}
    BY <1>2 DEF PresentEvents
  <2> QED BY <1>6, <2>1
<1>8. /\ request'[r].time = request[r].time /\ request'[r].conn = request[r].conn
      /\ request'[r].event = e
  BY <1>1, <1>2
<1>9. calendar'[e].conn = request[r].conn /\ calendar'[e].time = request[r].time
  BY <1>2
<1>10. ConfirmedOnce(b)'
  BY <1>0, <1>1, <1>3, <1>4, <1>5 DEF ConfirmedOnce
<1>11. CreationTells(b)'
  BY <1>1, <1>3, <1>5, <1>6, <1>7, <1>8, <1>9 DEF CreationTells
<1>12. LinkTells(b)'
  BY <1>5 DEF LinkTells
<1> QED BY <1>5, <1>10, <1>11, <1>12

\* The link is stored, the first of its booking.
LEMMA ShownStoresLink ==
    ASSUME LinkAssumption, ShownInv, NEW r \in Requests, NEW b \in Bookings, request[r].id = b,
           StoreLink(r), trouble[b] = {}
    PROVE  Apart(b)' /\ ConfirmedOnce(b)' /\ CreationTells(b)' /\ LinkTells(b)'
<1>0. /\ TypeOK /\ Owned /\ Apart(b) /\ ConfirmedOnce(b) /\ CreationTells(b) /\ LinkTells(b)
      /\ r \in Of(b)
  BY DEF ShownInv, OwnedInv, Shown, Of
<1>1. /\ Others(r) /\ request[r].pc = "confirm:store" /\ request[r].kind = "confirmed"
      /\ request'[r].id = Nil
  BY <1>0, ReturnDoes DEF StoreLink, TypeOK, WellFormed, ConfirmPCs
<1>2. UNCHANGED <<booking, calendar, confirmed>> /\ PresentEvents(b)' = PresentEvents(b)
  BY DEF StoreLink, PresentEvents
<1>3. Confirming(b) = {r} /\ Moving(b) = {} /\ Removing(b) = {}
  <2>1. r \in Confirming(b)
    BY <1>0, <1>1 DEF Confirming, ConfirmPCs
  <2> QED BY <1>0, <1>1, <2>1, Rivals
<1>4. /\ Of(b)' = Of(b) \ {r} /\ \A q \in Of(b)' : request'[q] = request[q]
      /\ Apart(b)' /\ Confirming(b)' = {} /\ Moving(b)' = {} /\ Removing(b)' = {}
  BY <1>0, <1>1, <1>3, Leaves
<1> DEFINE e == request[r].event
<1>5. /\ link[b] = NoLink /\ PresentEvents(b) = {e} /\ calendar[e].conn = request[r].conn
      /\ calendar[e].time = request[r].time /\ request[r].time = booking[b].time
  BY <1>0, <1>1, <1>3 DEF CreationTells
<1>6. link'[b] = [event |-> e, conn |-> request[r].conn]
  BY <1>0, <1>5 DEF StoreLink, TypeOK
<1>7. e \in Events /\ calendar[e].state = "present"
  BY <1>5 DEF PresentEvents
<1>8. link'[b] # NoLink /\ link'[b].event = e /\ link'[b].conn = request[r].conn
  BY <1>6, <1>7 DEF NoLink, LinkAssumption
<1>9. confirmed[b] = 1
  BY <1>0, <1>3 DEF ConfirmedOnce
<1>10. ConfirmedOnce(b)'
  BY <1>0, <1>2, <1>4, <1>9 DEF ConfirmedOnce
<1>11. CreationTells(b)'
  BY <1>4 DEF CreationTells
<1>12. LinkTells(b)'
  BY <1>2, <1>4, <1>5, <1>7, <1>8 DEF LinkTells
<1> QED BY <1>4, <1>10, <1>11, <1>12

\* A request without an event in hand leaves the booking.
LEMMA ShownLeaves ==
    ASSUME LinkAssumption, ShownInv, NEW r \in Requests, NEW b \in Bookings, request[r].id = b,
           Others(r), request'[r].id = Nil, UNCHANGED <<booking, calendar, link, confirmed>>,
           trouble[b] = {}, r \notin Confirming(b),
           link[b] = NoLink \/ r \notin Moving(b) \cup Removing(b)
    PROVE  Apart(b)' /\ ConfirmedOnce(b)' /\ CreationTells(b)' /\ LinkTells(b)'
<1>0. Apart(b) /\ ConfirmedOnce(b) /\ CreationTells(b) /\ LinkTells(b)
  BY DEF ShownInv, Shown
<1>1. /\ Of(b)' = Of(b) \ {r} /\ Confirming(b)' = Confirming(b)
      /\ Moving(b)' = Moving(b) \ {r} /\ Removing(b)' = Removing(b) \ {r}
      /\ \A q \in Of(b)' : request'[q] = request[q]
      /\ Apart(b)'
  <2>1. /\ Of(b)' = Of(b) \ {r} /\ Confirming(b)' = Confirming(b) \ {r}
        /\ Moving(b)' = Moving(b) \ {r} /\ Removing(b)' = Removing(b) \ {r}
        /\ \A q \in Of(b)' : request'[q] = request[q]
        /\ Apart(b)'
    BY <1>0, Leaves
  <2> QED BY <2>1
<1>2. PresentEvents(b)' = PresentEvents(b)
  BY DEF PresentEvents
<1>3. ConfirmedOnce(b)'
  BY <1>0, <1>1, <1>2 DEF ConfirmedOnce
<1>4. CreationTells(b)'
  <2>1. \A q \in Confirming(b) : request'[q] = request[q]
    BY <1>1 DEF Confirming
  <2> QED BY <1>0, <1>1, <1>2, <2>1 DEF CreationTells
<1>5. LinkTells(b)'
  <2>1. CASE link[b] = NoLink
    BY <1>0, <1>1, <2>1 DEF LinkTells
  <2>2. CASE r \notin Moving(b) \cup Removing(b)
    <3>1. Moving(b)' = Moving(b) /\ Removing(b)' = Removing(b)
      BY <1>1, <2>2
    <3>2. \A q \in Moving(b) : request'[q] = request[q]
      BY <1>1, <2>2 DEF Moving
    <3> QED BY <1>0, <1>1, <1>2, <3>1, <3>2 DEF LinkTells
  <2> QED BY <2>1, <2>2
<1> QED BY <1>1, <1>3, <1>4, <1>5

\* A move or a cancellation goes on, with what it has read of the link.
LEMMA ShownMirrors ==
    ASSUME LinkAssumption, ShownInv, NEW r \in Requests, NEW b \in Bookings, request[r].id = b,
           Others(r), UNCHANGED <<booking, calendar, link, confirmed>>, trouble[b] = {},
           request[r].pc \in {"link", "connection"},
           NEW pc \in {"connection", "move:booking", "delete"}, GoesTo(r, pc),
           pc = "move:booking" => request[r].kind = "move",
           pc = "delete" => request[r].kind = "cancelled",
           r \in Moving(b) /\ LinkTells(b) /\ confirmed[b] = 1 /\ Confirming(b) = {}
               => request'[r].event = link[b].event /\ request'[r].conn = link[b].conn
    PROVE  Apart(b)' /\ ConfirmedOnce(b)' /\ CreationTells(b)' /\ LinkTells(b)'
<1>0. /\ TypeOK /\ Apart(b) /\ ConfirmedOnce(b) /\ CreationTells(b) /\ LinkTells(b)
      /\ r \in Of(b)
  BY DEF ShownInv, OwnedInv, Shown, Of
<1>1. request[r].kind \in {"move", "cancelled"} /\ request'[r].pc = pc
  BY <1>0 DEF TypeOK, WellFormed, GoesTo
<1>2. PresentEvents(b)' = PresentEvents(b)
  BY DEF PresentEvents
<1>3. r \notin Confirming(b)
  BY DEF Confirming, ConfirmPCs
<1>4. /\ Of(b)' = Of(b) /\ \A q \in Of(b) \ {r} : request'[q] = request[q]
      /\ Apart(b)' /\ Confirming(b)' = Confirming(b)
      /\ Moving(b)' = Moving(b) /\ Removing(b)' = Removing(b)
  <2>1. CASE request[r].kind = "move"
    <3>1. r \in Moving(b) /\ r \notin Removing(b)
      BY <1>0, <2>1 DEF Moving, Removing
    <3>2. /\ Of(b)' = Of(b) /\ Confirming(b)' = Confirming(b) \ {r}
          /\ Moving(b)' = Moving(b) \cup {r} /\ Removing(b)' = Removing(b) \ {r}
          /\ \A q \in Of(b) \ {r} : request'[q] = request[q]
          /\ Apart(b)'
      BY <1>0, <2>1, StaysMoving
    <3> QED BY <1>3, <3>1, <3>2
  <2>2. CASE request[r].kind = "cancelled"
    <3>1. r \in Removing(b) /\ r \notin Moving(b)
      BY <1>0, <2>2 DEF Moving, Removing
    <3>2. /\ Of(b)' = Of(b) /\ Confirming(b)' = Confirming(b) \ {r}
          /\ Moving(b)' = Moving(b) \ {r} /\ Removing(b)' = Removing(b) \cup {r}
          /\ \A q \in Of(b) \ {r} : request'[q] = request[q]
          /\ Apart(b)'
      BY <1>0, <2>2, StaysRemoving
    <3> QED BY <1>3, <3>1, <3>2
  <2> QED BY <1>1, <2>1, <2>2
<1>5. ConfirmedOnce(b)'
  BY <1>0, <1>1, <1>2, <1>4 DEF ConfirmedOnce
<1>6. CreationTells(b)'
  <2>1. \A q \in Confirming(b) : request'[q] = request[q]
    BY <1>3, <1>4 DEF Confirming
  <2> QED BY <1>0, <1>2, <1>4, <2>1 DEF CreationTells
<1>7. LinkTells(b)'
  <2>1. \A q \in Moving(b) : q # r => q \in Of(b) \ {r}
    BY DEF Moving
  <2> QED BY <1>0, <1>1, <1>2, <1>4, <2>1 DEF LinkTells
<1> QED BY <1>4, <1>5, <1>6, <1>7

LEMMA ShownReadsLink ==
    ASSUME LinkAssumption, ShownInv, NEW r \in Requests, NEW b \in Bookings, request[r].id = b,
           ReadLink(r), trouble[b] = {}
    PROVE  Apart(b)' /\ ConfirmedOnce(b)' /\ CreationTells(b)' /\ LinkTells(b)'
<1>0. TypeOK
  BY DEF ShownInv, OwnedInv
<1>1. /\ Others(r) /\ request[r].pc = "link"
      /\ \/ link[b] = NoLink /\ request'[r].id = Nil
         \/ /\ link[b] # NoLink /\ GoesTo(r, "connection")
            /\ request'[r].event = link[b].event /\ request'[r].conn = link[b].conn
  BY <1>0, ReadLinkDoes
<1>2. UNCHANGED <<booking, calendar, link, confirmed>>
  BY DEF ReadLink
<1>3. r \notin Confirming(b)
  BY <1>1 DEF Confirming, ConfirmPCs
<1>4. CASE link[b] = NoLink
  BY <1>1, <1>2, <1>3, <1>4, ShownLeaves
<1>5. CASE link[b] # NoLink
  BY <1>1, <1>2, <1>5, ShownMirrors
<1> QED BY <1>4, <1>5

LEMMA ShownReadsConnection ==
    ASSUME LinkAssumption, ShownInv, NEW r \in Requests, NEW b \in Bookings, request[r].id = b,
           ReadConnection(r), trouble[b] = {}, request'[r].id # Nil
    PROVE  Apart(b)' /\ ConfirmedOnce(b)' /\ CreationTells(b)' /\ LinkTells(b)'
<1>0. TypeOK
  BY DEF ShownInv, OwnedInv
<1>1. /\ Others(r) /\ request[r].pc = "connection"
      /\ \/ request[r].kind = "move" /\ GoesTo(r, "move:booking")
         \/ request[r].kind = "cancelled" /\ GoesTo(r, "delete")
      /\ request'[r].event = request[r].event /\ request'[r].conn = request[r].conn
  BY <1>0, ReadConnectionDoes
<1>2. UNCHANGED <<booking, calendar, link, confirmed>>
  BY DEF ReadConnection
<1>3. r \in Moving(b) /\ LinkTells(b) /\ confirmed[b] = 1 /\ Confirming(b) = {}
          => request'[r].event = link[b].event /\ request'[r].conn = link[b].conn
  BY <1>1 DEF LinkTells
<1>4. CASE request[r].kind = "move" /\ GoesTo(r, "move:booking")
  BY <1>1, <1>2, <1>3, <1>4, ShownMirrors
<1>5. CASE request[r].kind = "cancelled" /\ GoesTo(r, "delete")
  BY <1>1, <1>2, <1>3, <1>5, ShownMirrors
<1> QED BY <1>1, <1>4, <1>5

\* The event is deleted; the booking is no longer confirmed.
LEMMA ShownDeletes ==
    ASSUME LinkAssumption, ShownInv, NEW r \in Requests, NEW b \in Bookings, request[r].id = b,
           DeleteEvent(r), trouble[b] = {}
    PROVE  Apart(b)' /\ ConfirmedOnce(b)' /\ CreationTells(b)' /\ LinkTells(b)'
<1>0. /\ TypeOK /\ Owned /\ Apart(b) /\ ConfirmedOnce(b) /\ CreationTells(b) /\ LinkTells(b)
      /\ r \in Of(b)
  BY DEF ShownInv, OwnedInv, Shown, Of
<1>1. /\ request[r].pc = "delete" /\ request[r].kind = "cancelled"
      /\ UNCHANGED <<booking, link, confirmed>>
  BY <1>0, RequestTyped DEF DeleteEvent, WellFormed
<1>2. /\ Others(r) /\ request'[r].id = Nil
      /\ \A e \in Events : \/ calendar'[e] = calendar[e]
                           \/ /\ calendar'[e].state = "deleted"
                              /\ calendar'[e].conn = calendar[e].conn
  <2> DEFINE e == request[r].event
  <2>1. /\ Others(r) /\ request'[r].id = Nil
        /\ \A d \in Events \ {e} : calendar'[d] = calendar[d]
        /\ e \in Events /\ Found(r) => /\ calendar'[e].conn = calendar[e].conn
                                       /\ calendar'[e].state = "deleted"
        /\ ~Found(r) => calendar' = calendar
    BY <1>0, <1>1, EventDoes
  <2> QED BY <2>1
<1>3. Confirming(b) = {} /\ r \in Removing(b) /\ r \notin Moving(b)
  BY <1>0, <1>1, Rivals DEF Removing, Moving
<1>4. /\ Of(b)' = Of(b) \ {r} /\ Confirming(b)' = {} /\ Moving(b)' = Moving(b)
      /\ \A q \in Of(b)' : request'[q] = request[q]
      /\ Apart(b)'
  <2>1. /\ Of(b)' = Of(b) \ {r} /\ Confirming(b)' = Confirming(b) \ {r}
        /\ Moving(b)' = Moving(b) \ {r}
        /\ \A q \in Of(b)' : request'[q] = request[q]
        /\ Apart(b)'
    BY <1>0, <1>2, Leaves
  <2> QED BY <1>3, <2>1
<1>5. PresentEvents(b)' \subseteq PresentEvents(b)
  BY <1>2 DEF PresentEvents
<1>6. ConfirmedOnce(b)'
  BY <1>0, <1>1, <1>4, <1>5 DEF ConfirmedOnce
<1>7. CreationTells(b)'
  BY <1>4 DEF CreationTells
<1>8. LinkTells(b)'
  <2> SUFFICES ASSUME confirmed[b] = 1
               PROVE  LinkTells(b)'
    BY <1>1 DEF LinkTells
  <2> DEFINE e == link[b].event
  <2>1. /\ link[b] # NoLink /\ PresentEvents(b) \subseteq {e}
        /\ calendar[e].conn = link[b].conn /\ booking[b].status # "confirmed"
        /\ Moving(b) = {} /\ calendar[e].state = "present" => calendar[e].time = booking[b].time
        /\ \A q \in Moving(b) :
               /\ request[q].pc # "link" => /\ request[q].event = e
                                            /\ request[q].conn = link[b].conn
               /\ request[q].pc = "update" => request[q].time = booking[b].time
    BY <1>0, <1>3 DEF LinkTells
  <2>2. e \in Events
    BY <1>0, <2>1 DEF Owned, CreatedFor
  <2>3. /\ calendar'[e].conn = calendar[e].conn
        /\ calendar'[e].state = "present" => calendar'[e] = calendar[e]
    BY <1>2, <2>2
  <2>4. \A q \in Moving(b) : request'[q] = request[q]
    BY <1>3, <1>4 DEF Moving
  <2> HIDE DEF e
  <2>5. PresentEvents(b)' \subseteq {e}
    BY <1>5, <2>1
  <2>6. link'[b].event = e
    BY <1>1 DEF e
  <2> QED BY <1>1, <1>4, <2>1, <2>3, <2>4, <2>5, <2>6 DEF LinkTells
<1> QED BY <1>4, <1>6, <1>7, <1>8

\* The event is moved to the time the booking has.
LEMMA ShownUpdates ==
    ASSUME LinkAssumption, ShownInv, NEW r \in Requests, NEW b \in Bookings, request[r].id = b,
           UpdateEvent(r), trouble[b] = {}
    PROVE  Apart(b)' /\ ConfirmedOnce(b)' /\ CreationTells(b)' /\ LinkTells(b)'
<1>0. /\ TypeOK /\ Owned /\ Apart(b) /\ ConfirmedOnce(b) /\ CreationTells(b) /\ LinkTells(b)
      /\ r \in Of(b)
  BY DEF ShownInv, OwnedInv, Shown, Of
<1>1. /\ request[r].pc = "update" /\ request[r].kind = "move"
      /\ UNCHANGED <<booking, link, confirmed>>
  BY <1>0, RequestTyped DEF UpdateEvent, WellFormed
<1> DEFINE own == request[r].event
<1>2. own \in Events /\ calendar[own].booking = b
  BY <1>0, <1>1 DEF Owned, CreatedFor, EventPCs
<1>3. /\ Others(r) /\ request'[r].id = Nil
      /\ \A e \in Events \ {own} : calendar'[e] = calendar[e]
      /\ Found(r) => /\ calendar'[own].booking = b
                     /\ calendar'[own].conn = calendar[own].conn
                     /\ calendar'[own].state = "present"
                     /\ calendar'[own].time = request[r].time
      /\ ~Found(r) => calendar' = calendar
  BY <1>0, <1>1, <1>2, EventDoes
<1>4. Found(r) => calendar[own].state = "present" /\ own \in PresentEvents(b)
  BY <1>2 DEF Found, PresentEvents
<1>5. PresentEvents(b)' = PresentEvents(b)
  <2>1. \A e \in Events : \/ calendar'[e] = calendar[e]
                          \/ /\ calendar'[e].state = calendar[e].state
                             /\ calendar'[e].booking = calendar[e].booking
    BY <1>2, <1>3, <1>4
  <2> QED BY <2>1 DEF PresentEvents
<1>6. Confirming(b) = {} /\ Moving(b) = {r} /\ r \notin Removing(b)
  <2>1. r \in Moving(b) /\ r \notin Removing(b)
    BY <1>0, <1>1 DEF Moving, Removing
  <2> QED BY <1>0, <1>1, <2>1, Rivals
<1>7. /\ Of(b)' = Of(b) \ {r} /\ Confirming(b)' = {} /\ Moving(b)' = {}
      /\ Removing(b)' = Removing(b)
      /\ \A q \in Of(b)' : request'[q] = request[q]
      /\ Apart(b)'
  <2>1. /\ Of(b)' = Of(b) \ {r} /\ Confirming(b)' = Confirming(b) \ {r}
        /\ Moving(b)' = Moving(b) \ {r} /\ Removing(b)' = Removing(b) \ {r}
        /\ \A q \in Of(b)' : request'[q] = request[q]
        /\ Apart(b)'
    BY <1>0, <1>3, Leaves
  <2> QED BY <1>6, <2>1
<1>8. ConfirmedOnce(b)'
  BY <1>0, <1>1, <1>5, <1>7 DEF ConfirmedOnce
<1>9. CreationTells(b)'
  BY <1>7 DEF CreationTells
<1>10. LinkTells(b)'
  <2> SUFFICES ASSUME confirmed[b] = 1
               PROVE  LinkTells(b)'
    BY <1>1 DEF LinkTells
  <2>1. /\ link[b] # NoLink /\ link[b].event = own /\ link[b].conn = request[r].conn
        /\ PresentEvents(b) \subseteq {own} /\ calendar[own].conn = link[b].conn
        /\ booking[b].status = "confirmed" => calendar[own].state = "present" /\ Removing(b) = {}
        /\ request[r].time = booking[b].time
    BY <1>0, <1>1, <1>6 DEF LinkTells
  <2>2. Found(r) <=> calendar[own].state = "present"
    BY <2>1 DEF Found
  <2>3. /\ calendar'[own].conn = calendar[own].conn
        /\ calendar'[own].state = calendar[own].state
        /\ calendar'[own].state = "present" => calendar'[own].time = booking[b].time
    BY <1>3, <2>1, <2>2
  <2> HIDE DEF own
  <2> QED BY <1>1, <1>5, <1>7, <2>1, <2>3 DEF LinkTells
<1> QED BY <1>7, <1>8, <1>9, <1>10

\* A synchronisation that gives up troubles its booking; every other step of a
\* request that has begun keeps what is shown of its own booking.
LEMMA ShownOwn ==
    ASSUME LinkAssumption, ShownInv, NEW r \in Requests, NEW b \in Bookings, request[r].id = b,
           Proceed(r) \/ RequestFails(r)
    PROVE  Shown(b)'
<1>1. TypeOK
  BY DEF ShownInv, OwnedInv
<1>2. b # Nil
  BY DEF LinkAssumption
<1>3. GivesUp(r) => trouble'[b] = Troubles
  BY <1>1 DEF GivesUp, TypeOK
<1>4. trouble' = trouble \/ GivesUp(r)
  BY DEF Proceed, RequestFails, WriteStatus, WriteSchedule, ReadConfirmed, ChooseConnection,
         CreateEvent, StoreLink, ReadLink, ReadConnection, DeleteEvent, ReadMoved, UpdateEvent, Fails
<1> SUFFICES ASSUME trouble'[b] = {}
             PROVE  Apart(b)' /\ ConfirmedOnce(b)' /\ CreationTells(b)' /\ LinkTells(b)'
  BY DEF Shown
<1>5. ~GivesUp(r)
  BY <1>3 DEF Troubles
<1>6. trouble[b] = {}
  BY <1>4, <1>5
<1>7. CASE WriteStatus(r)
  BY <1>6, <1>7, ShownWritesStatus
<1>8. CASE WriteSchedule(r)
  BY <1>6, <1>8, ShownWritesSchedule
<1>9. CASE ReadConfirmed(r) \/ ReadMoved(r)
  BY <1>6, <1>9, ShownReadsBooking
<1>10. CASE ChooseConnection(r)
  <2>1. GoesTo(r, "confirm:create")
    BY <1>1, <1>5, <1>10, ChooseDoes
  <2> QED BY <1>6, <1>10, <2>1, ShownChooses
<1>11. CASE CreateEvent(r)
  <2>1. GoesTo(r, "confirm:store")
    BY <1>1, <1>5, <1>11, CreateDoes
  <2> QED BY <1>6, <1>11, <2>1, ShownCreates
<1>12. CASE StoreLink(r)
  BY <1>6, <1>12, ShownStoresLink
<1>13. CASE ReadLink(r)
  BY <1>6, <1>13, ShownReadsLink
<1>14. CASE ReadConnection(r)
  <2>1. request'[r].id # Nil
    BY <1>1, <1>2, <1>5, <1>14, ReadConnectionDoes, RequestTyped DEF GoesTo
  <2> QED BY <1>6, <1>14, <2>1, ShownReadsConnection
<1>15. CASE DeleteEvent(r)
  BY <1>6, <1>15, ShownDeletes
<1>16. CASE UpdateEvent(r)
  BY <1>6, <1>16, ShownUpdates
<1>17. CASE RequestFails(r)
  <2>1. /\ request[r].pc \in {"status:write", "schedule:write"} /\ Return(r)
        /\ UNCHANGED <<booking, calendar, link, confirmed>>
    BY <1>5, <1>17 DEF RequestFails, Fails
  <2>2. Others(r) /\ request'[r].id = Nil
    BY <1>1, <2>1, ReturnDoes
  <2>3. r \notin Confirming(b) \cup Moving(b) \cup Removing(b)
    BY <2>1 DEF Confirming, Moving, Removing, ConfirmPCs
  <2> QED BY <1>6, <2>1, <2>2, <2>3, ShownLeaves
<1> QED BY <1>7, <1>8, <1>9, <1>10, <1>11, <1>12, <1>13, <1>14, <1>15, <1>16, <1>17 DEF Proceed

\* It does nothing to the other bookings.
LEMMA ShownRequest ==
    ASSUME LinkAssumption, ShownInv, NEW r \in Requests, NEW b \in Bookings, request[r].id = b,
           Proceed(r) \/ RequestFails(r)
    PROVE  \A d \in Bookings : Shown(d)'
<1>1. TypeOK /\ Owned
  BY DEF ShownInv, OwnedInv
<1>2. Others(r) /\ request'[r].id \in {b, Nil}
  <2>1. CASE RequestFails(r) \/ StoreLink(r)
    <3>1. Return(r)
      BY <2>1 DEF RequestFails, StoreLink
    <3> QED BY <1>1, <3>1, ReturnDoes
  <2>2. CASE WriteStatus(r)
    BY <1>1, <2>2, WriteStatusDoes DEF GoesTo
  <2>3. CASE WriteSchedule(r)
    BY <1>1, <2>3, WriteScheduleDoes DEF GoesTo
  <2>4. CASE ReadConfirmed(r) \/ ReadMoved(r)
    BY <1>1, <2>4, ReadBookingDoes DEF GoesTo
  <2>5. CASE ChooseConnection(r)
    BY <1>1, <2>5, ChooseDoes DEF GoesTo
  <2>6. CASE CreateEvent(r)
    BY <1>1, <2>6, CreateDoes DEF GoesTo
  <2>7. CASE ReadLink(r)
    BY <1>1, <2>7, ReadLinkDoes DEF GoesTo
  <2>8. CASE ReadConnection(r)
    BY <1>1, <2>8, ReadConnectionDoes DEF GoesTo
  <2>9. CASE DeleteEvent(r) \/ UpdateEvent(r)
    BY <1>1, <2>9, EventDoes
  <2> QED BY <2>1, <2>2, <2>3, <2>4, <2>5, <2>6, <2>7, <2>8, <2>9 DEF Proceed
<1>3. GivesUp(r) => /\ trouble'[b] = Troubles
                    /\ \A d \in Bookings \ {b} : trouble'[d] = trouble[d]
  BY <1>1 DEF GivesUp, TypeOK
<1>4. trouble' = trouble \/ GivesUp(r)
  BY DEF Proceed, RequestFails, WriteStatus, WriteSchedule, ReadConfirmed, ChooseConnection,
         CreateEvent, StoreLink, ReadLink, ReadConnection, DeleteEvent, ReadMoved, UpdateEvent, Fails
<1>5. \A d \in Bookings \ {b} : Shown(d)'
  <2>1. \A d \in Bookings \ {b} :
            booking'[d] = booking[d] /\ link'[d] = link[d] /\ confirmed'[d] = confirmed[d]
    <3>1. CASE WriteStatus(r)
      BY <1>1, <3>1 DEF WriteStatus, TypeOK
    <3>2. CASE WriteSchedule(r)
      BY <1>1, <3>2 DEF WriteSchedule, TypeOK
    <3>3. CASE StoreLink(r)
      BY <1>1, <3>3 DEF StoreLink, TypeOK
    <3>4. CASE UNCHANGED <<booking, link, confirmed>>
      BY <3>4
    <3> QED BY <3>1, <3>2, <3>3, <3>4
        DEF Proceed, RequestFails, ReadConfirmed, ChooseConnection, CreateEvent, ReadLink,
            ReadConnection, DeleteEvent, ReadMoved, UpdateEvent
  <2>2. \A e \in Events : \/ calendar'[e] = calendar[e]
                          \/ /\ calendar[e].state = "unused" \/ calendar[e].booking = b
                             /\ calendar'[e].booking = b
    <3>1. CASE CreateEvent(r)
      <4>1. PICK e \in Events :
                /\ calendar[e].state = "unused"
                /\ \A d \in Events \ {e} : calendar'[d] = calendar[d]
                /\ calendar'[e] = [state |-> "present", conn |-> request[r].conn,
                                   booking |-> request[r].id, time |-> request[r].time]
                /\ \/ /\ GoesTo(r, "confirm:store") /\ request'[r].time = request[r].time
                      /\ request'[r].conn = request[r].conn /\ request'[r].event = e
                      /\ trouble' = trouble
                   \/ /\ request'[r].pc = "idle" /\ request'[r].id = Nil
                      /\ GivesUp(r)
        BY <1>1, <3>1, CreateDoes
      <4>2. calendar'[e].booking = b
        BY <4>1
      <4> QED BY <4>1, <4>2
    <3>2. CASE DeleteEvent(r) \/ UpdateEvent(r)
      <4> DEFINE own == request[r].event
      <4>1. request[r].pc \in EventPCs
        BY <3>2 DEF DeleteEvent, UpdateEvent, EventPCs
      <4>2. own \in Events /\ calendar[own].booking = b
        BY <1>1, <4>1 DEF Owned, CreatedFor
      <4>3. /\ \A d \in Events \ {own} : calendar'[d] = calendar[d]
            /\ Found(r) => calendar'[own].booking = calendar[own].booking
            /\ ~Found(r) => calendar' = calendar
        BY <1>1, <3>2, <4>2, EventDoes
      <4> QED BY <4>2, <4>3
    <3>3. CASE calendar' = calendar
      BY <3>3
    <3> QED BY <3>1, <3>2, <3>3
        DEF Proceed, RequestFails, WriteStatus, WriteSchedule, ReadConfirmed, ChooseConnection,
            StoreLink, ReadLink, ReadConnection, ReadMoved
  <2>3. \A d \in Bookings \ {b} : trouble'[d] = trouble[d]
    BY <1>3, <1>4
  <2> QED BY <1>2, <2>1, <2>2, <2>3, OtherBookings
<1>6. Shown(b)'
  BY ShownOwn
<1> QED BY <1>5, <1>6

LEMMA ShownInit ==
    ASSUME LinkAssumption, Init
    PROVE  ShownInv
<1>1. OwnedInv
  BY OwnedInit
<1>2. ASSUME NEW b \in Bookings
      PROVE  Shown(b)
  <2>1. Of(b) = {}
    BY DEF Init, Idle, Of, LinkAssumption
  <2>2. Confirming(b) = {} /\ PresentEvents(b) = {}
    BY <2>1 DEF Confirming, Init, PresentEvents
  <2> QED BY <2>1, <2>2 DEF Shown, Apart, ConfirmedOnce, CreationTells, LinkTells, Init
<1> QED BY <1>1, <1>2 DEF ShownInv

LEMMA ShownNext ==
    ASSUME LinkAssumption, ShownInv, [Next]_vars
    PROVE  ShownInv'
<1>1. OwnedInv'
  BY OwnedNext DEF ShownInv
<1>2. CASE \E r \in Requests, b \in Bookings :
              \/ \E status \in Targets : CheckTransition(r, b, status)
              \/ \E time \in Times : CheckSchedule(r, b, time)
  BY <1>1, <1>2, ShownBegins DEF ShownInv
<1>3. ASSUME NEW r \in Requests, Proceed(r) \/ RequestFails(r)
      PROVE  ShownInv'
  <2>1. request[r].pc # "idle"
    BY <1>3 DEF Proceed, RequestFails, WriteStatus, WriteSchedule, ReadConfirmed, ChooseConnection,
                CreateEvent, StoreLink, ReadLink, ReadConnection, DeleteEvent, ReadMoved, UpdateEvent
  <2>2. request[r].id \in Bookings
    BY <2>1, RequestTyped DEF ShownInv, OwnedInv
  <2> QED BY <1>1, <1>3, <2>2, ShownRequest DEF ShownInv
<1>4. CASE UNCHANGED <<booking, calendar, link, request, trouble, confirmed>>
  <2>1. \A b \in Bookings : Shown(b)' <=> Shown(b)
    BY <1>4 DEF Shown, Apart, ConfirmedOnce, CreationTells, LinkTells, Moving, Removing,
                Confirming, Of, PresentEvents
  <2> QED BY <1>1, <2>1 DEF ShownInv
<1> QED BY <1>2, <1>3, <1>4 DEF Next, vars, SetUsable, SetPrimary

\* Once nothing works on a confirmed booking that no race and no failure has
\* troubled, its link names the event the calendar has of it, at its time.
THEOREM LinkShows == ASSUME LinkAssumption PROVE Spec => []LinkShowsBooking
<1>1. ShownInv => LinkShowsBooking
  <2> SUFFICES ASSUME ShownInv, NEW b \in Bookings, booking[b].status = "confirmed",
                      UnderWay(b) = {}, trouble[b] = {}
               PROVE  LET e == link[b].event IN
                      /\ PresentEvents(b) = {e}
                      /\ calendar[e].conn = link[b].conn
                      /\ calendar[e].time = booking[b].time
    BY DEF LinkShowsBooking
  <2>1. /\ Owned /\ ConfirmedOnce(b) /\ LinkTells(b)
    BY DEF ShownInv, OwnedInv, Shown
  <2>2. Of(b) = {}
    BY DEF UnderWay, Of
  <2>3. Confirming(b) = {} /\ Moving(b) = {}
    BY <2>2 DEF Confirming, Moving
  <2>4. confirmed[b] = 1
    BY <2>1 DEF ConfirmedOnce
  <2>5. /\ link[b] # NoLink /\ PresentEvents(b) \subseteq {link[b].event}
        /\ calendar[link[b].event].conn = link[b].conn
        /\ calendar[link[b].event].state = "present"
        /\ calendar[link[b].event].time = booking[b].time
    BY <2>1, <2>3, <2>4 DEF LinkTells
  <2>6. link[b].event \in PresentEvents(b)
    BY <2>1, <2>5 DEF Owned, CreatedFor, PresentEvents
  <2> QED BY <2>5, <2>6
<1> QED BY <1>1, ShownInit, ShownNext, PTL DEF Spec
==============================================================================
