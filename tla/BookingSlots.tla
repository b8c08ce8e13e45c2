----------------------------- MODULE BookingSlots -----------------------------
(***************************************************************************)
(* The calendar of one listing: creating bookings, moving them, changing   *)
(* their status, and blocking time by hand. The handlers read, check and   *)
(* write in separate statements; createBooking does so in a transaction    *)
(* whose isolation level, READ COMMITTED, lets every statement see what    *)
(* others have committed and locks nothing it only reads.                  *)
(***************************************************************************)
EXTENDS Naturals, BookingStatus

CONSTANTS
    Bookings,  \* booking ids
    Blocks,    \* availability block ids
    Horizon,   \* the last instant of the calendar
    Handlers,  \* requests the server works on at the same time
    NoBooking  \* the booking of a handler that has none

ASSUME SlotAssumption == Horizon \in Nat \ {0} /\ NoBooking \notin Bookings

\* Time windows, [from, to). Nothing rejects a booking that ends before it
\* starts; a check constraint rejects such a block.
Windows == [from : 0..Horizon, to : 0..Horizon]
BlockWindows == {w \in Windows : w.from < w.to}

\* detectOverlap, and the two comparisons of every overlap query.
Overlap(a, b) == a.from < b.to /\ a.to > b.from

NoWindow == [from |-> 0, to |-> 0]

VARIABLES
    booking,  \* the booking rows: status ("absent" before the insert), window
    block,    \* the availability blocks: the window, or NoWindow
    handler,  \* each request: pc, booking, target status, window
    held      \* every status a booking has held

vars == <<booking, block, handler, held>>

Exists(b) == booking[b].status # "absent"
OverlapsBlock(w) == \E k \in Blocks : block[k] # NoWindow /\ Overlap(block[k], w)

Idle == [pc |-> "idle", id |-> NoBooking, status |-> "absent", window |-> NoWindow]

Init ==
    /\ booking = [b \in Bookings |-> [status |-> "absent", window |-> NoWindow]]
    /\ block = [k \in Blocks |-> NoWindow]
    /\ handler = [h \in Handlers |-> Idle]
    /\ held = [b \in Bookings |-> {}]

Goto(h, pc) == handler' = [handler EXCEPT ![h].pc = pc]
Done(h) == handler' = [handler EXCEPT ![h] = Idle]

------------------------------------------------------------------------------
(* createBooking                                                           *)

\* checkSlotAvailable, first query: any overlapping booking that is not
\* cancelled makes the slot unavailable.
TakenForNew(w) ==
    \E b \in Bookings : /\ booking[b].status \notin {"absent", "cancelled"}
                        /\ Overlap(booking[b].window, w)

CheckNewSlot(h, b, w) ==
    /\ handler[h].pc = "idle"
    /\ ~Exists(b)
    /\ ~TakenForNew(w)
    /\ handler' = [handler EXCEPT ![h] =
           [pc |-> "new:blocks", id |-> b, status |-> "pending", window |-> w]]
    /\ UNCHANGED <<booking, block, held>>

\* checkSlotAvailable, second query: an active block.
CheckNewBlocks(h) ==
    /\ handler[h].pc = "new:blocks"
    /\ ~OverlapsBlock(handler[h].window)
    /\ Goto(h, "new:insert")
    /\ UNCHANGED <<booking, block, held>>

\* The booking is inserted and the transaction commits.
InsertBooking(h) ==
    LET b == handler[h].id IN
    /\ handler[h].pc = "new:insert"
    /\ ~Exists(b)
    /\ booking' = [booking EXCEPT ![b] = [status |-> "pending", window |-> handler[h].window]]
    /\ held' = [held EXCEPT ![b] = {"pending"}]
    /\ Done(h)
    /\ UNCHANGED block

------------------------------------------------------------------------------
(* updateBookingStatus                                                     *)

\* Fault: the transition is checked against a status another request has yet to write.
CheckAgainstPromised(h, b, target) ==
    /\ handler[h].pc = "idle"
    /\ Exists(b)
    /\ \/ CanBecome(booking[b].status, target)
       \/ \E g \in Handlers : /\ handler[g].pc = "status:write" /\ handler[g].id = b
                              /\ CanBecome(handler[g].status, target)
    /\ handler' = [handler EXCEPT ![h].pc = "status:write", ![h].id = b,
                                  ![h].status = target]
    /\ UNCHANGED <<booking, block, held>>

CheckTransition(h, b, target) ==
    /\ handler[h].pc = "idle"
    /\ Exists(b)
    /\ CanBecome(booking[b].status, target)
    /\ handler' = [handler EXCEPT ![h].pc = "status:write", ![h].id = b,
                                  ![h].status = target]
    /\ UNCHANGED <<booking, block, held>>

\* The status is written by booking id only.
WriteStatus(h) ==
    LET b == handler[h].id IN
    /\ handler[h].pc = "status:write"
    /\ booking' = [booking EXCEPT ![b].status = handler[h].status]
    /\ held' = [held EXCEPT ![b] = @ \cup {handler[h].status}]
    /\ Done(h)
    /\ UNCHANGED block

------------------------------------------------------------------------------
(* updateBookingSchedule                                                   *)

ReadSchedule(h, b, w) ==
    /\ handler[h].pc = "idle"
    /\ Exists(b)
    /\ booking[b].status \in OpenStatuses
    /\ handler' = [handler EXCEPT ![h].pc = "move:overlap", ![h].id = b, ![h].window = w]
    /\ UNCHANGED <<booking, block, held>>

\* Fault: a booking in progress is not counted as blocking.
TakenForMoveIfOpen(b, w) ==
    \E c \in Bookings \ {b} : /\ booking[c].status \in OpenStatuses
                              /\ Overlap(booking[c].window, w)

\* assertNoOverlap: the other bookings in a blocking status.
TakenForMove(b, w) ==
    \E c \in Bookings \ {b} : /\ booking[c].status \in BlockingStatuses
                              /\ Overlap(booking[c].window, w)

CheckMoveOverlap(h) ==
    /\ handler[h].pc = "move:overlap"
    /\ ~TakenForMove(handler[h].id, handler[h].window)
    /\ Goto(h, "move:blocks")
    /\ UNCHANGED <<booking, block, held>>

\* Fault: the blocks are not checked.
SkipMoveBlocks(h) ==
    /\ handler[h].pc = "move:blocks"
    /\ Goto(h, "move:write")
    /\ UNCHANGED <<booking, block, held>>

\* assertNoAvailabilityBlockOverlap
CheckMoveBlocks(h) ==
    /\ handler[h].pc = "move:blocks"
    /\ ~OverlapsBlock(handler[h].window)
    /\ Goto(h, "move:write")
    /\ UNCHANGED <<booking, block, held>>

\* The window is written by booking id only.
WriteSchedule(h) ==
    /\ handler[h].pc = "move:write"
    /\ booking' = [booking EXCEPT ![handler[h].id].window = handler[h].window]
    /\ Done(h)
    /\ UNCHANGED <<block, held>>

------------------------------------------------------------------------------
(* Availability blocks, and requests that fail                             *)

\* createAvailabilityBlock looks at no booking.
CreateBlock(h, k, w) ==
    /\ handler[h].pc = "idle"
    /\ block[k] = NoWindow
    /\ block' = [block EXCEPT ![k] = w]
    /\ UNCHANGED <<booking, handler, held>>

DeleteBlock(h, k) ==
    /\ handler[h].pc = "idle"
    /\ block[k] # NoWindow
    /\ block' = [block EXCEPT ![k] = NoWindow]
    /\ UNCHANGED <<booking, handler, held>>

\* A check refuses, a statement throws or the process dies: what was not
\* written is not written, a transaction rolls back.
Abandon(h) ==
    /\ handler[h].pc # "idle"
    /\ Done(h)
    /\ UNCHANGED <<booking, block, held>>

Step(h) ==
    \/ \E b \in Bookings, w \in Windows : CheckNewSlot(h, b, w) \/ ReadSchedule(h, b, w)
    \/ CheckNewBlocks(h)
    \/ InsertBooking(h)
    \/ \E b \in Bookings, target \in BookingStatuses : CheckTransition(h, b, target)
    \/ WriteStatus(h)
    \/ CheckMoveOverlap(h)
    \/ CheckMoveBlocks(h)
    \/ WriteSchedule(h)
    \/ \E k \in Blocks, w \in BlockWindows : CreateBlock(h, k, w)
    \/ \E k \in Blocks : DeleteBlock(h, k)
    \/ Abandon(h)

Next == \E h \in Handlers : Step(h)

Spec == Init /\ [][Next]_vars

------------------------------------------------------------------------------
(* Properties                                                              *)

HandlerPCs == {"idle", "new:blocks", "new:insert", "status:write",
               "move:overlap", "move:blocks", "move:write"}

TypeOK ==
    /\ booking \in [Bookings -> [status : BookingStatuses \cup {"absent"},
                                 window : Windows]]
    /\ block \in [Blocks -> BlockWindows \cup {NoWindow}]
    /\ handler \in [Handlers -> [pc : HandlerPCs, id : Bookings \cup {NoBooking},
                                 status : BookingStatuses \cup {"absent"},
                                 window : Windows]]
    /\ held \in [Bookings -> SUBSET BookingStatuses]

\* The instants of a window.
During(t, w) == w.from <= t /\ t < w.to

\* Two bookings that occupy their slot never share an instant. The checks of
\* createBooking and updateBookingSchedule, different as they are, guarantee it
\* as long as requests are served one at a time; docs/ADR/010 (line 48) says
\* that the database guarantees it always.
NoDoubleBooking ==
    \A a, b \in Bookings :
        (a # b /\ booking[a].status \in BlockingStatuses
               /\ booking[b].status \in BlockingStatuses)
            => ~\E t \in 0..Horizon : /\ During(t, booking[a].window)
                                     /\ During(t, booking[b].window)

\* Served one at a time, no request puts a booking on a block or on a slot that
\* another booking occupies, by creating it or by moving it (a block may be put
\* on a booking, and statuses may change under it).
PlacedOnFreeTime ==
    [][\A b \in Bookings :
          booking'[b].window # booking[b].window =>
              \A t \in 0..Horizon : During(t, booking'[b].window) =>
                  /\ \A k \in Blocks : ~During(t, block[k])
                  /\ \A c \in Bookings \ {b} :
                         booking[c].status \in BlockingStatuses => ~During(t, booking[c].window)]_vars

\* Concurrent requests lose each other's updates but invent none. A write may find the
\* booking in another status than its check did, and bring back one that was final;
\* still, whatever status a booking has ever held follows, by VALID_TRANSITIONS, from
\* one it held as well, down to "pending", and a completed booking was once confirmed
\* and once in progress (updateBookingStatus checks a status that was written, never
\* one that another request is about to write).
StatusesHavePaths ==
    \A b \in Bookings :
        /\ \A s \in held[b] \ {"pending"} : \E r \in held[b] : CanBecome(r, s)
        /\ "completed" \in held[b] => {"pending", "confirmed", "in_progress"} \subseteq held[b]
        /\ Exists(b) => booking[b].status \in held[b]
==============================================================================
