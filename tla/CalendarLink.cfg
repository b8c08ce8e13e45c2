\* Two requests at a time on one booking, one failing call.
SPECIFICATION FairSpec
CONSTANTS
    Bookings = {b1}
    Connections = {c1, c2}
    Events = {e1, e2}
    Requests = {r1, r2}
    Nil = Nil
    MaxTime = 1
    MaxDisturbances = 1
    Targets = {"awaiting_payment", "confirmed", "cancelled"}
INVARIANTS LinkShowsBooking EventsAreConfirmations
PROPERTIES CancelledLeavesCalendar
\* Once the booking is closed and nothing is under way, nothing happens.
CHECK_DEADLOCK FALSE
