---------------------------- MODULE BookingStatus ----------------------------
(***************************************************************************)
(* The status vocabulary of the booking table and the transition table     *)
(* that updateBookingStatus consults (packages/booking).                   *)
(***************************************************************************)

\* The values of the booking_status enum.
BookingStatuses ==
    {"pending", "awaiting_payment", "confirmed", "in_progress", "completed",
     "cancelled", "rejected", "no_show", "disputed"}

\* The values of the booking payment_status column the modelled code writes.
PaymentStatuses == {"unpaid", "paid", "failed", "refunded"}

\* VALID_TRANSITIONS: the statuses an update may choose from each status.
ValidTransitions ==
    [pending          |-> {"awaiting_payment", "confirmed", "rejected", "cancelled"},
     awaiting_payment |-> {"confirmed", "cancelled"},
     confirmed        |-> {"in_progress", "cancelled"},
     in_progress      |-> {"completed", "cancelled"},
     completed        |-> {},
     cancelled        |-> {},
     rejected         |-> {},
     no_show          |-> {},
     disputed         |-> {}]

CanBecome(from, to) == to \in ValidTransitions[from]

\* Statuses requestCancellation and updateBookingSchedule accept.
OpenStatuses == {"pending", "awaiting_payment", "confirmed"}

\* blockingBookingStatuses: the bookings that occupy their time slot.
BlockingStatuses == OpenStatuses \cup {"in_progress"}
==============================================================================
