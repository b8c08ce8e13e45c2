---------------------------- MODULE MCBookingSlots ----------------------------
(* A small instance of BookingSlots and of the slots offered, on a calendar of  *)
(* a few instants.                                                             *)
EXTENDS SlotOffers, TLC

CONSTANTS
    Alone,  \* a booking that gets an empty calendar, where requests about it overlap
    Served  \* the handler that serves, one at a time, the requests about the others

Used == {b \in Bookings : Exists(b)} \cup {handler[h].id : h \in Handlers}

\* One at a time: a request, or a change of a block, when no other is at work.
MCSerial ==
    /\ \A h \in Handlers \ {Served} : handler[h] = Idle
    /\ Step(Served)
    /\ Alone \notin Used'

\* Any number at a time, all about one booking, that stays where it is.
MCRaces ==
    /\ Used \subseteq {Alone, NoBooking}
    /\ \E h \in Handlers : Step(h) /\ handler'[h].window = NoWindow
    /\ Used' \subseteq {Alone, NoBooking}

\* The booking that comes first decides of which kind a behaviour is.
MCSpec == Init /\ [][MCSerial \/ MCRaces]_vars

MCSymmetry == Permutations(Bookings \ {Alone}) \cup Permutations(Handlers \ {Served})

W(from, to) == [from |-> from, to |-> to]
Plain == [hours |-> W(0, 4), rules |-> {}, exception |-> [opens |-> TRUE, window |-> NoWindow],
          cutoff |-> 0, minimum |-> 1, minimumRules |-> {}, duration |-> 1]

\* Working hours; rules that touch, nest and leave a gap; a day opened further, from the
\* start of a rule or between two; a day closed, and closed in part; a notice and
\* minimum durations.
MCSurfaces ==
    {Plain,
     [Plain EXCEPT !.rules = {W(0, 1), W(1, 2)}, !.duration = 2],
     [Plain EXCEPT !.rules = {W(0, 4), W(1, 2)}, !.duration = 2],
     [Plain EXCEPT !.rules = {W(0, 1), W(3, 4)}, !.exception = [opens |-> TRUE, window |-> W(0, 2)],
                   !.cutoff = 3],
     [Plain EXCEPT !.rules = {W(1, 2), W(3, 4)}, !.exception = [opens |-> TRUE, window |-> W(2, 3)],
                   !.duration = 2, !.cutoff = 1],
     [Plain EXCEPT !.exception = [opens |-> FALSE, window |-> W(2, 3)]],
     [Plain EXCEPT !.exception = [opens |-> FALSE, window |-> NoWindow]],
     [Plain EXCEPT !.minimumRules = {[from |-> 0, to |-> 2, duration |-> 2]}]}
==============================================================================
