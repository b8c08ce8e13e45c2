------------------------------ MODULE SlotOffers ------------------------------
(***************************************************************************)
(* The public booking surface of the listing of BookingSlots: the slots of *)
(* a day that getPublicBookingSurface offers to a customer, computed from  *)
(* the working hours, the availability rules of the weekday, the date's    *)
(* exception, the notice and minimum durations, and from the rows that     *)
(* BookingSlots changes. It writes nothing; what it offers is booked by    *)
(* createBooking, which looks at the rows alone.                           *)
(***************************************************************************)
EXTENDS BookingSlots, SequencesExt

CONSTANTS
    Surfaces,  \* what surfaces are computed from: hours, rules, exception, cutoff of the
               \* notice, minimum duration, rules for minimum durations, duration asked for
    SlotStep,  \* the distance of the starts of two slots
    DayEnd     \* the last instant of the day, its 1440th minute

\* What the checks of the working hours, rules and exceptions tables let in.
DayWindows == {w \in [from : 0..DayEnd, to : 0..DayEnd] : w.from < w.to}

\* An exception opens or closes a window, or (NoWindow) the whole day; a date without
\* an exception is one with an exception that opens NoWindow, which changes nothing.
ASSUME SurfaceAssumption ==
    /\ SlotStep \in Nat \ {0}
    /\ DayEnd \in Nat
    /\ \A s \in Surfaces :
          /\ s.hours \in DayWindows
          /\ s.rules \in SUBSET DayWindows
          /\ s.exception.opens \in BOOLEAN
          /\ s.exception.window \in DayWindows \cup {NoWindow}
          /\ s.duration \in Nat \ {0}
          /\ s.cutoff \in Int
          /\ s.minimum \in Nat
          /\ IsFiniteSet(s.minimumRules) /\ \A r \in s.minimumRules : r.duration \in Nat

Later(a, b) == IF a <= b THEN b ELSE a

\* The windows sorted by their starts (those that start together in any order).
SortedByStart(windows) ==
    LET Positions == 1..Cardinality(windows)
    IN CHOOSE q \in [Positions -> windows] :
          /\ ToSet(q) = windows
          /\ \A i, j \in Positions : i < j => q[i].from <= q[j].from

\* A window joins the last one merged if it reaches it.
JoinWindow(merged, w) ==
    IF merged # <<>> /\ w.from <= Last(merged).to
    THEN [merged EXCEPT ![Len(merged)].to = Later(@, w.to)]
    ELSE Append(merged, w)

\* mergeMinuteWindows: the windows joined in the order of their starts.
MergeSorted(q) ==
    LET merged[n \in 0..Len(q)] == IF n = 0 THEN <<>> ELSE JoinWindow(merged[n - 1], q[n])
    IN merged[Len(q)]

MergeWindows(windows) == ToSet(MergeSorted(SortedByStart(windows)))

\* subtractMinuteWindow: what is left of each window before and after x.
SubtractWindow(windows, x) ==
    {w \in windows : ~Overlap(w, x)}
        \cup {[from |-> w.from, to |-> x.from] : w \in {w \in windows : Overlap(w, x) /\ w.from < x.from}}
        \cup {[from |-> x.to, to |-> w.to] : w \in {w \in windows : Overlap(w, x) /\ x.to < w.to}}

\* resolveAvailabilityWindows
OpenWindows(s) ==
    LET recurring == IF s.rules = {} THEN {s.hours} ELSE MergeWindows(s.rules)
        x == s.exception
    IN CASE x.opens /\ x.window = NoWindow -> recurring
         [] x.opens /\ x.window # NoWindow -> MergeWindows(recurring \cup {x.window})
         [] ~x.opens /\ x.window = NoWindow -> {}
         [] OTHER -> SubtractWindow(recurring, x.window)

\* The slots of buildRawSlots: steps from the start of each window, as far as the
\* duration fits.
RawSlots(s) ==
    UNION {{[from |-> t, to |-> t + s.duration] :
                t \in {t \in w.from..(w.to - s.duration) : (t - w.from) % SlotStep = 0}} :
           w \in OpenWindows(s)}

\* resolveRequiredMinimumDuration: the largest of the listing's minimum and those of the
\* rules in force at the start of the slot.
RequiredMinimum(s, slot) ==
    Max({s.minimum} \cup {r.duration : r \in {r \in s.minimumRules :
                                                r.from <= slot.from /\ slot.from < r.to}})

\* Fault: a booking in progress does not make its slot busy.
BusyIfOpen(slot) ==
    \/ \E b \in Bookings : booking[b].status \in OpenStatuses /\ Overlap(booking[b].window, slot)
    \/ OverlapsBlock(slot)

\* findBusyWindow over the bookings in a blocking status and the blocks. The bounds
\* of the day in the queries leave out only what overlaps no slot of the day.
Busy(slot) ==
    \/ \E b \in Bookings : booking[b].status \in BlockingStatuses /\ Overlap(booking[b].window, slot)
    \/ OverlapsBlock(slot)

SlotStatus(s, slot) ==
    IF Busy(slot) THEN "blocked"
    ELSE IF slot.from < s.cutoff THEN "notice_too_short"
    ELSE IF s.duration < RequiredMinimum(s, slot) THEN "minimum_duration_not_met"
    ELSE "available"

------------------------------------------------------------------------------
(* What is offered, against what is open and what createBooking accepts.   *)

\* The instants at which the listing is open, rule by rule.
Open(s) ==
    LET Instants(w) == {t \in 0..DayEnd : During(t, w)}
        recurring == IF s.rules = {} THEN Instants(s.hours) ELSE UNION {Instants(w) : w \in s.rules}
    IN IF s.exception.opens THEN recurring \cup Instants(s.exception.window)
       ELSE IF s.exception.window = NoWindow THEN {}
       ELSE recurring \ Instants(s.exception.window)

\* The slots of the duration asked for that are open throughout and start at a step
\* from the opening before them.
OpenSlots(s) ==
    LET Times == 0..DayEnd
        opened == Open(s)
    IN {slot \in [from : Times, to : Times] :
          /\ slot.to = slot.from + s.duration
          /\ slot.from..(slot.to - 1) \subseteq opened
          /\ \E t \in opened : /\ t <= slot.from /\ t - 1 \notin opened
                               /\ t..slot.from \subseteq opened
                               /\ (slot.from - t) % SlotStep = 0}

Offered == [s \in Surfaces |-> RawSlots(s)]
Expected == [s \in Surfaces |-> OpenSlots(s)]

\* buildRawSlots yields the slots that are open throughout, and no others.
OffersAreOpen == Offered = Expected

\* What is available createBooking accepts, unless a booking that is over and not
\* cancelled lies on it, starts after the notice and lasts as long as every rule in force
\* at its start demands; and what meets all this is available.
OffersAreAccepted ==
    \A s \in Surfaces : \A slot \in Offered[s] :
        LET available == SlotStatus(s, slot) = "available"
            accepted == ~TakenForNew(slot) /\ ~OverlapsBlock(slot)
            over == \E b \in Bookings :
                       /\ booking[b].status \in {"completed", "rejected", "no_show", "disputed"}
                       /\ Overlap(booking[b].window, slot)
            inTime == s.cutoff <= slot.from
            longEnough == /\ s.minimum <= s.duration
                          /\ \A r \in s.minimumRules :
                                During(slot.from, r) => r.duration <= s.duration
        IN /\ available => (accepted \/ over) /\ inTime /\ longEnough
           /\ accepted /\ inTime /\ longEnough => available

\* A slot is offered only if the listing is open throughout, and createBooking accepts
\* it, unless a booking that is over and not cancelled lies on it; and whatever open
\* slot createBooking would accept is offered, unless it starts too soon or is too
\* short. (overlap.ts:6 says that the four statuses "block new bookings"; createBooking
\* refuses the others too.)
OffersAreHonoured == OffersAreOpen /\ OffersAreAccepted
==============================================================================
