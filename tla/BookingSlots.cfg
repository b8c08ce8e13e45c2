\* Either two bookings and a block on a calendar of two hours, one request at a time; or
\* one booking, and three requests about it at a time.
SPECIFICATION MCSpec
CONSTANTS
    Bookings = {b1, b2, b3}
    Blocks = {k1}
    Horizon = 2
    Handlers = {h1, h2, h3}
    Alone = b3
    Served = h1
    NoBooking = NoBooking
    Surfaces <- MCSurfaces
    SlotStep = 2
    DayEnd = 4
SYMMETRY MCSymmetry
INVARIANTS NoDoubleBooking OffersAreHonoured StatusesHavePaths
PROPERTIES PlacedOnFreeTime
