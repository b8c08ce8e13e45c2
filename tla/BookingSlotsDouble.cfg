\* Two requests at a time.
SPECIFICATION Spec
CONSTANTS
    Bookings = {b1, b2}
    Blocks = {k1}
    Horizon = 1
    Handlers = {h1, h2}
    Alone = Alone
    Served = h1
    NoBooking = NoBooking
    Surfaces <- MCSurfaces
    SlotStep = 2
    DayEnd = 4
INVARIANTS NoDoubleBooking
