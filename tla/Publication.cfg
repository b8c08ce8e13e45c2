\* Three requests at a time on one listing.
SPECIFICATION Spec
CONSTANTS
    Listings = {l1}
    Channels = {c1}
    Rows = {k1, k2}
    Sources = {"payment"}
    Requests = {r1, r2, r3}
    Nil = Nil
INVARIANTS ListingShowsPublications OfferedOncePerChannel OnboardingShowsReadiness
SYMMETRY MCSymmetry
