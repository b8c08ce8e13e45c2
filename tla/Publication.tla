------------------------------ MODULE Publication ------------------------------
(***************************************************************************)
(* Publishing listings, and the onboarding row that is projected from it.  *)
(* Publishing activates the listing and then its publication row, which it *)
(* looks up and updates or inserts; unpublishing deactivates the listing   *)
(* and then all its rows. Both, and whatever else makes the organization   *)
(* ready, end in an event whose handler reads all the facts again, each in *)
(* a query of its own, and overwrites the onboarding row.                   *)
(***************************************************************************)
EXTENDS Naturals, FiniteSets

CONSTANTS
    Listings,   \* listings of one organization
    Channels,   \* channel types; the channel id is always null
    Rows,       \* ids of publication rows
    Sources,    \* what else onboarding looks at: the payment config, the calendars
    Requests,   \* requests the server works on at the same time
    Nil         \* no listing, no channel, no row

ASSUME PublicationAssumption ==
    /\ Nil \notin Listings \cup Channels \cup Rows
    /\ "published" \notin Sources

VARIABLES
    listing,      \* the status of each listing
    publication,  \* listing_publication rows: listing, channel, active
    ready,        \* the sources that are ready
    onboarding,   \* the organization_onboarding row: the facts it states
    request,      \* each request: pc, what it does, what it has found and read
    crossed,      \* listings whose status and rows may disagree
    doubled,      \* channels of listings that may have two rows
    stale         \* whether the onboarding row may be out of date

vars == <<listing, publication, ready, onboarding, request, crossed, doubled, stale>>
historyVars == <<crossed, doubled, stale>>

Facts == Sources \cup {"published"}

\* alone: no opposite request on the listing; late: the row was written since it reads.
Idle == [pc |-> "idle", kind |-> "status", listing |-> Nil, channel |-> Nil, row |-> Nil,
         unread |-> {}, facts |-> {}, alone |-> TRUE, late |-> FALSE]
Recalculation(kind) == [Idle EXCEPT !.pc = "read", !.kind = kind, !.unread = Facts]
NoRow == [listing |-> Nil, channel |-> Nil, active |-> FALSE]

Init ==
    /\ listing = [l \in Listings |-> "draft"]
    /\ publication = [k \in Rows |-> NoRow]
    /\ ready = {}
    /\ onboarding = [exists |-> FALSE, facts |-> {}]
    /\ request = [r \in Requests |-> Idle]
    /\ crossed = {} /\ doubled = {} /\ stale = FALSE

Goto(r, pc) == request' = [request EXCEPT ![r].pc = pc]

RowsOf(l, c) == {k \in Rows : publication[k].listing = l /\ publication[k].channel = c}
FreeRows == {k \in Rows : publication[k] = NoRow}
ActiveRows == {k \in Rows : publication[k].active}

\* Requests that change listing l, and have not yet changed all of it.
Changing(l) == {r \in Requests : request[r].listing = l /\ request[r].pc # "read"}

\* Request r begins to publish or to unpublish listing l.
Begin(r, kind, l, c) ==
    LET others == {q \in Changing(l) : request[q].kind # kind} IN
    /\ request[r].pc = "idle"
    /\ request' = [q \in Requests |->
           IF q = r THEN [Idle EXCEPT !.pc = "listing", !.kind = kind, !.listing = l,
                                      !.channel = c, !.alone = others = {}]
           ELSE IF q \in others THEN [request[q] EXCEPT !.alone = FALSE] ELSE request[q]]

\* Request r has changed the rows of its listing and emits its event: the handler
\* begins to read.
Changed(r) ==
    /\ request' = [request EXCEPT ![r] = Recalculation("event")]
    /\ crossed' = IF request[r].alone THEN crossed \ {request[r].listing}
                                      ELSE crossed \cup {request[r].listing}

------------------------------------------------------------------------------
(* applyPublishListingState and applyUnpublishListingState                 *)

\* The listing is found.
Publish(r, l, c) ==
    /\ Begin(r, "publish", l, c)
    /\ UNCHANGED <<listing, publication, ready, onboarding, historyVars>>

Unpublish(r, l) ==
    /\ Begin(r, "unpublish", l, Nil)
    /\ UNCHANGED <<listing, publication, ready, onboarding, historyVars>>

\* The listing becomes active or inactive.
SetListing(r) ==
    LET publishes == request[r].kind = "publish" IN
    /\ request[r].pc = "listing"
    /\ listing' = [listing EXCEPT ![request[r].listing] =
                       IF publishes THEN "active" ELSE "inactive"]
    /\ Goto(r, IF publishes THEN "find" ELSE "hide")
    /\ UNCHANGED <<publication, ready, onboarding, historyVars>>

\* The row of the channel is looked up; without an order, any one is found.
FindRow(r) ==
    LET l == request[r].listing
        c == request[r].channel
    IN
    /\ request[r].pc = "find"
    /\ \E k \in IF RowsOf(l, c) = {} THEN {Nil} ELSE RowsOf(l, c) :
          request' = [request EXCEPT ![r].pc = "write", ![r].row = k]
    /\ doubled' = IF \E q \in Requests \ {r} : /\ request[q].pc = "write"
                                               /\ request[q].row = Nil
                                               /\ request[q].listing = l
                                               /\ request[q].channel = c
                  THEN doubled \cup {<<l, c>>} ELSE doubled
    /\ UNCHANGED <<listing, publication, ready, onboarding, crossed, stale>>

\* Row k becomes the active publication that request r asks for.
Activate(r, k) ==
    publication' = [publication EXCEPT ![k] = [listing |-> request[r].listing,
                                               channel |-> request[r].channel, active |-> TRUE]]

\* Fault: an active row is inserted whatever was found.
InsertRow(r) ==
    /\ request[r].pc = "write"
    /\ \E k \in FreeRows : Activate(r, k)
    /\ Changed(r)
    /\ UNCHANGED <<listing, ready, onboarding, doubled, stale>>

\* The row becomes active, or an active one is inserted: no index excludes a second
\* row, as the channel id in the index is null.
WriteRow(r) ==
    /\ request[r].pc = "write"
    /\ \E k \in IF request[r].row = Nil THEN FreeRows ELSE {request[r].row} : Activate(r, k)
    /\ Changed(r)
    /\ UNCHANGED <<listing, ready, onboarding, doubled, stale>>

\* Fault: one row of the listing becomes inactive.
HideOneRow(r) ==
    LET l == request[r].listing IN
    /\ request[r].pc = "hide"
    /\ \E k \in Rows :
          /\ k \in ActiveRows /\ publication[k].listing = l
          /\ publication' = [publication EXCEPT ![k].active = FALSE]
    /\ Changed(r)
    /\ UNCHANGED <<listing, ready, onboarding, doubled, stale>>

\* All rows of the listing, of every channel, become inactive.
HideRows(r) ==
    LET l == request[r].listing IN
    /\ request[r].pc = "hide"
    /\ publication' = [k \in Rows |-> [publication[k] EXCEPT
                           !.active = @ /\ publication[k].listing # l]]
    /\ Changed(r)
    /\ UNCHANGED <<listing, ready, onboarding, doubled, stale>>

------------------------------------------------------------------------------
(* The other sources, and recalculateOrganizationOnboarding                *)

\* A payment config is connected or validated, a calendar connected, enabled or
\* disabled, each in one statement (see PaymentWebhook and CalendarSync), and
\* its event is emitted.
ChangeSource(r, source) ==
    /\ request[r].pc = "idle"
    /\ ready' = IF source \in ready THEN ready \ {source} ELSE ready \cup {source}
    /\ request' = [request EXCEPT ![r] = Recalculation("event")]
    /\ UNCHANGED <<listing, publication, onboarding, historyVars>>

\* getOrganizationOnboardingStatus recalculates when there is no row.
ReadStatus(r) ==
    /\ request[r].pc = "idle"
    /\ ~onboarding.exists
    /\ request' = [request EXCEPT ![r] = Recalculation("status")]
    /\ UNCHANGED <<listing, publication, ready, onboarding, historyVars>>

\* What is the case now.
Holding == ready \cup (IF ActiveRows = {} THEN {} ELSE {"published"})

\* The queries run side by side: they may read in any order.
ReadFact(r) ==
    /\ request[r].pc = "read"
    /\ \E fact \in request[r].unread :
          request' = [request EXCEPT ![r].unread = @ \ {fact},
                                     ![r].facts = @ \cup (Holding \cap {fact})]
    /\ UNCHANGED <<listing, publication, ready, onboarding, historyVars>>

\* Others that read while something happens to the row know too little.
Late(r) == [q \in Requests |->
                IF q = r THEN Idle
                ELSE IF request[q].pc = "read" THEN [request[q] EXCEPT !.late = TRUE]
                ELSE request[q]]

\* Fault: a row that is complete stays so.
UpsertIncomplete(r) ==
    /\ request[r].pc = "read"
    /\ request[r].unread = {}
    /\ onboarding' = IF onboarding.facts = Facts THEN onboarding
                     ELSE [exists |-> TRUE, facts |-> request[r].facts]
    /\ stale' = request[r].late
    /\ request' = Late(r)
    /\ UNCHANGED <<listing, publication, ready, crossed, doubled>>

\* The row is inserted, or everything in it replaced; it is complete when all facts
\* hold.
Upsert(r) ==
    /\ request[r].pc = "read"
    /\ request[r].unread = {}
    /\ onboarding' = [exists |-> TRUE, facts |-> request[r].facts]
    /\ stale' = request[r].late
    /\ request' = Late(r)
    /\ UNCHANGED <<listing, publication, ready, crossed, doubled>>

\* A statement throws, or the process dies. Nothing is compensated: a step whose
\* statement throws has not completed, and what an event's handler throws is lost.
Fails(r) ==
    /\ request[r].pc # "idle"
    /\ request' = Late(r)
    /\ crossed' = IF request[r].pc \in {"find", "write", "hide"}
                  THEN crossed \cup {request[r].listing} ELSE crossed
    /\ stale' = (stale \/ request[r].kind # "status")
    /\ UNCHANGED <<listing, publication, ready, onboarding, doubled>>

Next ==
    \E r \in Requests :
        \/ \E l \in Listings, c \in Channels : Publish(r, l, c)
        \/ \E l \in Listings : Unpublish(r, l)
        \/ SetListing(r)
        \/ FindRow(r)
        \/ WriteRow(r)
        \/ HideRows(r)
        \/ \E source \in Sources : ChangeSource(r, source)
        \/ ReadStatus(r)
        \/ ReadFact(r)
        \/ Upsert(r)
        \/ Fails(r)

Spec == Init /\ [][Next]_vars

------------------------------------------------------------------------------
(* Properties                                                              *)

\* Every row and request keeps its type.
TypeOK ==
    /\ listing \in [Listings -> {"draft", "active", "inactive"}]
    /\ publication \in [Rows -> [listing : Listings \cup {Nil}, channel : Channels \cup {Nil},
                                 active : BOOLEAN]]
    /\ ready \subseteq Sources
    /\ onboarding \in [exists : BOOLEAN, facts : SUBSET Facts]
    /\ request \in [Requests -> [pc : {"idle", "listing", "find", "write", "hide", "read"},
                                 kind : {"publish", "unpublish", "event", "status"},
                                 listing : Listings \cup {Nil}, channel : Channels \cup {Nil},
                                 row : Rows \cup {Nil}, unread : SUBSET Facts,
                                 facts : SUBSET Facts, alone : BOOLEAN, late : BOOLEAN]]
    /\ crossed \subseteq Listings /\ doubled \subseteq Listings \X Channels
    /\ stale \in BOOLEAN

\* Once nothing changes a listing any more, it is active exactly when one of its
\* publications is, unless the last publishing or unpublishing overlapped with an
\* opposite one or failed half way. Requests of one kind may overlap, and a
\* listing that was left in disagreement is repaired by the next request.
ListingShowsPublications ==
    \A l \in Listings :
        (Changing(l) = {} /\ l \notin crossed) =>
            (listing[l] = "active" <=> \E k \in ActiveRows : publication[k].listing = l)

\* A listing is offered once per channel, however often it is published, unless two
\* requests looked for the row before either had inserted it.
OfferedOncePerChannel ==
    \A l \in Listings, c \in Channels :
        <<l, c>> \notin doubled => Cardinality(RowsOf(l, c)) <= 1

\* When every change has been followed up, the onboarding row states what is the
\* case, unless the last one to write it had begun to read before another wrote
\* or failed; the next change repairs it.
OnboardingShowsReadiness ==
    (/\ onboarding.exists /\ ~stale
     /\ \A r \in Requests : request[r].pc = "idle" \/ request[r].kind = "status")
        => onboarding.facts = Holding
==============================================================================
