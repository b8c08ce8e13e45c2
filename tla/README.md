# A verification development for the travel-commerce backend

The repository is a TypeScript monorepo: a marketplace on which organizations
publish listings, customers book and pay for them, operators run the bookings
and a support desk answers. The packages under `packages/` hold the domain
logic over one PostgreSQL database; `apps/server` serves it (oRPC procedures
and webhooks), `apps/notifications` drains a pg-boss queue, and `apps/web` is
the user interface. This directory models the parts in which concurrency,
failure and retries decide whether money, time slots and discounts stay
right, and whether what other systems are told of them (calendars, mailboxes,
messengers) stays true. It checks them with TLC and proves the most important
results with TLAPS.

What makes the system hard is one fact, visible everywhere in the code:
**handlers are sequences of separate database statements**. Most run in no
transaction; the ones that do (`createBooking`, `connectPaymentProvider`) run
under READ COMMITTED, so that every statement sees what others have committed
and a `select` locks nothing unless it says `for update`. Another handler may
therefore run between any two statements. Every model has one action per
statement (or per call of an outside service), and that is its granularity.

## Inventory

| Component (code) | State | Operations | Interacts with | What is hard |
|---|---|---|---|---|
| **Bookings** (`packages/booking/booking-service.ts`) | `booking` rows: status, payment status, window, refund | createBooking, updateBookingStatus, updateBookingSchedule | promotions inside the transaction; availability checks; emits `booking:*` on the event bus | check-then-write races, two different overlap checks |
| **Availability** (`packages/booking/availability`, `overlap.ts`) | blocks, rules, exceptions | create/delete block, checkSlotAvailable | read by bookings; written by the calendar import too | blocks and bookings are unrelated rows |
| **Cancellation** (`packages/booking/cancellation*`) | `booking_cancellation_request`, `booking_refund`, the booking | requestCancellation, the process-cancellation workflow | payment provider; updateBookingStatus; event bus | lost answers, retries, compensation, crashes, racing executions |
| **Payment** (`packages/payment`, `packages/api/.../server-routes.ts`) | `payment_webhook_event`, `booking_payment_attempt`, `organization_payment_config`, the booking's payment status | connectPaymentProvider, reconcilePaymentWebhook, refundPayment | the provider's webhooks and its refund call | duplicated, concurrent, reordered deliveries; partial failure |
| **Promotions** (`packages/promotions`) | `booking_discount_code` with its usage count, `booking_discount_application` | resolve and record inside createBooking; upsert, setActive | called by bookings | counters and limits under concurrency |
| **Workflow engine, event bus** (`packages/workflows`, `packages/events`) | none that survives a crash | createStep, createWorkflow, emit | run the steps and the pushers | compensation covers completed steps only; errors of pushers and compensations are swallowed |
| **Notifications** (`packages/notifications`, `apps/notifications`) | events, intents, deliveries, in-app rows, preferences | push, process, mark viewed | event bus, pg-boss, email and messengers | at-least-once jobs over non-idempotent sends |
| **Queue and recurring tasks** (`packages/queue`) | pg-boss jobs | enqueue, schedule, work | notifications | jobs of a batch fail together, expiry under a running handler |
| **Calendar** (`packages/calendar`) | connections with token, status and watch, event links, imported blocks, webhook ledger | create, move, delete a booking's event; import of busy time by polling, retry, webhook, operator | event bus, Google Calendar, availability blocks | a remote call between two statements; synchronisations that overlap; expired tokens |
| **Support** (`packages/support`, `apps/support-email-worker`) | inbound messages, tickets, ticket messages | inbound workflow, messages of customers and operators, status decisions | the mail worker, event bus | redelivery against a stored row, one thread in two requests, a status computed from an earlier read |
| **Catalog, publication** (`packages/catalog`) | listings, publication rows | publish, unpublish | onboarding through the event bus | two tables in separate statements; a unique index over a column that is null |
| **Organization** (`packages/organization`) | onboarding row, overrides, moderation | recalculate from three facts | event bus; reads most other tables | a projection overwritten by a recalculation that read earlier |
| **Pricing** (`packages/pricing`, `cancellation-policy-service.ts`) | profiles, rules | create and update profiles and rules, quote, refund suggestion | bookings, promotions, cancellation | two-statement change of the default, two-statement read, rounding and negative windows |
| API, auth, assistant, storage, telemetry, web, proxy | sessions, files | authorization, formatting, I/O | the above | outside the models |

Correctness, component by component:

- Bookings: two blocking bookings of a listing never share an instant; a
  status follows from the transition table; a terminal status is final.
- Cancellation: the agreed refund goes back at most once; rows never claim a
  refund that was not issued, whoever writes them; nobody hears of a cancellation that is not
  applied; every execution ends.
- Payment: a notification takes effect once, is accepted only after it did, and
  is processed in the end; a captured booking shows as paid.
- Promotions: no booking is charged to a code beyond its limits at that moment;
  the count is the number of uses; no transaction waits for ever.
- Slots offered: what the public page offers is what createBooking accepts, and the
  other way round.
- Pricing: a listing keeps a default profile; a booking is priced by prices that were
  in force; its amounts add up; who cancels later is refunded no more.
- Notifications: a processed event reached every recipient who wants it and is not sent
  again; no event is queued nowhere; nobody is sent it without bound; every job ends.
- Calendar: a confirmed booking has its event, at its time; a cancelled one has none; the
  imported blocks are the external calendar's busy time; a disabled connection blocks
  nothing; a refused notification was not lost.
- Support: a mail is filed once and never lost in silence; a thread is one ticket; a
  ticket waits for the side that did not write last.
- Publication: the listing's status agrees with its rows; one row per channel.
  Onboarding: the row states what is the case.

Nearly all of these have exceptions in the code: two requests at a certain moment, a
failure between two statements. The properties name the exceptions as narrowly as they
are true, in history variables (`trouble`, `crossed`, `split`, `kept`, ...), so that
everything else is claimed.

`PROJECT.json` lists the hazards behind these sentences, each at its line, with
the property that covers it or the reason why none does.

## Modules

| Module | What it is |
|---|---|
| `BookingStatus` | the status vocabulary and `VALID_TRANSITIONS`, shared |
| `CancellationContract` | abstract specification: agree on an amount, pay it out once, settle |
| `Cancellation` | the detailed specification: requests, the workflow, operators, what webhooks write, the provider |
| `WebhookContract` | abstract specification: record a notification, let it take effect once, close it, accept it |
| `PaymentWebhook` | reconcilePaymentWebhook and the webhook route under redelivery |
| `BookingSlots` | one listing's calendar: createBooking, the two updates, blocks |
| `SlotOffers` | extends `BookingSlots`: the slots the public page computes from hours, rules, exceptions and its rows |
| `PromotionUsage` | discount codes claimed by booking transactions |
| `Quote`, `RefundPolicy` | the arithmetic of prices, discounts and refunds, in whole cents |
| `Pricing` | extends `RefundPolicy`: profiles and rules edited while quotes are made |
| `NotificationPipeline` | events pushed once per key, batches of jobs, retries, passes over the recipients |
| `CalendarLink` | bookings mirrored into external calendars |
| `CalendarSync` | busy time imported from an external calendar |
| `SupportDesk` | mails, tickets, messages and status decisions |
| `Publication` | publishing, and the onboarding row |
| `*Proofs` | theorems about the module of that name; `PaymentProofs` is about `Cancellation` and `PaymentWebhook`, `PricingProofs` about `Pricing` and `PromotionUsage`, `BookingSlotsProofs` also about `SlotOffers` |
| `MC*` | instances for TLC: model values, functions of the constants, symmetry |

The composition follows the code: `BookingStatus` is shared by everything that writes a
booking; `SlotOffers` computes over the very rows `BookingSlots` changes; `Pricing` prices
with `Quote` and refunds with `RefundPolicy`; `CalendarSync` takes an event that
`CalendarLink` created and has not yet linked (`StoreLink`); `Publication` composes the
catalog's two handlers with the organization's projector, which every event wakes.

Operators whose comment begins with "Fault:" are not part of any specification.
Each is a plausible bug in the action beside it; substituted for that action it
makes a property fail (`mutants` in `PROJECT.json`), which is the evidence that
the property says something about the code.

### Cancellation

One booking, with its request row (unique per booking), refund rows by external
refund id, payment attempts by transaction, and the provider. `requester[q]` is a
requestCancellation call in two steps (`ReadRefundable`, `InsertRequest`);
`worker[w]` is one execution of the workflow, whose program counter names the
statement that comes next:

| pc | action | code in `cancellation-workflow.ts` |
|---|---|---|
| idle/failed | `LoadRequest` | load: the request must be `requested` |
| booking | `LoadBooking` | load: the booking row, whose payment status is kept |
| attempt | `FindAttempt` | execute-refund: nothing to do, or the latest captured attempt |
| call | `CallProvider` | refundPayment with the key `<request>:refund` |
| row | `RecordRefund` | upsert of the refund row |
| check, cancel | `CheckCancellable`, `SetCancelled` | apply: updateBookingStatus |
| money | `SetRefunded` | apply: refund amount, payment status |
| request | `SetApplied` | apply: request becomes `applied` |
| emit | `EmitCancelled` | emit |
| compensate | `Compensate` | the compensation of execute-refund |

`StepThrows` may take an execution out of every statement but the emission
(the event bus settles all pushers and throws nothing), to the compensation when
execute-refund has completed with a refund and to `failed` otherwise. `Crash`
takes it out of any statement with no compensation, because the engine keeps
its progress in memory. A failed execution may be started again as long as
the request is `requested`. The policy's percentage is abstracted to any share
of the captured sum.

Meanwhile the webhook route writes what these statements read. A pay, confirm or fail
notification upserts the attempt of its transaction (`RecordAttempt`), and then sets the
payment status (`ShowOutcome`): a row that is there keeps its amount, and a failure
takes a captured attempt back. A refund notification sets payment status and refund
(`ReportRefund`), whichever refund it tells of. `Reports` are the first three kinds;
refund notifications follow from the refunds the provider has issued. Each is applied
once, in any order, late or never: that the route does no more is what `PaymentWebhook`
shows. The booking's payment status and refund have no other writers than these, the
workflow and createBooking. The provider returns money to the workflow (`IssueRefund`),
and to orders from its back office (`ReturnByHand`; `docs/CloudPayments.md:2387` names
that way and line 175 refunds in part), never more than a transaction has paid.
`provider.paid` counts what was returned in the request's name, `provider.amount` what
each refund was, `provider.forgot` whether the key was ever forgotten (`ForgetKey`).

### Payment webhooks

`Notifications` are what the provider has to say, each with its type and
transaction; the request signature that the unique index covers is that pair. A
`handler` is one delivery. The provider may deliver anything again at any time,
in any order, to any free handler. `Fail` is a statement that throws (the route
answers code 1) or a process that dies (no answer). `applied` counts how often
a notification has set the payment status, and `answer` is the last answer the
provider got; both are history. A check or cancel notification has no effect
but its event row.

### Booking calendar

Windows are pairs of instants `0..Horizon`; the code accepts a booking that ends
before it starts (the procedures' schema and the table do not exclude it), and
the models enumerate such windows. A check constraint excludes such a block. A
new booking passes `checkSlotAvailable` (any status but cancelled), a moved one
`assertNoOverlap` (the four blocking statuses): the model keeps the two checks
as different as the code has them. `held` is history. Every request may end
after any of its statements (`Abandon`).

### Promotions

`FindCode` (by text), `LockCode` (`select ... for update` by id), `ResolveCode`
and `CheckCustomer` (by text once more), `CommitUsage` (insert of the
application, increment, commit). The increment and the inserts happen under the
row lock and are invisible before the commit, and so are one action with it. Admins
create, edit and (de)activate codes in single statements that wait for the lock.

### Notifications

`event[e]` is the status of the row with idempotency key `e`, `job[e]` its
pg-boss job. A `pusher` is one call of notificationsPusher (`LookUpEvent`,
`InsertEvent` or `RefuseInsert`, `SendJob`, `MarkUnqueued`); the queue may store a
job and lose the acknowledgement, so that the pusher marks as failed an event that
is being processed. A `worker` is one execution of the batch handler: it takes the
jobs of its batch one by one (`ReadEvent`), marks the event (`StartPass`), goes
through the targets (`FilterTarget`, `SendToTarget`) and ends the pass
(`FinishPass`, `PassThrows`). A throw fails *all* jobs of the batch, also those
that were processed. `Expire` fails the jobs under a handler that goes on,
which is how two executions come to work on one event; nothing in the code
claims an event. Intent and delivery rows are written and never read, and are left
out: a failure to write them is a throw. pg-boss is external and modelled as
`packages/queue/src/worker.ts` configures it; the order of jobs in a batch
is left open.

### Calendar links

A `request` changes a booking and then runs its domain event's handler, statement by
statement, as `booking-lifecycle-sync.ts` is called: the event bus awaits the pushers
before the request returns.

| pc | action | code |
|---|---|---|
| idle | `CheckTransition`, `CheckSchedule` | the row is read and checked (`booking-service.ts`) |
| status:write, schedule:write | `WriteStatus`, `WriteSchedule` | the row is written by id; the event is emitted |
| confirm:booking, confirm:connection | `ReadConfirmed`, `ChooseConnection` | syncOnBookingConfirmed: the booking, then fetchActiveConnection |
| confirm:create, confirm:store | `CreateEvent`, `StoreLink` | adapter.createEvent, upsert of the link |
| link, connection | `ReadLink`, `ReadConnection` | the link row, then its own connection |
| delete | `DeleteEvent` | adapter.deleteEvent |
| move:booking, update | `ReadMoved`, `UpdateEvent` | the booking is read again, adapter.updateEvent |

`RequestFails` ends a request at any statement; what a handler throws is swallowed by the
bus, so nothing is repeated. The provider's answer to createEvent may be lost after the event
was made. `SetUsable` and `SetPrimary` are the operator's changes of the connections. Two
history variables: `confirmed` counts announced confirmations, and `trouble` names, per
booking, what has made its event possibly `misplaced` or `orphaned`: pairs of overlapping
requests (`Misplacing`, `Orphaning`), failures and unusable connections. Overlaps that
are not among these pairs are claimed to do no harm.

### Calendar import

`remote` is the external calendar with the revision of each event's last change; the
provider's sync token is a revision, `NoToken` none. A `sync` is one call of
syncConnectionRecord with what led to it: `Poll`, `Retry`, `SyncById`, or `Notify` with
the ledger (`LookUpMessage`, `InsertMessage`); then `MarkSyncing`, `ListChanges` or
`RecoverFromExpiredToken`, and for every listed event `FindBlock` and `WriteBlock`, and
`Finish`. `SyncFails` stores the error and marks the ledger's row, `Crash` does neither.
The operator's request (`DeactivateBlocks` then `DisableRow`; `Enable`; `OpenWatch` then
`AttachWatch`; `StopWatch`) runs beside them, one at a time, and may die half way.
`CalendarLink` appears as the events in `Own`, whose link is stored (`StoreLink`) after
the provider already has them. History: `synced` (the last revision listed by a finished
synchronisation), `lost` (notifications whose process died), `outdated` and `trouble`
(a synchronisation wrote what was out of date). A behaviour is followed up to the first
trouble; nothing is claimed beyond it.

Abstractions: the listing of changes is one step although it reads pages; a full listing
returns deleted events too; events moved to before its `timeMin` are not considered; the
count and back-off of retries only delay them, so `Retry` may come late or never; a
watch channel is a BOOLEAN.

### Support desk

`inbound[m]` is the row of a mail, `arrivals` the order of reception by which
findTicketIdByExternalThread picks among linked mails, `ticket[t]` a ticket's status,
`filed[m]` the tickets the mail was made a message of. A `request` of kind "mail" is one
forwarding by the mail worker (`Deliver`), which goes through `InsertInbound`,
`FindTicket`, `CreateTicket`, `ReadTicket`, `PersistMessage`, `MarkProcessed`. One of
kind "customer" or "operator" (`AddMessage`) begins at `ReadTicket`. A decision of an
operator is `ReadStatus`, `WriteStatus`. The transaction of persistMessage is two steps,
since its read takes no lock: READ COMMITTED lets the status change in between.
`StatementThrows` marks a stored mail as failed, which a later delivery takes for a
duplicate; `Crash` leaves it received. History: `died`, `split` (threads in which two mails were
processed before either was linked, or the first was given up), and `turn` (the side that has
to answer, or that requests with different aims overlapped).

### Publication and onboarding

`Publish` and `Unpublish` find the listing; `SetListing` writes its status; then
`FindRow`, `WriteRow` or `HideRows` change `listing_publication`. The channel id is null
in every row the code writes, so the unique index never refuses one. Each request ends in an
event whose projector reads the three facts (`ReadFact`, in any order: they are
queries of one `Promise.all`) and overwrites the row (`Upsert`). `ChangeSource` stands
for the requests of other components that change a fact and emit an event.
`ReadStatus` recalculates when no row exists. `completedAt` is left out. History: `crossed`
(listings whose last change overlapped with an opposite one or failed half way), `doubled`
(channels for which two requests found no row), `stale` (the row was written by a
recalculation that had begun before another one wrote or failed).

### Pricing

`profile` and `rule` are the rows of one listing. An `edit` is a createPricingProfile or
updatePricingProfile: `ClearDefault` when it is to be the default, then `WriteProfile`, or
`EditEnds` when the database refuses the row or the process dies. Rules are created and
deleted in one statement. A `quote` is `ReadProfile`, `ReadRules`, then the amounts of
`Quote`: hourly price over the duration rounded as the code rounds, the best rule of every
type by priority, service fee and tax in basis points, the code's discount (capped, at
most the price). `RefundPolicy` is the suggestion made for a cancellation.
`Subtotal` lets two rules of equal priority be picked in either order
(`Selections`), since the query's order leaves it open. Integers stand for cents; a
window may be inverted, since the procedures do not exclude it, and then prices are
negative without a code. History: `kept`, and what each quote saw in force (`seen`,
`changed`).

### Slots offered

`SlotOffers` computes `OpenWindows` from hours, rules and the date's exception as the
code's merge and subtract functions do (`SortedByStart`, `JoinWindow` and the recursion of
`MergeSorted` are the sort and the loop of the merge), cuts them into `RawSlots`, and gives each its
`SlotStatus` from the rows of `BookingSlots` in the current state. Against it stand
`Open` and `OpenSlots`, which say instant by instant what is open. Minutes are
instants; conversions between time zones are left out.

## Runs

All runs are listed in `PROJECT.json`.

| Run | Question | Result |
|---|---|---|
| `CancellationContract` | Does the workflow implement the contract, with the key forgotten at any time and refunds by hand? One request, two executions, two payments, two refunds | it does; books stay backed, announcements true |
| `CancellationEnds` | Does every execution end? Two requests, an execution that may be repeated, an operator, a payment reported as paid and as failed, a refund | it does |
| `PaymentWebhookRetries` | A failed transaction, a payment and a refund; two deliveries at a time, one failure, one reconnect | the contract is implemented: once each, accepted only then; all processed |
| `BookingSlots` | Are the two overlap checks enough when requests do not overlap in time, and are offered slots the ones createBooking accepts? Two bookings, one block, three instants, eight surfaces. May three requests at a time bring one booking to a status the table does not lead to? | they are; statuses are lost and revived, none is invented |
| `PromotionUsage` | One code, three bookings, two customers, two edits | exact, within limits, no endless wait |
| `NotificationPipeline` | Two events, two pusher calls, two executions, one retry, one execution that outlives its jobs | done only when all were reached; sends bounded; every job ends |
| `CalendarLink` | Two requests on a booking and their handlers, two connections, one failure: does its event follow it? | it does, but for the named overlaps |
| `CalendarSync` | Two synchronisations, an operator, two failures or expiries: do blocks come to show the calendar, and does the token cover what was imported? | they do, but for the named crossings |
| `SupportDesk` | Two mails of one thread, redelivered, with answers, decisions and one failure | filed once, one ticket, the right side's turn |
| `Publication` | Three requests on a listing and its organization | rows, listing and onboarding agree unless opposite requests crossed |
| `Pricing` | Two edits and a quote over two profiles and a rule | a default stays, prices were in force, amounts add up |
| `BookingSlotsDouble` | Does anything exclude double bookings between concurrent requests? | violated |

The violated property is the one disagreement between the repository's words and its code
that has a run: no exclusion constraint exists, and the check in createBooking is a
check-then-insert, so that two requests put two blocking bookings on one instant. The
finding in `PROJECT.json` quotes the line.

Other disagreements were met while modelling. They are in the models, as exceptions that
properties name or assumptions that theorems make, and have no run of their own:

- A rejected refund row may stay next to a cancelled booking: the compensation that would
  restore the booking belongs to the very step that failed. The money is *not*
  lost twice: a retry repeats the key and completes, or is refused, and
  `BooksAreBacked` holds all along.
- A `fail` notification of an earlier transaction, processed after the `pay` of a
  later one, shows a captured booking as failed (`ShowOutcome`).
- The notification of a refund in part, ordered by hand, shows the booking as "refunded"
  and its amount in place of the one the workflow wrote (`ReportRefund`). So
  `BooksAreBacked` says of what a booking shows that the provider issued such a refund,
  and only of refund rows and applied requests that it is the agreed one.
- A status update checked before a cancellation and written after it revives
  the booking; the update names the id only. `StatusesHavePaths` says what survives, in
  a run with three requests at a time (`BookingSlots`).
- A code's text moved to another row between the two looks by text slips through the
  limits. No procedure of the API renames codes; `upsertPromotion` allows it
  (`MayRename`).
- createBooking is refused for a rejected, completed or no-show booking (`TakenForNew`),
  although `overlap.ts:6` lists the statuses that "block new bookings" and these are not
  among them. `OffersAreHonoured` names the exception.
- A duplicate delivery that arrives *while* the first is at work is answered 500
  (`RefuseDuplicate`), where `payment-webhook.test.ts:366` has duplicates accepted; the
  provider's next delivery is accepted, which is what `EventuallyProcessed` shows.
- `pricing-profile.ts:12` says that non-default profiles are preferred, and line 37
  sorts the default first. The function has no caller.

### Bounds, and why they are enough

- *Two executions of the workflow.* All that executions share is in rows and in the
  provider; the interesting cases are one execution passing another between
  two statements, and a retry (a third execution in effect, since a failed one
  starts again without bound). An execution ends by its own steps alone, so that one is
  enough for `EveryExecutionEnds`. The theorems have no such bound.
- *`MaxRefunds`* is a bound on the refunds the provider ever issues, by hand or to the
  workflow. Before the key is forgotten only one goes to the workflow; two let it come
  before or after one by hand, and with the key forgotten be repeated.
- *`Reports`*: two payments make the order of processing matter, on which the choice of
  the attempt depends; one payment with a failure of the same transaction takes a capture
  back under an execution (in `CancellationEnds`; that the books stay backed with
  failures as well is the theorem's part). The theorems are about any set of reports.
- *Prices*: of two transactions of one unit each the refund is smaller than, equal to or
  larger than what the latest has captured (the last is declined); one transaction of two
  units may be refunded in part by hand, and so may two of one unit, by returning one of them.
- *Three notifications, two at a time* give every order and every overlap of a
  pair, and the pair of transactions that overwrite one another. `MaxFailures`
  and `MaxReconnects` are 1: a second failure strands a second notification in
  the same way.
- *Two executions, one retry, one expiry* of the notification worker: every pair of
  passes over one event, overlapping or not, with the other event before it, after
  it or in another batch. `RetryLimit` is 5 in the code; retries differ in nothing but
  their number, which `SendsBounded` counts. The first event has two enabled targets,
  the second a disabled one.
- *`MCSpec`* of the calendar has two kinds of behaviours: requests about two bookings, one
  at a time, as `NoDoubleBooking` and `PlacedOnFreeTime` demand; or three at a time about a
  third booking alone, which are a lost update (two) and one more that builds on either
  result. No window matters to a status, so that this booking stays where it is.
- *`Horizon`* 2 gives windows that touch, nest, coincide, are empty and are
  inverted; one instant less is enough for the double booking. Bookings are
  independent but for pairwise overlap, so two are enough. The eight surfaces have rules
  that touch, nest and leave a gap, a day opened further (from the start of a rule, and
  between two), closed, and closed in part, a notice and minimum durations. *`DayEnd`* is 4
  and *`SlotStep`* 2 (1440 and 30 in the code): the smallest day in which a window that does
  not begin at a step of the day's start, and one that a step does not divide, matter.
- *`MaxEdits`* 2 is the creation of the code and one edit while bookings claim
  it.
- *`CalendarLink`*: bookings share nothing but the connections, so one is enough. Two
  connections let the primary change between confirmation and cancellation; two events
  are what two confirmations create, and the third confirmation of a behaviour waits for
  an id (`Events` is a bound); two times tell a moved booking from one that was not.
  Failing calls, dying processes and changes of connections share `MaxDisturbances` 1:
  each of them alone excuses the booking from its properties.
- *`CalendarSync`*: events share only the token, and the one event is a booking's own that
  looks like any other until its link is stored. Two rows are needed for the second that
  two synchronisations may insert. `MaxRevision` 2: an event appears and is moved or
  deleted. Two disturbances are a failure of a synchronisation and of its retry, or one
  while the operator disables and enables the connection.
- *`SupportDesk`*: two mails of one thread, two tickets (one more than is right), two
  requests at a time, one decision ("resolved", which a message takes back), one fault.
- *`Publication`*: listings do not share rows and have one row per channel, so one
  listing, one channel and two rows (a third repeats the second). One source: all are treated
  alike. Three requests: two that cross, and one that reads meanwhile.
- *`Pricing`*: two profiles are what a change of the default needs, and two edits cross in
  every way two statements can. Of the two terms one is refused by the table; the one rule
  id takes two kinds; quotes do not see one another, so one is enough. Two occasions
  (one inverted), two codes and two policies with different roundings.

Symmetry is used in safety runs only, over sets whose members the specification
never tells apart.

### Deadlock

The cancellation, promotion, notification and calendar (link and import) runs switch deadlock checking off:
a booking that is closed, a set of transactions or jobs that all ended, or a disabled
connection whose operator does nothing more, is the end. The other runs check it.

### Fairness

- `Cancellation`: weak fairness of each execution's own steps. An `await` of the
  Node event loop settles with a value or an error; `StepThrows` is one of the
  steps, so fairness demands no success. Nothing is assumed about requests,
  operators, webhooks, refunds by hand or retries.
- `PaymentWebhook`: weak fairness of each delivery, and strong fairness of
  redelivery for a notification without an accepted answer. The provider repeats
  a notification up to a hundred times, at intervals that grow to half an hour,
  until it gets code 0 (`docs/CloudPayments.md:4036`); the model repeats it without
  bound, since no delivery takes hours. Strong, because a free handler may come and
  go. `EventuallyProcessed` asserts nothing once a
  statement has failed after the event row was stored: such a notification is
  refused for ever, and the run says that nothing else strands one
  (`StrandedOnlyByFailure`).
- `NotificationPipeline`: weak fairness of each execution, in which throwing is a
  step like any other, and of polling: pg-boss fetches some batch as long as jobs are
  due and an execution is free. Pushers need not go on.
- `PromotionUsage`: weak fairness of each transaction's steps, and of its rollback
  unless it is waiting for the lock: a transaction that cannot go on throws and
  rolls back. It is not assumed that a waiting transaction gives up.
- `CalendarLink`: weak fairness of each request's own steps. A provider call ends with
  an answer or by the timeout at `google-adapter.ts:671`; failing is one of the steps, and
  counts as trouble. No request has to be made.
- `CalendarSync`: weak fairness of each synchronisation and of the operator's request once
  begun, and strong fairness of polling: `calendar-internal.ts` is called again and again
  by a schedule outside the repository. Strong, because the number of `Syncs` bounds the
  model and not the server. Retries, notifications and the operator need not come:
  `EventuallyMirrors` rests on polling, which passes over disabled connections only.
- `SupportDesk`: weak fairness of each request, and strong fairness of delivery of a mail
  that is not accepted. The mail worker throws on any answer but a success, so that the mail
  provider, which is external, delivers again. Strong for the same reason.

## Proofs

`tlapm` checks every theorem to its last leaf, for every value of the constants
that satisfies the named assumptions of the modules: any number of requests,
bookings, rows, mails and failures. `TypeOK` alone is mostly not inductive: what it says of
a row that a request is about to write needs the request's statement. Every
module therefore has an invariant that is a conjunction of named parts, and one lemma per
part and kind of step.

**`PaymentProofs`, of `Cancellation`.** `TypeCorrect` is inductive as it stands. `BooksAreBacked`
and `AnnouncedIsApplied` are not: a worker that is about to write a refund row, or
to mark the request applied, has to be known to have had its refund issued. The parts of
`IInv` are about a request, a provider, a booking row or an execution handed to them:
nothing is done in the request's name before the request is stored
(`RequestComesFirst`); the refund remembered, every refund row and every refund id in an
execution's hands name a refund of the agreed amount (`MoneyAgreed`, `RowsAgreed`,
`Knows`); an execution past the refund step knows the amount returned (`Knows`), and so
does an applied request (`AppliedIsPaid`); what the booking shows was issued (`Shown`). The
provider only ever adds refunds (`Grows`), by hand as well as to the workflow, and
`GrowthKeeps` shows that each part survives it: this is why the webhook and the back
office, who know nothing of the request, cannot disturb the books.
`OneRefund` adds, until the key is forgotten, that what was paid in the request's name is
nothing, or exactly what is due. `ImplementsContract` maps
`Cancellation` to `CancellationContract` (phase and due are the request's status and
amount, paid is `FirstPaid`): the initial state maps to the initial
state, a first `IssueRefund` to `PayOut`, `InsertRequest` to `Agree`, the first
`SetApplied` to `Settle`, and everything else to a stutter. `FirstPaid` is what the provider
has paid until it forgets the key, and from then on what was due: forgetting comes after
the payment (`ForgetsWhatIsPaid`), and a repeated one is not spoken of. No more can be said:
`docs/CloudPayments.md:1782` promises the answer to a repeated request id for one hour,
and a retry after that refunds once more.

**`PaymentProofs`, of `PaymentWebhook`.** `AppliesOnce` and `AcceptedIsApplied` rest on the unique
signature of the event row: past its insertion at most one delivery of a notification is
at work (`OnePast`), and it is this one that carries the notification from received to
processed (`Carried`). `StrandedOnlyByFailure` reads the same invariant the other
way: a received row has its delivery, or a failure. `ImplementsInbox` maps the route to
`WebhookContract`: `InsertEvent` to `Receive`, `SetPaymentStatus` to `TakeEffect`,
`MarkProcessed` to `Close`, with or without the acceptance, the other answers to `Accept` or
`Refuse`, and everything else to a stutter. It adds to the invariant that only
a delivery of a notification with an effect comes to write it (`EffectIsDue`).

**`BookingSlotsProofs`.** `StatusesHavePaths` holds under any races: an update writes a
status that follows from one the booking has had (`UpdatesFollowHistory`). `NoDoubleBooking`
and `PlacedOnFreeTime` assume requests one at a time, `\A g, h \in Handlers : g = h`;
`BookingSlotsDouble` shows that the assumption is needed. Between a check and its
write, the checked window is free, since nobody else is there to take it.
`OffersHonoured` has two halves. `AvailableIsAccepted` relates the page's rule to
createBooking's, under any races: it needs the vocabulary of statuses only, because the two
rules differ in four of them. It also shows that an available slot starts after the
notice and lasts as long as the listing and every rule in force demand, and that whatever
meets this is available; that a largest demand exists (`RequiredMinimumDemands`) is an
induction on the size of the set of rules (`LargestExists`). `RawSlotsAreOpen` is about
the computation of the slots, for every day: windows that neither meet nor touch (`Separate`) have edges that are the edges of
the time they open, so that steps from the start of a window are steps from where the
listing opens. That windows are `Separate`, and open what rules and exception say, is shown
of `MergeWindows` by following the loop (`JoinKeepsApart`: the windows merged so far are
apart, and the last begins no later than the next), and of `SubtractWindow` part by part.
Sorting and the loop are recursions over data; the library's induction theorems take an
operator, but `WFMin` does not, and gives the least number at which a claim fails
(`LeastExists`). So `SortingExists`, `MergeRecursion` and `MergeWindowsSeparates` are
inductions by least counterexample. The proof uses nothing of the order of windows that
start together. `SurfaceAssumption` is what the check constraints of the tables of rules,
exceptions and listings admit. `OpenSlots` counts
steps from an opening that is not after the slot: a step of one instant would not tell, which
is why the run takes two.

**`PricingProofs`, of `PromotionUsage`.** `CountsExact` follows from an invariant that ties every
row's count to the number of committed applications and says that a transaction
in flight works on an existing row; the cardinality facts come from
`FiniteSetTheorems`. `WithinLimits` is an action property; its invariant says that a
transaction past `LockCode` holds the lock of its row, that (without renaming) the
row it resolves by text is the row it locked, and that what it has checked so far
still holds, since only the lock holder changes the row's count and applications
and edits wait for the lock. It assumes `~MayRename`.

**`NotificationPipelineProofs`.** `QueueInv` says which events have a job and which a call
that will send one; `ReachInv` what an execution in the middle of its targets has
already done. `NeverForgotten` and `DoneReachedAll` follow. `SendsBounded` counts: sends
so far and executions that may still send never exceed the fetches of the job
(`SendsAccounted`), for a finite set of workers. `ProcessedIsFinal` needs that batches of jobs
are disjoint and that an execution never touches a processed event it has left
(`ProcessedIsLeft`, `BatchesDisjoint`).

**`PricingProofs`, of `Pricing`.** `PriceInv` adds to the types what an edit's statement tells of the
row it is about to write (`EditsTell`) and what a quote's reads tell of its prices
(`QuotesTell`). The amounts rest on lemmas about the operators for all integers: rounded
division is monotone and bounded (`Rounding`), the total grows with the base price, a
code's amount lies between zero and the price, and the refunds of a policy whose late
penalty is the larger fall with the hours left. Without that assumption on the
policy, which the database does not enforce, the last is false.

**`PublicationProofs`.** The invariant has three parts besides types. `RowsInv`: a channel that
is not in `doubled` has one row, or none and at most one request about to insert it.
`StatusInv`: a request with no opposite one finds the listing as it set it, opposite
requests know each other, and a settled listing agrees with its rows. `FactsInv`: a
recalculation, or the onboarding row, that missed a change is followed by
another recalculation.

**`SupportDeskProofs`.** `FiledInv`: one request at most works on a stored mail,
it has the mail's row as its statement requires, and a mail is filed exactly from
`PersistMessage` on. `ThreadInv`, for threads not in `split`: all mails linked or in hand
go to one ticket, at most one request is about to open it, and none does once it exists.
`TurnInv`: while a ticket is not `raced`, all that have read it and not written aim at one status, and
who saw the ticket with that status finds it so.

**`CalendarLinkProofs`.** `OwnersCorrect`: a link, or a request with an event in hand, names
an event created for its own booking (`Owned`). `EventsCounted` adds the
requests that are about to create an event to the events there are: together they never
exceed the announced confirmations (`Counted`). `LinkShows` is the longest argument. For a
booking that nothing has troubled, `Shown` says that its requests under way are of kinds that do not
race (`Apart`), that it is confirmed once at most (`ConfirmedOnce`), what the request that
mirrors the confirmation knows while there is no link (`CreationTells`), and what the
link and the requests that move or delete the event know from then on (`LinkTells`).
Each of the four needs the others: a second confirmation would replace the link, and only
`Apart` and the transition table exclude it. A step of a request on one booking is shown to
leave the others alone (`OtherBookings`), so that the theorem holds for any number of
bookings, of which the run has one.

**`CalendarSyncProofs`.** `RegisteredSynced`: a registered message is older than what was imported, or
it is carried by the synchronisation it started, or on record as lost (`Carried`), with the
bounds on revisions and messages that comparing them needs. `DisabledIsQuiet`: until a
synchronisation that was under way then writes (`trouble`), a disabled connection has no
token, no watch and no active block, and only such synchronisations work on it (`Quiet`).
`TokenCovered`
rests on four parts: what a synchronisation has listed is the event as it was (`ListsTell`),
an event has one row, and none that shows it once its link is stored (`RowsTell`), tokens are not
ahead of what was imported (`TokensBounded`), and an event that has not changed since
a level a token or a synchronisation stands for is mirrored or still to be applied (`UpToDate`).
A synchronisation that began before the connection was disabled or enabled is excepted
(`outdated`), as `trouble` excepts what it writes.

What is only model-checked: liveness (`EveryExecutionEnds`, `EventuallyProcessed`,
`ClaimsEnd`, `JobsEnd`, `CancelledLeavesCalendar`, `EventuallyMirrors`,
`EveryMailSettles`), which is out of the prover's reach. Every other property of the runs
is stated by a theorem.

## Not modelled, and why

- Authorization, parsing and validation of inputs, formatting, logging.
- The web application, seed scripts, read models and the tooling under `.github`: most of
  the repository's lines. They render, prepare or query what the modelled services
  write, and hold no state that others rely on. The models therefore stand for a small
  share of the repository's lines and for most of its concurrent state changes.
- Conversions between time zones and their daylight-saving gaps
  (`zonedLocalDateTimeToUtc`).
- Code without a caller: `applyCancellation` in `cancellation-service.ts` (the workflow is what
  the API runs), `evaluateCancellationPolicy`, `resolveActivePricingProfile`,
  `booking/src/slots.ts`; the handler of `booking:contact-updated`, which nothing emits;
  the column `minimumHours`, which nothing enforces.
- Percentages above 100 % of a policy's penalty, which the table admits and nothing in
  the repository writes: `PricingAssumption` excludes them.
- One model of everything that is written to a booking row. `Cancellation` has all writers
  of payment status and refund, and the operators' status updates; `BookingSlots` all
  writers of status and window but the workflow, which passes through
  updateBookingStatus; `CalendarLink` those that matter to the calendar event. How a
  notification is received, refused and repeated is in `PaymentWebhook` alone. What the payment
  status should be when webhooks and the workflow race the repository does not say: the
  last writer wins.
- The isolation of `createBooking`'s transaction is modelled by the visibility of its
  writes at commit; a serialization failure cannot happen under READ COMMITTED.
- Calendar accounts and sources, and the ledger of ingestCalendarWebhook, an older entry
  beside the modelled one. Two operators working on one connection at a time.
- Assignment, priority, due dates and internal notes of tickets, and the workflow's
  optional ticket id: none of them touches a column the model has.
- Storefront queries: a listing with two active rows appears twice in their join, which
  `OfferedOncePerChannel` bears on and no model shows.
- Recurring tasks: a chain of jobs over the queue of `NotificationPipeline`, without rows of
  its own. A job that is retried after it has sent its successor sends it again, so that the
  chain forks; the pusher's key (`InsertEvent`, `RefuseInsert`) drops what is repeated.
- The in-app inbox, whose writes are single statements, and the components with no
  state of their own (see `components` in `PROJECT.json`).

## Plan

1. *(done)* `Cancellation` and `PaymentWebhook` with their contracts, `BookingSlots`,
   `PromotionUsage`, `NotificationPipeline`.
2. *(done)* `CalendarLink`, `CalendarSync`, `SupportDesk`, `Publication` with the
   onboarding projection.
3. *(done)* `Quote`, `RefundPolicy` and `Pricing`; `SlotOffers` against its reference
   definition.
4. *(done)* Proofs about `Cancellation`, `PaymentWebhook`, `BookingSlots`,
   `PromotionUsage`, `NotificationPipeline`, `Pricing`, `Publication`, `SupportDesk`,
   `CalendarLink`, `CalendarSync` and `SlotOffers`: every safety property of the runs.
5. *(left)* Recurring tasks on top of the notification pipeline; two operators on one
   connection.
