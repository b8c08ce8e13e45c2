----------------------------- MODULE Cancellation -----------------------------
(***************************************************************************)
(* Cancelling one booking: requestCancellation, the four-step              *)
(* process-cancellation workflow with its compensation, the status         *)
(* updates operators make meanwhile, what the payment webhook writes for   *)
(* payments, failures and refunds, and the payment provider, which returns *)
(* money to the workflow's orders and to those of its own back office.     *)
(*                                                                         *)
(* Every database statement and every provider call is one action: the     *)
(* workflow holds no transaction, so anything may happen between two of    *)
(* them. A request row exists at most once per booking (unique index), so  *)
(* one booking with any number of concurrent handlers is the whole story.  *)
(***************************************************************************)
EXTENDS Integers, BookingStatus

CONSTANTS
    Requesters,  \* concurrent requestCancellation calls
    Workers,     \* concurrent executions of process-cancellation
    Operators,   \* concurrent updateBookingStatus calls
    Payments,    \* provider transactions that may pay for the booking
    Price,       \* Price[p]: what transaction p captures
    Reports,     \* notifications about transactions: of what kind, about which
    NoPayment,   \* "no captured attempt"
    MaxRefunds,  \* bound on the refunds the provider ever issues
    KeyExpires   \* whether the provider may forget an idempotency key

ASSUME CancellationAssumption ==
    /\ Price \in [Payments -> Nat \ {0}]
    /\ Reports \subseteq [kind : {"pay", "confirm", "fail"}, payment : Payments]
    /\ NoPayment \notin Payments
    /\ MaxRefunds \in Nat \ {0}
    /\ KeyExpires \in BOOLEAN

VARIABLES
    booking,    \* the booking row: status, paymentStatus, refund
    attempts,   \* the payment attempt rows by transaction (status, amount, time of
                \* processing), the total of the captured ones, and the clock
    webhook,    \* how far each report has been applied, and the refunds reported
    request,    \* the cancellation request row: status, refund
    refundRow,  \* the booking_refund rows, by external refund id
    provider,   \* the provider: refunds issued, with their amounts, returned per
                \* transaction, paid to the workflow's orders, the refund it remembers
                \* for the idempotency key, and whether it ever forgot it (history)
    announced,  \* booking:cancelled was emitted by the workflow
    requester,  \* each requestCancellation call: pc and the captured sum read
    worker,     \* each workflow execution: pc and what it has read
    operator    \* each updateBookingStatus call: pc and its target status

vars == <<booking, attempts, webhook, request, refundRow, provider, announced,
          requester, worker, operator>>

RefundIds == 1..MaxRefunds

------------------------------------------------------------------------------

Init ==
    /\ booking = [status |-> "pending", paymentStatus |-> "unpaid", refund |-> 0]
    /\ attempts = [row   |-> [p \in Payments |-> [status |-> "none", amount |-> 0, processed |-> 0]],
                   total |-> 0, clock |-> 0]
    /\ webhook = [report |-> [n \in Reports |-> "due"], refunds |-> {}]
    /\ request = [status |-> "none", refund |-> 0]
    /\ refundRow = [r \in RefundIds |-> "none"]
    /\ provider = [issued |-> 0, amount |-> [r \in RefundIds |-> 0],
                   returned |-> [p \in Payments |-> 0], paid |-> 0,
                   remembered |-> 0, forgot |-> FALSE]
    /\ announced = FALSE
    /\ requester = [q \in Requesters |-> [pc |-> "idle", base |-> 0]]
    /\ worker = [w \in Workers |-> [pc |-> "idle", paymentStatus |-> "unpaid",
                                    attempt |-> NoPayment, refund |-> 0]]
    /\ operator = [o \in Operators |-> [pc |-> "idle", target |-> "pending"]]

------------------------------------------------------------------------------
(* The rest of the system, as far as cancellation depends on it.           *)

CapturedAmount(row) == IF row.status = "captured" THEN row.amount ELSE 0

\* A pay, confirm or fail webhook first upserts the attempt of its transaction: a row
\* that is there keeps its amount, only a capture sets the time of processing, and a
\* failure takes a captured attempt back. A report is applied once (PaymentWebhook).
RecordAttempt(n) ==
    LET old == attempts.row[n.payment]
        new == IF n.kind = "fail"
               THEN [old EXCEPT !.status = "failed"]
               ELSE [status    |-> "captured",
                     amount    |-> IF old.status = "none" THEN Price[n.payment] ELSE old.amount,
                     processed |-> attempts.clock + 1]
    IN
    /\ webhook.report[n] = "due"
    /\ webhook' = [webhook EXCEPT !.report[n] = "recorded"]
    /\ attempts' = [row   |-> [attempts.row EXCEPT ![n.payment] = new],
                    total |-> attempts.total + CapturedAmount(new) - CapturedAmount(old),
                    clock |-> attempts.clock + 1]
    /\ UNCHANGED <<booking, request, refundRow, provider, announced, requester, worker, operator>>

\* The webhook then sets the payment status, whatever it was.
ShowOutcome(n) ==
    /\ webhook.report[n] = "recorded"
    /\ webhook' = [webhook EXCEPT !.report[n] = "shown"]
    /\ booking' = [booking EXCEPT !.paymentStatus = IF n.kind = "fail" THEN "failed" ELSE "paid"]
    /\ UNCHANGED <<attempts, request, refundRow, provider, announced, requester, worker, operator>>

\* A refund webhook, of any refund the provider has issued, sets status and amount.
ReportRefund(r) ==
    /\ r <= provider.issued /\ r \notin webhook.refunds
    /\ webhook' = [webhook EXCEPT !.refunds = @ \cup {r}]
    /\ booking' = [booking EXCEPT !.paymentStatus = "refunded", !.refund = provider.amount[r]]
    /\ UNCHANGED <<attempts, request, refundRow, provider, announced, requester, worker, operator>>

\* The provider returns an amount that the transaction still covers.
CanReturn(p, amount) ==
    /\ provider.issued < MaxRefunds
    /\ provider.returned[p] + amount <= Price[p]

Return(p, amount) ==
    [provider EXCEPT !.issued = @ + 1,
                     !.amount[provider.issued + 1] = amount,
                     !.returned[p] = @ + amount]

\* A refund ordered in the provider's back office, in part or in full.
ReturnByHand(p) ==
    /\ \E amount \in 1..Price[p] : CanReturn(p, amount) /\ provider' = Return(p, amount)
    /\ UNCHANGED <<booking, attempts, webhook, request, refundRow, announced, requester, worker, operator>>

\* updateBookingStatus, first statement: the row is read and the transition
\* table consulted.
CheckTransition(o, target) ==
    /\ operator[o].pc = "idle"
    /\ CanBecome(booking.status, target)
    /\ operator' = [operator EXCEPT ![o] = [pc |-> "write", target |-> target]]
    /\ UNCHANGED <<booking, attempts, webhook, request, refundRow, provider, announced, requester, worker>>

\* updateBookingStatus, second statement: the row is written by id, whatever
\* its status has become.
WriteStatus(o) ==
    /\ operator[o].pc = "write"
    /\ booking' = [booking EXCEPT !.status = operator[o].target]
    /\ operator' = [operator EXCEPT ![o] = [pc |-> "idle", target |-> "pending"]]
    /\ UNCHANGED <<attempts, webhook, request, refundRow, provider, announced, requester, worker>>

\* The provider keeps the result of a request for an hour only.
ForgetKey ==
    /\ KeyExpires
    /\ provider.remembered # 0
    /\ provider' = [provider EXCEPT !.remembered = 0, !.forgot = TRUE]
    /\ UNCHANGED <<booking, attempts, webhook, request, refundRow, announced, requester, worker, operator>>

------------------------------------------------------------------------------
(* requestCancellation                                                     *)

\* The booking is cancellable, no request exists, and the captured amounts are summed:
\* three reads in one step, as only the sum is used afterwards. No refund row can exist
\* before the request does, so the refundable base is that sum; refunds by hand leave
\* no row.
ReadRefundable(q) ==
    /\ requester[q].pc = "idle"
    /\ booking.status \in OpenStatuses
    /\ request.status = "none"
    /\ requester' = [requester EXCEPT ![q] = [pc |-> "insert", base |-> attempts.total]]
    /\ UNCHANGED <<booking, attempts, webhook, request, refundRow, provider, announced, worker, operator>>

\* Fault: a fixed fee is taken off the refund and never clamped at zero.
InsertRequestMinusFee(q) ==
    /\ requester[q].pc = "insert"
    /\ request.status = "none"
    /\ request' = [status |-> "requested", refund |-> requester[q].base - 1]
    /\ requester' = [requester EXCEPT ![q] = [pc |-> "done", base |-> 0]]
    /\ UNCHANGED <<booking, attempts, webhook, refundRow, provider, announced, worker, operator>>

\* The request is inserted with the suggested refund, a share of the base
\* that the policy chooses; the unique index on the booking id rejects a
\* second request.
InsertRequest(q) ==
    /\ requester[q].pc = "insert"
    /\ request.status = "none"
    /\ \E refund \in 0..requester[q].base :
           request' = [status |-> "requested", refund |-> refund]
    /\ requester' = [requester EXCEPT ![q] = [pc |-> "done", base |-> 0]]
    /\ UNCHANGED <<booking, attempts, webhook, refundRow, provider, announced, worker, operator>>

------------------------------------------------------------------------------
(* process-cancellation                                                    *)

Goto(w, pc) == worker' = [worker EXCEPT ![w].pc = pc]

\* load-cancellation-context: the request must still be "requested".
LoadRequest(w) ==
    /\ worker[w].pc \in {"idle", "failed"}
    /\ request.status = "requested"
    /\ worker' = [worker EXCEPT ![w] = [pc |-> "booking", paymentStatus |-> "unpaid",
                                        attempt |-> NoPayment, refund |-> 0]]
    /\ UNCHANGED <<booking, attempts, webhook, request, refundRow, provider, announced, requester, operator>>

\* load-cancellation-context: the booking row is read, its status unchecked.
LoadBooking(w) ==
    /\ worker[w].pc = "booking"
    /\ worker' = [worker EXCEPT ![w].pc = "attempt",
                                ![w].paymentStatus = booking.paymentStatus]
    /\ UNCHANGED <<booking, attempts, webhook, request, refundRow, provider, announced, requester, operator>>

\* The captured attempt that was processed last.
IsLatestCapture(p) ==
    LET row == attempts.row IN
    /\ row[p].status = "captured"
    /\ \A q \in Payments : row[q].status = "captured" => row[q].processed <= row[p].processed

\* execute-refund: nothing to refund, or the latest captured attempt.
FindAttempt(w) ==
    /\ worker[w].pc = "attempt"
    /\ \/ /\ request.refund = 0
          /\ Goto(w, "check")
       \/ /\ request.refund > 0
          /\ \E p \in Payments :
                /\ IsLatestCapture(p)
                /\ worker' = [worker EXCEPT ![w].pc = "call", ![w].attempt = p]
    /\ UNCHANGED <<booking, attempts, webhook, request, refundRow, provider, announced, requester, operator>>

\* The provider has not seen the key, or has forgotten it: it returns the money.
IssueRefund(p) ==
    /\ provider.remembered = 0
    /\ CanReturn(p, request.refund)
    /\ provider' = [Return(p, request.refund) EXCEPT !.paid = @ + request.refund,
                                                     !.remembered = provider.issued + 1]

\* The provider has seen the key: it repeats its answer and moves no money.
RepeatAnswer ==
    /\ provider.remembered # 0
    /\ UNCHANGED provider

\* Fault: a fresh key per call, so that the provider never recognises a retry.
CallProviderUnkeyed(w) ==
    /\ worker[w].pc = "call"
    /\ CanReturn(worker[w].attempt, request.refund)
    /\ provider' = [Return(worker[w].attempt, request.refund) EXCEPT
                       !.paid = @ + request.refund, !.remembered = provider.issued + 1]
    /\ worker' = [worker EXCEPT ![w].pc = "row", ![w].refund = provider'.remembered]
    /\ UNCHANGED <<booking, attempts, webhook, request, refundRow, announced, requester, operator>>

\* Fault: a declined or lost refund is logged and the workflow goes on.
CallProviderUnchecked(w) ==
    /\ worker[w].pc = "call"
    /\ IssueRefund(worker[w].attempt) \/ UNCHANGED provider
    /\ Goto(w, "check")
    /\ UNCHANGED <<booking, attempts, webhook, request, refundRow, announced, requester, operator>>

\* execute-refund: refundPayment with the key "<request>:refund". The answer
\* carries the refund's id, or is lost on the way and the step throws.
CallProvider(w) ==
    /\ worker[w].pc = "call"
    /\ IssueRefund(worker[w].attempt) \/ RepeatAnswer
    /\ \/ worker' = [worker EXCEPT ![w].pc = "row", ![w].refund = provider'.remembered]
       \/ Goto(w, "failed")
    /\ UNCHANGED <<booking, attempts, webhook, request, refundRow, announced, requester, operator>>

\* execute-refund: the refund row is upserted on (provider, external id).
RecordRefund(w) ==
    /\ worker[w].pc = "row"
    /\ refundRow' = [refundRow EXCEPT ![worker[w].refund] = "processed"]
    /\ Goto(w, "check")
    /\ UNCHANGED <<booking, attempts, webhook, request, provider, announced, requester, operator>>

\* apply-cancellation-state: updateBookingStatus reads the row afresh.
CheckCancellable(w) ==
    /\ worker[w].pc = "check"
    /\ CanBecome(booking.status, "cancelled")
    /\ Goto(w, "cancel")
    /\ UNCHANGED <<booking, attempts, webhook, request, refundRow, provider, announced, requester, operator>>

\* apply-cancellation-state: updateBookingStatus writes it.
SetCancelled(w) ==
    /\ worker[w].pc = "cancel"
    /\ booking' = [booking EXCEPT !.status = "cancelled"]
    /\ Goto(w, "money")
    /\ UNCHANGED <<attempts, webhook, request, refundRow, provider, announced, requester, operator>>

\* apply-cancellation-state: refund amount and payment status, the latter from
\* the row as loaded when nothing is refunded.
SetRefunded(w) ==
    /\ worker[w].pc = "money"
    /\ booking' = [booking EXCEPT
                     !.refund = request.refund,
                     !.paymentStatus = IF request.refund > 0 THEN "refunded"
                                       ELSE worker[w].paymentStatus]
    /\ Goto(w, "request")
    /\ UNCHANGED <<attempts, webhook, request, refundRow, provider, announced, requester, operator>>

\* apply-cancellation-state: the request is marked applied.
SetApplied(w) ==
    /\ worker[w].pc = "request"
    /\ request' = [request EXCEPT !.status = "applied"]
    /\ Goto(w, "emit")
    /\ UNCHANGED <<booking, attempts, webhook, refundRow, provider, announced, requester, operator>>

\* emit-booking-cancelled: EventBus.emit settles every pusher and never throws.
EmitCancelled(w) ==
    /\ worker[w].pc = "emit"
    /\ announced' = TRUE
    /\ Goto(w, "done")
    /\ UNCHANGED <<booking, attempts, webhook, request, refundRow, provider, requester, operator>>

\* Fault: an INVALID_TRANSITION is awaited instead of thrown.
StepThrowsNotOnCheck(w) ==
    /\ worker[w].pc \in {"booking", "attempt", "call", "row", "cancel", "money", "request"}
    /\ Goto(w, "failed")
    /\ UNCHANGED <<booking, attempts, webhook, request, refundRow, provider, announced, requester, operator>>

\* A statement throws: a lost connection, a missing attempt or config, a
\* declined refund, INVALID_TRANSITION. Only completed steps are compensated.
StepThrows(w) ==
    /\ worker[w].pc \in {"booking", "attempt", "call", "row", "check", "cancel",
                         "money", "request"}
    /\ Goto(w, IF /\ worker[w].pc \in {"check", "cancel", "money", "request"}
                  /\ worker[w].refund # 0
               THEN "compensate" ELSE "failed")
    /\ UNCHANGED <<booking, attempts, webhook, request, refundRow, provider, announced, requester, operator>>

\* Fault: the compensation also reopens the request, whoever applied it.
CompensateReopening(w) ==
    /\ worker[w].pc = "compensate"
    /\ refundRow' = [refundRow EXCEPT ![worker[w].refund] = "rejected"]
    /\ request' = [request EXCEPT !.status = "requested"]
    /\ Goto(w, "failed")
    /\ UNCHANGED <<booking, attempts, webhook, provider, announced, requester, operator>>

\* The compensation of execute-refund rejects the refund row; the provider is
\* not called. An error of the compensation itself is swallowed.
Compensate(w) ==
    /\ worker[w].pc = "compensate"
    /\ \/ refundRow' = [refundRow EXCEPT ![worker[w].refund] = "rejected"]
       \/ UNCHANGED refundRow
    /\ Goto(w, "failed")
    /\ UNCHANGED <<booking, attempts, webhook, request, provider, announced, requester, operator>>

\* The server process dies: the saga keeps its progress in memory only.
Crash(w) ==
    /\ worker[w].pc \notin {"idle", "failed", "done"}
    /\ Goto(w, "failed")
    /\ UNCHANGED <<booking, attempts, webhook, request, refundRow, provider, announced, requester, operator>>

------------------------------------------------------------------------------

WorkerStep(w) ==
    \/ LoadBooking(w)
    \/ FindAttempt(w)
    \/ CallProvider(w)
    \/ RecordRefund(w)
    \/ CheckCancellable(w)
    \/ SetCancelled(w)
    \/ SetRefunded(w)
    \/ SetApplied(w)
    \/ EmitCancelled(w)
    \/ StepThrows(w)
    \/ Compensate(w)

Next ==
    \/ \E n \in Reports : RecordAttempt(n) \/ ShowOutcome(n)
    \/ \E r \in RefundIds : ReportRefund(r)
    \/ \E p \in Payments : ReturnByHand(p)
    \/ \E o \in Operators, target \in BookingStatuses : CheckTransition(o, target)
    \/ \E o \in Operators : WriteStatus(o)
    \/ ForgetKey
    \/ \E q \in Requesters : ReadRefundable(q) \/ InsertRequest(q)
    \/ \E w \in Workers : LoadRequest(w) \/ WorkerStep(w) \/ Crash(w)

Spec == Init /\ [][Next]_vars

\* An execution that was started is driven on by the event loop: every await
\* settles, with a value or an error.
FairSpec == Spec /\ \A w \in Workers : WF_vars(WorkerStep(w))
------------------------------------------------------------------------------
(* Properties                                                              *)

WorkerPCs == {"idle", "booking", "attempt", "call", "row", "check", "cancel",
              "money", "request", "emit", "compensate", "failed", "done"}

BookingRow == [status : BookingStatuses, paymentStatus : PaymentStatuses, refund : Nat]
AttemptRow == [status : {"none", "captured", "failed"}, amount : Nat, processed : Nat]
AttemptRows == [row : [Payments -> AttemptRow], total : Int, clock : Nat]
WebhookState == [report : [Reports -> {"due", "recorded", "shown"}], refunds : SUBSET RefundIds]
RequestRow == [status : {"none", "requested", "applied"}, refund : Nat]
ProviderState == [issued : 0..MaxRefunds, amount : [RefundIds -> Nat],
                  returned : [Payments -> Nat], paid : Nat, remembered : 0..MaxRefunds,
                  forgot : BOOLEAN]
RequesterState == [pc : {"idle", "insert", "done"}, base : Int]
WorkerState == [pc : WorkerPCs, paymentStatus : PaymentStatuses,
                attempt : Payments \cup {NoPayment}, refund : 0..MaxRefunds]
OperatorState == [pc : {"idle", "write"}, target : BookingStatuses]

TypeOK ==
    /\ booking \in BookingRow
    /\ attempts \in AttemptRows
    /\ webhook \in WebhookState
    /\ request \in RequestRow
    /\ refundRow \in [RefundIds -> {"none", "processed", "rejected"}]
    /\ provider \in ProviderState
    /\ announced \in BOOLEAN
    /\ requester \in [Requesters -> RequesterState]
    /\ worker \in [Workers -> WorkerState]
    /\ operator \in [Operators -> OperatorState]

\* Paid in the request's name. Once the provider has forgotten the idempotency key it
\* may pay again, and only the first payment is spoken of.
FirstPaid == IF provider.forgot THEN request.refund ELSE provider.paid

\* Concurrent, failing, crashing and retried executions of the workflow still
\* keep the contract: one agreed amount, returned at most once in the request's name
\* before the provider forgets the idempotency key, and no request applied before it is
\* returned (processCancellationWorkflow).
Contract == INSTANCE CancellationContract
                WITH phase <- request.status, due <- request.refund, paid <- FirstPaid
KeepsContract == Contract!Spec

\* The provider has issued a refund of this amount.
Issued(amount) == \E r \in RefundIds : r <= provider.issued /\ provider.amount[r] = amount

\* The books never run ahead of the money, whoever writes them: a refund row stands
\* for a refund the provider issued, of the agreed amount; the refund a booking shows
\* is one the provider issued, in the workflow's name or by hand; "refunded" is shown
\* only after some refund; and an applied request has had its amount returned. (The
\* amount shown need not be the agreed one: the webhook of a partial refund overwrites
\* it, with the status "refunded" all the same.)
BooksAreBacked ==
    /\ \A r \in RefundIds : refundRow[r] # "none" =>
           r <= provider.issued /\ provider.amount[r] = request.refund
    /\ booking.refund # 0 => Issued(booking.refund)
    /\ booking.paymentStatus = "refunded" => provider.issued > 0
    /\ request.status = "applied" => provider.paid >= request.refund

\* booking:cancelled is emitted by the workflow only for a request that is, and
\* stays, applied, with the refund it reports returned (the emit step comes
\* last and nothing un-applies a request).
AnnouncedIsApplied ==
    announced => request.status = "applied" /\ provider.paid >= request.refund

\* Every execution comes to an end, in success or in failure, whatever throws
\* and whatever the others do (createWorkflow's try, catch and compensation).
EveryExecutionEnds ==
    \A w \in Workers : worker[w].pc = "booking" ~> worker[w].pc \in {"failed", "done"}
==============================================================================
