---------------------------- MODULE PaymentProofs ----------------------------
(***************************************************************************)
(* Proofs about the money of a booking. Cancellation, for any number of    *)
(* requests, executions, operators and payments, any webhook reports and   *)
(* any refunds ordered by hand: types, that the books never run ahead of   *)
(* the money, that an announced cancellation is applied, and that the      *)
(* workflow implements CancellationContract, which speaks of what was paid *)
(* before the provider forgot the idempotency key. PaymentWebhook, for any *)
(* notifications, concurrent deliveries, failures and reconnects: types,   *)
(* that a notification takes effect once, that what is accepted is applied, *)
(* and what may be left stranded.                                          *)
(***************************************************************************)
EXTENDS Cancellation, PaymentWebhook, TLAPS

------------------------------------------------------------------------------
(* The inductive invariant. Its parts are about a request, a provider, a   *)
(* booking row and an execution given to them, so that a step that changes *)
(* one of these can be judged by what the others knew.                     *)

\* The program counters at which the refund step is over.
PastRefund == {"check", "cancel", "money", "request", "emit"}

\* Refund r was issued, of the amount the request agreed on.
Agreed(r, req, prov) ==
    r \in RefundIds /\ r <= prov.issued /\ prov.amount[r] = req.refund

\* What the provider did in the request's name: the refund it remembers and a
\* payment it counts are of the agreed amount.
MoneyAgreed(req, prov) ==
    /\ prov.remembered # 0 => Agreed(prov.remembered, req, prov) /\ prov.paid >= req.refund
    /\ prov.paid # 0 => \E r \in RefundIds : Agreed(r, req, prov)

RowsAgreed(req, rows, prov) == \A r \in RefundIds : rows[r] # "none" => Agreed(r, req, prov)

\* Nothing is done in the request's name before the request is stored.
RequestComesFirst(req, rows, prov) ==
    req.status = "none" => /\ req.refund = 0 /\ prov.paid = 0 /\ prov.remembered = 0
                           /\ \A r \in RefundIds : rows[r] = "none"

\* What an execution knows at each step.
Knows(v, req, prov) ==
    /\ v.pc # "idle" \/ v.refund # 0 => req.status # "none"
    /\ v.refund # 0 => Agreed(v.refund, req, prov) /\ prov.paid >= req.refund
    /\ v.paymentStatus = "refunded" => prov.issued > 0
    /\ v.pc = "call" => req.refund > 0
    /\ v.pc = "row" => v.refund # 0
    /\ v.pc \in PastRefund => prov.paid >= req.refund
    /\ v.pc = "emit" => req.status = "applied"

\* What the booking shows has been issued.
Shown(row, prov) ==
    /\ row.refund # 0 => \E r \in RefundIds : r <= prov.issued /\ prov.amount[r] = row.refund
    /\ row.paymentStatus = "refunded" => prov.issued > 0

AppliedIsPaid(req, prov) == req.status = "applied" => prov.paid >= req.refund

IInv ==
    /\ RequestComesFirst(request, refundRow, provider)
    /\ MoneyAgreed(request, provider)
    /\ RowsAgreed(request, refundRow, provider)
    /\ \A w \in Workers : Knows(worker[w], request, provider)
    /\ Shown(booking, provider)
    /\ AppliedIsPaid(request, provider)
    /\ announced => request.status = "applied"

\* Until the key is forgotten, what is due is paid once: with the refund remembered.
OneRefund ==
    /\ ~provider.forgot /\ provider.remembered = 0 => provider.paid = 0
    /\ ~provider.forgot /\ provider.remembered # 0 => provider.paid = request.refund
    /\ provider.forgot => request.status # "none"

------------------------------------------------------------------------------
(* Type correctness.                                                       *)

LEMMA TypeInit ==
    ASSUME CancellationAssumption, Init
    PROVE  TypeOK
<1> USE DEF BookingStatuses, PaymentStatuses
<1>1. /\ booking \in BookingRow
      /\ request \in RequestRow
  BY DEF Init, BookingRow, RequestRow
<1>2. attempts \in AttemptRows /\ webhook \in WebhookState
  BY DEF Init, AttemptRows, AttemptRow, WebhookState
<1>3. provider \in ProviderState
  BY DEF CancellationAssumption, Init, ProviderState
<1>4. /\ requester \in [Requesters -> RequesterState]
      /\ operator \in [Operators -> OperatorState]
  BY DEF Init, RequesterState, OperatorState
<1>5. worker \in [Workers -> WorkerState]
  BY DEF CancellationAssumption, Init, WorkerState, WorkerPCs
<1> QED BY <1>1, <1>2, <1>3, <1>4, <1>5 DEF Init, TypeOK

\* Where Goto leads: the same execution, at another step.
LEMMA GotoState ==
    ASSUME worker \in [Workers -> WorkerState], NEW w \in Workers, NEW pc \in WorkerPCs,
           Goto(w, pc)
    PROVE  \E next \in WorkerState :
               /\ worker' = [worker EXCEPT ![w] = next]
               /\ next.pc = pc
               /\ next.refund = worker[w].refund
               /\ next.paymentStatus = worker[w].paymentStatus
<1> DEFINE next == [worker[w] EXCEPT !.pc = pc]
<1>1. /\ next \in WorkerState /\ next.pc = pc /\ next.refund = worker[w].refund
      /\ next.paymentStatus = worker[w].paymentStatus
  BY DEF WorkerState
<1>2. worker' = [worker EXCEPT ![w] = next]
  BY DEF Goto
<1> HIDE DEF next
<1> QED BY <1>1, <1>2

\* A step that only moves an execution on keeps the executions typed.
LEMMA GotoTyped ==
    ASSUME TypeOK, NEW w \in Workers, NEW pc \in WorkerPCs, Goto(w, pc)
    PROVE  worker' \in [Workers -> WorkerState]
BY GotoState DEF TypeOK

\* A refund leaves the provider's record typed.
LEMMA ReturnTyped ==
    ASSUME CancellationAssumption, TypeOK, NEW p, NEW amount \in Nat,
           CanReturn(p, amount)
    PROVE  /\ Return(p, amount) \in ProviderState
           /\ provider.issued + 1 \in RefundIds
           /\ Return(p, amount).issued = provider.issued + 1
           /\ Return(p, amount).amount = [provider.amount EXCEPT ![provider.issued + 1] = amount]
           /\ Return(p, amount).paid = provider.paid
           /\ Return(p, amount).remembered = provider.remembered
           /\ Return(p, amount).forgot = provider.forgot
<1> DEFINE id == provider.issued + 1
           amounts == [provider.amount EXCEPT ![id] = amount]
           returned == [provider.returned EXCEPT ![p] = @ + amount]
<1>1. provider \in ProviderState
  BY DEF TypeOK
<1>2. id \in RefundIds /\ id \in 0..MaxRefunds
  BY <1>1 DEF CanReturn, ProviderState, RefundIds, CancellationAssumption
<1>3. amounts \in [RefundIds -> Nat]
  BY <1>1 DEF ProviderState
<1>4. returned \in [Payments -> Nat]
  <2>1. /\ provider.returned \in [Payments -> Nat]
        /\ \A q \in Payments : provider.returned[q] + amount \in Nat
    BY <1>1 DEF ProviderState
  <2> QED BY <2>1
<1>5. Return(p, amount) = [provider EXCEPT !.issued = id, !.amount = amounts, !.returned = returned]
  BY <1>1 DEF Return, ProviderState
<1> HIDE DEF id, amounts, returned
<1>6. /\ Return(p, amount) \in ProviderState
      /\ Return(p, amount).issued = id
      /\ Return(p, amount).amount = amounts
      /\ Return(p, amount).paid = provider.paid
      /\ Return(p, amount).remembered = provider.remembered
      /\ Return(p, amount).forgot = provider.forgot
  BY <1>1, <1>2, <1>3, <1>4, <1>5 DEF ProviderState
<1> QED BY <1>2, <1>6 DEF id, amounts

\* What a call that moves money does to the provider.
LEMMA IssueTyped ==
    ASSUME CancellationAssumption, TypeOK, NEW p, IssueRefund(p)
    PROVE  /\ provider' \in ProviderState
           /\ provider.remembered = 0
           /\ provider'.remembered = provider.issued + 1
           /\ provider'.remembered \in RefundIds
           /\ provider'.issued = provider.issued + 1
           /\ provider'.amount = [provider.amount EXCEPT ![provider.issued + 1] = request.refund]
           /\ provider'.paid = provider.paid + request.refund
           /\ provider'.forgot = provider.forgot
<1> DEFINE moved == Return(p, request.refund)
           id == provider.issued + 1
           paid == provider.paid + request.refund
<1>1. request.refund \in Nat /\ provider \in ProviderState
  BY DEF TypeOK, RequestRow
<1>2. /\ moved \in ProviderState /\ id \in RefundIds /\ moved.issued = id
      /\ moved.amount = [provider.amount EXCEPT ![id] = request.refund]
      /\ moved.paid = provider.paid /\ moved.forgot = provider.forgot
  BY <1>1, ReturnTyped DEF IssueRefund
<1>3. id \in 0..MaxRefunds /\ paid \in Nat
  BY <1>1, <1>2 DEF RefundIds, ProviderState
<1>4. provider' = [moved EXCEPT !.paid = paid, !.remembered = id]
  BY <1>1, <1>2 DEF IssueRefund, ProviderState
<1> HIDE DEF moved
<1>5. /\ provider' \in ProviderState /\ provider'.remembered = id /\ provider'.paid = paid
      /\ provider'.issued = moved.issued /\ provider'.amount = moved.amount
      /\ provider'.forgot = moved.forgot
  <2> HIDE DEF id, paid
  <2> QED BY <1>2, <1>3, <1>4 DEF ProviderState
<1> QED BY <1>2, <1>5 DEF IssueRefund

LEMMA TypeNext ==
    ASSUME CancellationAssumption, TypeOK, [Next]_vars
    PROVE  TypeOK'
<1> USE DEF TypeOK
<1>1. ASSUME NEW n \in Reports, RecordAttempt(n)
      PROVE  TypeOK'
  <2> DEFINE old == attempts.row[n.payment]
             new == IF n.kind = "fail"
                    THEN [old EXCEPT !.status = "failed"]
                    ELSE [status    |-> "captured",
                          amount    |-> IF old.status = "none" THEN Price[n.payment]
                                        ELSE old.amount,
                          processed |-> attempts.clock + 1]
  <2>1. /\ n.payment \in Payments /\ Price[n.payment] \in Nat
        /\ attempts.row \in [Payments -> AttemptRow]
        /\ attempts.total \in Int /\ attempts.clock \in Nat
    BY DEF CancellationAssumption, AttemptRows
  <2>2. old \in AttemptRow /\ new \in AttemptRow
    BY <2>1 DEF AttemptRow
  <2>3. /\ attempts' = [row   |-> [attempts.row EXCEPT ![n.payment] = new],
                        total |-> attempts.total + CapturedAmount(new) - CapturedAmount(old),
                        clock |-> attempts.clock + 1]
        /\ webhook' = [webhook EXCEPT !.report[n] = "recorded"]
    BY <1>1 DEF RecordAttempt
  <2> HIDE DEF old, new
  <2>4. CapturedAmount(new) \in Int /\ CapturedAmount(old) \in Int
    BY <2>2 DEF CapturedAmount, AttemptRow
  <2>5. attempts' \in AttemptRows
    BY <2>1, <2>2, <2>3, <2>4 DEF AttemptRows
  <2>6. webhook' \in WebhookState
    BY <2>3 DEF WebhookState
  <2> QED BY <1>1, <2>5, <2>6 DEF RecordAttempt
<1>2. ASSUME NEW n \in Reports, ShowOutcome(n)
      PROVE  TypeOK'
  BY <1>2 DEF ShowOutcome, BookingRow, WebhookState, PaymentStatuses
<1>3. ASSUME NEW r \in RefundIds, ReportRefund(r)
      PROVE  TypeOK'
  <2> DEFINE amount == provider.amount[r]
  <2>1. amount \in Nat
    BY DEF ProviderState
  <2>2. booking' = [booking EXCEPT !.paymentStatus = "refunded", !.refund = amount]
    BY <1>3 DEF ReportRefund
  <2> HIDE DEF amount
  <2>3. booking' \in BookingRow
    BY <2>1, <2>2 DEF BookingRow, PaymentStatuses
  <2>4. webhook' \in WebhookState
    BY <1>3 DEF ReportRefund, WebhookState
  <2> QED BY <1>3, <2>3, <2>4 DEF ReportRefund
<1>4. ASSUME NEW p \in Payments, ReturnByHand(p)
      PROVE  TypeOK'
  <2>1. PICK amount \in 1..Price[p] : CanReturn(p, amount) /\ provider' = Return(p, amount)
    BY <1>4 DEF ReturnByHand
  <2>2. amount \in Nat
    BY DEF CancellationAssumption
  <2>3. provider' \in ProviderState
    <3> HIDE DEF TypeOK
    <3> QED BY <2>1, <2>2, ReturnTyped
  <2> QED BY <1>4, <2>3 DEF ReturnByHand
<1>5. ASSUME NEW o \in Operators, NEW target \in BookingStatuses,
             CheckTransition(o, target)
      PROVE  TypeOK'
  BY <1>5 DEF CheckTransition, OperatorState
<1>6. ASSUME NEW o \in Operators, WriteStatus(o)
      PROVE  TypeOK'
  BY <1>6 DEF WriteStatus, BookingRow, OperatorState, BookingStatuses
<1>7. ASSUME ForgetKey
      PROVE  TypeOK'
  <2>1. provider' = [provider EXCEPT !.remembered = 0, !.forgot = TRUE] /\ 0 \in 0..MaxRefunds
    BY <1>7 DEF ForgetKey, CancellationAssumption
  <2>2. provider' \in ProviderState
    BY <2>1 DEF ProviderState
  <2> QED BY <1>7, <2>2 DEF ForgetKey
<1>8. ASSUME NEW q \in Requesters, ReadRefundable(q)
      PROVE  TypeOK'
  BY <1>8 DEF ReadRefundable, RequesterState, AttemptRows
<1>9. ASSUME NEW q \in Requesters, InsertRequest(q)
      PROVE  TypeOK'
  BY <1>9 DEF InsertRequest, RequesterState, RequestRow
<1>10. ASSUME NEW w \in Workers, LoadRequest(w)
       PROVE  TypeOK'
  <2>1. [pc |-> "booking", paymentStatus |-> "unpaid", attempt |-> NoPayment, refund |-> 0]
            \in WorkerState
    BY DEF WorkerState, WorkerPCs, PaymentStatuses, CancellationAssumption
  <2>2. worker' \in [Workers -> WorkerState]
    <3> HIDE DEF TypeOK
    <3>1. worker \in [Workers -> WorkerState]
      BY DEF TypeOK
    <3> QED BY <1>10, <2>1, <3>1 DEF LoadRequest
  <2> QED BY <1>10, <2>2 DEF LoadRequest
<1>11. ASSUME NEW w \in Workers, LoadBooking(w)
       PROVE  TypeOK'
  <2>1. booking.paymentStatus \in PaymentStatuses
    BY DEF BookingRow
  <2>2. worker' \in [Workers -> WorkerState]
    <3> HIDE DEF TypeOK
    <3> DEFINE status == booking.paymentStatus
    <3>1. status \in PaymentStatuses /\ worker \in [Workers -> WorkerState]
      BY <2>1 DEF TypeOK
    <3>2. worker' = [worker EXCEPT ![w].pc = "attempt", ![w].paymentStatus = status]
      BY <1>11 DEF LoadBooking
    <3> HIDE DEF status
    <3> QED BY <3>1, <3>2 DEF WorkerState, WorkerPCs
  <2> QED BY <1>11, <2>2 DEF LoadBooking
<1>12. ASSUME NEW w \in Workers, FindAttempt(w)
       PROVE  TypeOK'
  <2>1. worker' \in [Workers -> WorkerState]
    <3>1. CASE Goto(w, "check")
      BY <3>1, GotoTyped DEF WorkerPCs
    <3>2. ASSUME NEW p \in Payments,
                 worker' = [worker EXCEPT ![w].pc = "call", ![w].attempt = p]
          PROVE  worker' \in [Workers -> WorkerState]
      <4>1. worker \in [Workers -> WorkerState]
        OBVIOUS
      <4> HIDE DEF TypeOK
      <4> QED BY <3>2, <4>1 DEF WorkerState, WorkerPCs
    <3> QED BY <1>12, <3>1, <3>2 DEF FindAttempt
  <2> QED BY <1>12, <2>1 DEF FindAttempt
<1>13. ASSUME NEW w \in Workers, CallProvider(w)
       PROVE  TypeOK'
  <2>1. provider' \in ProviderState
    BY <1>13, IssueTyped DEF CallProvider, RepeatAnswer
  <2>2. worker' \in [Workers -> WorkerState]
    <3>1. CASE Goto(w, "failed")
      BY <3>1, GotoTyped DEF WorkerPCs
    <3>2. CASE worker' = [worker EXCEPT ![w].pc = "row", ![w].refund = provider'.remembered]
      <4> DEFINE refund == provider'.remembered
      <4>1. refund \in 0..MaxRefunds
        BY <2>1 DEF ProviderState
      <4>2. worker' = [worker EXCEPT ![w].pc = "row", ![w].refund = refund]
        BY <3>2
      <4>3. worker \in [Workers -> WorkerState]
        OBVIOUS
      <4> HIDE DEF refund, TypeOK
      <4> QED BY <4>1, <4>2, <4>3 DEF WorkerState, WorkerPCs
    <3> QED BY <1>13, <3>1, <3>2 DEF CallProvider
  <2> QED BY <1>13, <2>1, <2>2 DEF CallProvider
<1>14. ASSUME NEW w \in Workers, RecordRefund(w)
       PROVE  TypeOK'
  BY <1>14, GotoTyped DEF RecordRefund, WorkerPCs
<1>15. ASSUME NEW w \in Workers, CheckCancellable(w)
       PROVE  TypeOK'
  BY <1>15, GotoTyped DEF CheckCancellable, WorkerPCs
<1>16. ASSUME NEW w \in Workers, SetCancelled(w)
       PROVE  TypeOK'
  BY <1>16, GotoTyped DEF SetCancelled, WorkerPCs, BookingRow, BookingStatuses
<1>17. ASSUME NEW w \in Workers, SetRefunded(w)
       PROVE  TypeOK'
  <2>1. booking' \in BookingRow
    BY <1>17 DEF SetRefunded, WorkerState, BookingRow, RequestRow, PaymentStatuses
  <2> QED BY <1>17, <2>1, GotoTyped DEF SetRefunded, WorkerPCs
<1>18. ASSUME NEW w \in Workers, SetApplied(w)
       PROVE  TypeOK'
  BY <1>18, GotoTyped DEF SetApplied, WorkerPCs, RequestRow
<1>19. ASSUME NEW w \in Workers, EmitCancelled(w)
       PROVE  TypeOK'
  BY <1>19, GotoTyped DEF EmitCancelled, WorkerPCs
<1>20. ASSUME NEW w \in Workers, StepThrows(w)
       PROVE  TypeOK'
  BY <1>20, GotoTyped DEF StepThrows, WorkerPCs
<1>21. ASSUME NEW w \in Workers, Compensate(w)
       PROVE  TypeOK'
  BY <1>21, GotoTyped DEF Compensate, WorkerPCs
<1>22. ASSUME NEW w \in Workers, Crash(w)
       PROVE  TypeOK'
  BY <1>22, GotoTyped DEF Crash, WorkerPCs
<1>23. CASE UNCHANGED vars
  BY <1>23 DEF vars
<1> QED
  BY <1>1, <1>2, <1>3, <1>4, <1>5, <1>6, <1>7, <1>8, <1>9, <1>10, <1>11, <1>12, <1>13,
     <1>14, <1>15, <1>16, <1>17, <1>18, <1>19, <1>20, <1>21, <1>22, <1>23
     DEF Next, WorkerStep

\* Every reachable state is well typed: rows keep to their enums, refund ids
\* and amounts to their ranges, executions to their program counters.
THEOREM TypeCorrect == Spec => []TypeOK
<1> USE CancellationAssumption
<1>1. Init => TypeOK
  BY TypeInit
<1>2. TypeOK /\ [Next]_vars => TypeOK'
  BY TypeNext
<1> QED BY <1>1, <1>2, PTL DEF Spec

------------------------------------------------------------------------------
(* The inductive invariant is one.                                         *)

LEMMA InvInit ==
    ASSUME CancellationAssumption, Init
    PROVE  IInv
<1>1. /\ RequestComesFirst(request, refundRow, provider)
      /\ MoneyAgreed(request, provider)
      /\ RowsAgreed(request, refundRow, provider)
      /\ AppliedIsPaid(request, provider)
  BY DEF Init, RequestComesFirst, MoneyAgreed, RowsAgreed, AppliedIsPaid
<1>2. /\ \A w \in Workers : Knows(worker[w], request, provider)
      /\ Shown(booking, provider)
  BY DEF Init, Knows, Shown, PastRefund
<1> QED BY <1>1, <1>2 DEF Init, IInv

\* The provider takes no refund back and changes the amount of none.
Grows(old, new) ==
    /\ new.issued >= old.issued
    /\ new.paid >= old.paid
    /\ \A r \in RefundIds : r <= old.issued => new.amount[r] = old.amount[r]

\* What was agreed, known or shown before the provider acts is so afterwards.
LEMMA GrowthKeeps ==
    ASSUME NEW old \in ProviderState, NEW new \in ProviderState, Grows(old, new),
           NEW req \in RequestRow
    PROVE  /\ \A r : Agreed(r, req, old) => Agreed(r, req, new)
           /\ old.paid >= req.refund => new.paid >= req.refund
           /\ \A v \in WorkerState : Knows(v, req, old) => Knows(v, req, new)
           /\ \A row \in BookingRow : Shown(row, old) => Shown(row, new)
<1>1. /\ old.issued \in Int /\ new.issued \in Int /\ old.paid \in Int /\ new.paid \in Int
      /\ req.refund \in Int
      /\ RefundIds \subseteq Int
  BY DEF ProviderState, RequestRow, RefundIds
<1>2. \A r : Agreed(r, req, old) => Agreed(r, req, new)
  BY <1>1 DEF Agreed, Grows
<1>3. old.paid >= req.refund => new.paid >= req.refund
  BY <1>1 DEF Grows
<1>4. old.issued > 0 => new.issued > 0
  BY <1>1 DEF Grows
<1>5. ASSUME NEW v \in WorkerState, Knows(v, req, old)
      PROVE  Knows(v, req, new)
  BY <1>2, <1>3, <1>4, <1>5 DEF Knows
<1>6. ASSUME NEW row \in BookingRow, Shown(row, old)
      PROVE  Shown(row, new)
  <2>1. \A r \in RefundIds : r <= old.issued => r <= new.issued
    BY <1>1 DEF Grows
  <2> QED BY <1>4, <1>6, <2>1 DEF Shown, Grows
<1> QED BY <1>2, <1>3, <1>5, <1>6

\* A step that leaves request and provider alone keeps the invariant, if what it
\* writes is backed and the executions still know what they must.
LEMMA InvStill ==
    ASSUME IInv,
           request' = request, provider' = provider,
           \/ refundRow' = refundRow
           \/ request.status # "none" /\ RowsAgreed(request, refundRow', provider),
           announced' => request.status = "applied",
           Shown(booking', provider),
           \A u \in Workers : Knows(worker'[u], request, provider)
    PROVE  IInv'
<1>1. RequestComesFirst(request', refundRow', provider')
  BY DEF IInv, RequestComesFirst
<1>2. RowsAgreed(request', refundRow', provider')
  BY DEF IInv
<1> QED BY <1>1, <1>2 DEF IInv

\* A step of execution w alone, after which w knows what it must.
LEMMA InvMove ==
    ASSUME TypeOK, IInv,
           request' = request, provider' = provider, refundRow' = refundRow,
           announced' = announced, booking' = booking,
           NEW w \in Workers, NEW next \in WorkerState,
           worker' = [worker EXCEPT ![w] = next],
           Knows(next, request, provider)
    PROVE  IInv'
<1>1. \A u \in Workers : worker'[u] = IF u = w THEN next ELSE worker[u]
  BY DEF TypeOK
<1>2. \A u \in Workers : Knows(worker'[u], request, provider)
  BY <1>1 DEF IInv
<1> QED BY <1>2, InvStill DEF IInv

\* What w must know to be moved on by Goto.
LEMMA GotoKnows ==
    ASSUME TypeOK, IInv, NEW w \in Workers, NEW pc \in WorkerPCs, Goto(w, pc),
           worker[w].pc # "idle",
           pc = "call" => request.refund > 0,
           pc # "row",
           pc \in PastRefund => provider.paid >= request.refund,
           pc = "emit" => request.status = "applied"
    PROVE  \A u \in Workers : Knows(worker'[u], request, provider)
<1>1. PICK next \in WorkerState : /\ worker' = [worker EXCEPT ![w] = next]
                                  /\ next.pc = pc
                                  /\ next.refund = worker[w].refund
                                  /\ next.paymentStatus = worker[w].paymentStatus
  BY GotoState DEF TypeOK
<1>2. Knows(worker[w], request, provider)
  BY DEF IInv
<1>3. Knows(next, request, provider)
  BY <1>1, <1>2 DEF Knows
<1>4. \A u \in Workers : worker'[u] = IF u = w THEN next ELSE worker[u]
  BY <1>1 DEF TypeOK
<1> QED BY <1>3, <1>4 DEF IInv

\* A step that only moves execution w on.
LEMMA InvGoto ==
    ASSUME TypeOK, IInv,
           request' = request, provider' = provider, refundRow' = refundRow,
           announced' = announced, booking' = booking,
           NEW w \in Workers, NEW pc \in WorkerPCs, Goto(w, pc),
           worker[w].pc # "idle",
           pc = "call" => request.refund > 0,
           pc # "row",
           pc \in PastRefund => provider.paid >= request.refund,
           pc = "emit" => request.status = "applied"
    PROVE  IInv'
<1>1. \A u \in Workers : Knows(worker'[u], request, provider)
  BY GotoKnows
<1> QED BY <1>1, InvStill DEF IInv

\* What an execution past the refund step knows.
LEMMA PastKnows ==
    ASSUME IInv, NEW w \in Workers, worker[w].pc \in PastRefund
    PROVE  provider.paid >= request.refund /\ request.status # "none" /\ worker[w].pc # "idle"
BY DEF IInv, Knows, PastRefund

\* A step of the provider alone, and of what the executions hold.
LEMMA InvMoney ==
    ASSUME TypeOK, IInv, provider' \in ProviderState, Grows(provider, provider'),
           UNCHANGED <<request, refundRow, announced, booking>>,
           request.status = "none" => provider'.paid = 0 /\ provider'.remembered = 0,
           MoneyAgreed(request, provider'),
           \A u \in Workers : Knows(worker'[u], request, provider')
    PROVE  IInv'
<1>1. /\ provider \in ProviderState /\ request \in RequestRow /\ booking \in BookingRow
  BY DEF TypeOK
<1>2. /\ RowsAgreed(request, refundRow, provider')
      /\ Shown(booking, provider')
      /\ AppliedIsPaid(request, provider')
  <2> HIDE DEF TypeOK
  <2> DEFINE new == provider'
  <2>1. new \in ProviderState /\ Grows(provider, new)
    OBVIOUS
  <2> HIDE DEF new
  <2>2. /\ \A r : Agreed(r, request, provider) => Agreed(r, request, new)
        /\ provider.paid >= request.refund => new.paid >= request.refund
        /\ Shown(booking, provider) => Shown(booking, new)
    BY <1>1, <2>1, GrowthKeeps
  <2>3. RowsAgreed(request, refundRow, new) /\ Shown(booking, new) /\ AppliedIsPaid(request, new)
    BY <2>2 DEF IInv, RowsAgreed, AppliedIsPaid
  <2> QED BY <2>3 DEF new
<1>3. RequestComesFirst(request, refundRow, provider')
  BY DEF IInv, RequestComesFirst
<1> QED BY <1>2, <1>3 DEF IInv

\* What the executions knew before the provider acts they know afterwards.
LEMMA GrowthKnown ==
    ASSUME TypeOK, IInv, provider' \in ProviderState, Grows(provider, provider')
    PROVE  \A u \in Workers : Knows(worker[u], request, provider')
<1> DEFINE new == provider'
<1>1. /\ new \in ProviderState /\ Grows(provider, new)
      /\ provider \in ProviderState /\ request \in RequestRow
      /\ worker \in [Workers -> WorkerState]
  BY DEF TypeOK
<1>2. \A u \in Workers : Knows(worker[u], request, provider)
  BY DEF IInv
<1> HIDE DEF new
<1>3. \A u \in Workers : Knows(worker[u], request, new)
  BY <1>1, <1>2, GrowthKeeps
<1> QED BY <1>3 DEF new

\* After the call, whatever becomes of the answer, money and memory agree.
LEMMA CallAgrees ==
    ASSUME CancellationAssumption, TypeOK, IInv, NEW w \in Workers, CallProvider(w)
    PROVE  /\ provider' \in ProviderState
           /\ Grows(provider, provider')
           /\ MoneyAgreed(request, provider')
           /\ provider'.remembered # 0
<1>1. CASE RepeatAnswer
  <2>1. provider' = provider /\ provider.remembered # 0
    BY <1>1 DEF RepeatAnswer
  <2>2. Grows(provider, provider)
    BY DEF Grows, TypeOK, ProviderState
  <2> QED BY <2>1, <2>2 DEF TypeOK, IInv
<1>2. CASE IssueRefund(worker[w].attempt)
  <2>1. /\ provider' \in ProviderState
        /\ provider'.remembered = provider.issued + 1
        /\ provider'.remembered \in RefundIds
        /\ provider'.issued = provider.issued + 1
        /\ provider'.amount = [provider.amount EXCEPT ![provider.issued + 1] = request.refund]
        /\ provider'.paid = provider.paid + request.refund
    BY <1>2, IssueTyped
  <2>2. /\ provider.issued \in Nat /\ provider.paid \in Nat /\ request.refund \in Nat
        /\ provider.amount \in [RefundIds -> Nat]
        /\ RefundIds \subseteq Nat \ {0}
    BY DEF TypeOK, ProviderState, RequestRow, RefundIds
  <2>3. Grows(provider, provider')
    BY <2>1, <2>2 DEF Grows
  <2>4. Agreed(provider'.remembered, request, provider')
    BY <2>1, <2>2 DEF Agreed
  <2>5. provider'.paid >= request.refund /\ provider'.remembered # 0
    BY <2>1, <2>2
  <2> QED BY <2>1, <2>3, <2>4, <2>5 DEF MoneyAgreed
<1> QED BY <1>1, <1>2 DEF CallProvider

LEMMA InvNext ==
    ASSUME CancellationAssumption, TypeOK, IInv, [Next]_vars
    PROVE  IInv'
<1>0. /\ \A u \in Workers : Knows(worker[u], request, provider)
      /\ Shown(booking, provider)
      /\ announced => request.status = "applied"
  BY DEF IInv
<1>1. ASSUME NEW n \in Reports, RecordAttempt(n)
      PROVE  IInv'
  BY <1>0, <1>1, InvStill DEF RecordAttempt
<1>2. ASSUME NEW n \in Reports, ShowOutcome(n)
      PROVE  IInv'
  <2>1. booking'.refund = booking.refund /\ booking'.paymentStatus # "refunded"
    BY <1>2 DEF ShowOutcome, TypeOK, BookingRow
  <2>2. Shown(booking', provider)
    BY <1>0, <2>1 DEF Shown
  <2> QED BY <1>0, <1>2, <2>2, InvStill DEF ShowOutcome
<1>3. ASSUME NEW r \in RefundIds, ReportRefund(r)
      PROVE  IInv'
  <2>1. booking'.refund = provider.amount[r] /\ r <= provider.issued
    BY <1>3 DEF ReportRefund, TypeOK, BookingRow
  <2>2. provider.issued > 0
    BY <2>1 DEF RefundIds, TypeOK, ProviderState
  <2>3. Shown(booking', provider)
    BY <2>1, <2>2 DEF Shown
  <2> QED BY <1>0, <1>3, <2>3, InvStill DEF ReportRefund
<1>4. ASSUME NEW p \in Payments, ReturnByHand(p)
      PROVE  IInv'
  <2>1. PICK amount \in 1..Price[p] : CanReturn(p, amount) /\ provider' = Return(p, amount)
    BY <1>4 DEF ReturnByHand
  <2>2. /\ provider' \in ProviderState
        /\ provider.issued + 1 \in RefundIds
        /\ provider'.issued = provider.issued + 1
        /\ provider'.amount = [provider.amount EXCEPT ![provider.issued + 1] = amount]
        /\ provider'.paid = provider.paid
        /\ provider'.remembered = provider.remembered
    BY <2>1, ReturnTyped DEF CancellationAssumption
  <2>3. Grows(provider, provider')
    BY <2>2 DEF Grows, TypeOK, ProviderState, RefundIds
  <2>4. MoneyAgreed(request, provider')
    <3>1. ASSUME NEW r, Agreed(r, request, provider)
          PROVE  Agreed(r, request, provider')
      <4>1. r \in RefundIds /\ r <= provider.issued /\ provider.amount[r] = request.refund
        BY <3>1 DEF Agreed
      <4>2. r <= provider'.issued
        BY <2>2, <4>1 DEF TypeOK, ProviderState, RefundIds
      <4>3. provider'.amount[r] = provider.amount[r]
        BY <2>3, <4>1 DEF Grows
      <4> QED BY <4>1, <4>2, <4>3 DEF Agreed
    <3>2. MoneyAgreed(request, provider)
      BY DEF IInv
    <3>3. provider'.remembered # 0 =>
              Agreed(provider'.remembered, request, provider') /\ provider'.paid >= request.refund
      BY <2>2, <3>1, <3>2 DEF MoneyAgreed
    <3>4. provider'.paid # 0 => \E r \in RefundIds : Agreed(r, request, provider')
      BY <2>2, <3>1, <3>2 DEF MoneyAgreed
    <3> QED BY <3>3, <3>4 DEF MoneyAgreed
  <2>5. \A u \in Workers : Knows(worker'[u], request, provider')
    BY <1>4, <2>2, <2>3, GrowthKnown DEF ReturnByHand
  <2>6. request.status = "none" => provider'.paid = 0 /\ provider'.remembered = 0
    BY <2>2 DEF IInv, RequestComesFirst
  <2> QED BY <1>4, <2>2, <2>3, <2>4, <2>5, <2>6, InvMoney DEF ReturnByHand
<1>5. ASSUME NEW o \in Operators, NEW target \in BookingStatuses,
             CheckTransition(o, target)
      PROVE  IInv'
  BY <1>0, <1>5, InvStill DEF CheckTransition
<1>6. ASSUME NEW o \in Operators, WriteStatus(o)
      PROVE  IInv'
  <2>1. booking'.paymentStatus = booking.paymentStatus /\ booking'.refund = booking.refund
    BY <1>6 DEF WriteStatus, TypeOK, BookingRow
  <2>2. Shown(booking', provider)
    BY <1>0, <2>1 DEF Shown
  <2> QED BY <1>0, <1>6, <2>2, InvStill DEF WriteStatus
<1>7. ASSUME ForgetKey
      PROVE  IInv'
  <2>1. /\ provider'.issued = provider.issued /\ provider'.amount = provider.amount
        /\ provider'.paid = provider.paid /\ provider'.remembered = 0
        /\ provider' \in ProviderState
    <3>1. provider' = [provider EXCEPT !.remembered = 0, !.forgot = TRUE] /\ 0 \in 0..MaxRefunds
      BY <1>7 DEF ForgetKey, CancellationAssumption
    <3> QED BY <3>1 DEF TypeOK, ProviderState
  <2>2. Grows(provider, provider')
    BY <2>1 DEF Grows, TypeOK, ProviderState
  <2>3. MoneyAgreed(request, provider')
    BY <2>1 DEF IInv, MoneyAgreed, Agreed
  <2>4. \A u \in Workers : Knows(worker'[u], request, provider')
    BY <1>7, <2>1, <2>2, GrowthKnown DEF ForgetKey
  <2>5. request.status = "none" => provider'.paid = 0 /\ provider'.remembered = 0
    BY <2>1 DEF IInv, RequestComesFirst
  <2> QED BY <1>7, <2>1, <2>2, <2>3, <2>4, <2>5, InvMoney DEF ForgetKey
<1>8. ASSUME NEW q \in Requesters, ReadRefundable(q)
      PROVE  IInv'
  BY <1>0, <1>8, InvStill DEF ReadRefundable
<1>9. ASSUME NEW q \in Requesters, InsertRequest(q)
      PROVE  IInv'
  <2>1. /\ request.status = "none"
        /\ request'.status = "requested"
        /\ UNCHANGED <<booking, refundRow, provider, announced, worker>>
    BY <1>9 DEF InsertRequest
  <2>2. /\ provider.paid = 0 /\ provider.remembered = 0 /\ ~announced
        /\ \A r \in RefundIds : refundRow[r] = "none"
        /\ \A u \in Workers : worker[u].pc = "idle" /\ worker[u].refund = 0
    BY <2>1 DEF IInv, RequestComesFirst, Knows
  <2>3. \A u \in Workers : Knows(worker[u], request', provider)
    BY <1>0, <2>1, <2>2 DEF Knows, PastRefund
  <2>4. /\ RequestComesFirst(request', refundRow, provider)
        /\ MoneyAgreed(request', provider)
        /\ RowsAgreed(request', refundRow, provider)
        /\ AppliedIsPaid(request', provider)
    BY <2>1, <2>2 DEF RequestComesFirst, MoneyAgreed, RowsAgreed, AppliedIsPaid
  <2> QED BY <1>0, <2>1, <2>2, <2>3, <2>4 DEF IInv
<1>10. ASSUME NEW w \in Workers, LoadRequest(w)
       PROVE  IInv'
  <2> DEFINE next == [pc |-> "booking", paymentStatus |-> "unpaid",
                      attempt |-> NoPayment, refund |-> 0]
  <2>1. next \in WorkerState
    BY DEF WorkerState, WorkerPCs, PaymentStatuses, CancellationAssumption
  <2>2. Knows(next, request, provider)
    BY <1>10 DEF LoadRequest, Knows, PastRefund
  <2>3. worker' = [worker EXCEPT ![w] = next]
    BY <1>10 DEF LoadRequest
  <2> HIDE DEF next
  <2> QED BY <1>10, <2>1, <2>2, <2>3, InvMove DEF LoadRequest
<1>11. ASSUME NEW w \in Workers, LoadBooking(w)
       PROVE  IInv'
  <2> DEFINE next == [worker[w] EXCEPT !.pc = "attempt", !.paymentStatus = booking.paymentStatus]
  <2>1. worker[w] \in WorkerState /\ booking.paymentStatus \in PaymentStatuses
    BY DEF TypeOK, BookingRow
  <2>2. /\ next \in WorkerState /\ next.pc = "attempt" /\ next.refund = worker[w].refund
        /\ next.paymentStatus = booking.paymentStatus
    BY <2>1 DEF WorkerState, WorkerPCs
  <2>3. worker' = [worker EXCEPT ![w] = next]
    BY <1>11 DEF LoadBooking
  <2> HIDE DEF next
  <2>4. Knows(worker[w], request, provider) /\ worker[w].pc = "booking"
    BY <1>0, <1>11 DEF LoadBooking
  <2>5. Knows(next, request, provider)
    BY <1>0, <2>2, <2>4 DEF Knows, Shown, PastRefund
  <2> QED BY <1>11, <2>2, <2>3, <2>5, InvMove DEF LoadBooking
<1>12. ASSUME NEW w \in Workers, FindAttempt(w)
       PROVE  IInv'
  <2>1. CASE request.refund = 0 /\ Goto(w, "check")
    <3>1. provider.paid >= request.refund
      BY <2>1 DEF TypeOK, ProviderState
    <3> QED BY <1>12, <2>1, <3>1, InvGoto DEF FindAttempt, WorkerPCs
  <2>2. ASSUME request.refund > 0, NEW p \in Payments,
               worker' = [worker EXCEPT ![w].pc = "call", ![w].attempt = p]
        PROVE  IInv'
    <3> DEFINE next == [worker[w] EXCEPT !.pc = "call", !.attempt = p]
    <3>1. worker[w] \in WorkerState
      BY DEF TypeOK
    <3>2. /\ next \in WorkerState /\ next.pc = "call" /\ next.refund = worker[w].refund
          /\ next.paymentStatus = worker[w].paymentStatus
      BY <3>1 DEF WorkerState, WorkerPCs
    <3>3. worker' = [worker EXCEPT ![w] = next]
      BY <2>2
    <3> HIDE DEF next
    <3>4. Knows(worker[w], request, provider) /\ worker[w].pc = "attempt"
      BY <1>0, <1>12 DEF FindAttempt
    <3>5. Knows(next, request, provider)
      BY <2>2, <3>2, <3>4 DEF Knows, PastRefund
    <3> QED BY <1>12, <3>2, <3>3, <3>5, InvMove DEF FindAttempt
  <2> QED BY <1>12, <2>1, <2>2 DEF FindAttempt
<1>13. ASSUME NEW w \in Workers, CallProvider(w)
       PROVE  IInv'
  <2>1. /\ provider' \in ProviderState
        /\ Grows(provider, provider')
        /\ MoneyAgreed(request, provider')
        /\ provider'.remembered # 0
    BY <1>13, CallAgrees
  <2>2. \A u \in Workers : Knows(worker[u], request, provider')
    BY <2>1, GrowthKnown
  <2>3. worker[w] \in WorkerState /\ worker[w].pc = "call"
    BY <1>13 DEF CallProvider, TypeOK
  <2>4. request.status # "none"
    BY <1>0, <2>3 DEF Knows
  <2>5. PICK next \in WorkerState :
            /\ worker' = [worker EXCEPT ![w] = next]
            /\ next.paymentStatus = worker[w].paymentStatus
            /\ \/ next.pc = "row" /\ next.refund = provider'.remembered
               \/ next.pc = "failed" /\ next.refund = worker[w].refund
    <3>1. CASE Goto(w, "failed")
      BY <3>1, GotoState DEF TypeOK, WorkerPCs
    <3>2. CASE worker' = [worker EXCEPT ![w].pc = "row", ![w].refund = provider'.remembered]
      <4> DEFINE refund == provider'.remembered
                 next == [worker[w] EXCEPT !.pc = "row", !.refund = refund]
      <4>1. refund \in 0..MaxRefunds
        BY <2>1 DEF ProviderState
      <4>2. worker' = [worker EXCEPT ![w] = next]
        BY <3>2
      <4>3. /\ next \in WorkerState /\ next.pc = "row" /\ next.refund = refund
            /\ next.paymentStatus = worker[w].paymentStatus
        <5> HIDE DEF refund
        <5> QED BY <2>3, <4>1 DEF WorkerState, WorkerPCs
      <4> HIDE DEF next
      <4> QED BY <4>2, <4>3
    <3> QED BY <1>13, <3>1, <3>2 DEF CallProvider
  <2>6. Knows(next, request, provider')
    <3>1. Agreed(provider'.remembered, request, provider') /\ provider'.paid >= request.refund
      BY <2>1 DEF MoneyAgreed
    <3>2. Knows(worker[w], request, provider')
      BY <2>2
    <3> QED BY <2>1, <2>4, <2>5, <3>1, <3>2 DEF Knows, PastRefund
  <2>7. \A u \in Workers : worker'[u] = IF u = w THEN next ELSE worker[u]
    BY <2>5 DEF TypeOK
  <2>8. \A u \in Workers : Knows(worker'[u], request, provider')
    BY <2>2, <2>6, <2>7
  <2> QED BY <1>13, <2>1, <2>4, <2>8, InvMoney DEF CallProvider
<1>14. ASSUME NEW w \in Workers, RecordRefund(w)
       PROVE  IInv'
  <2>1. /\ worker[w].pc = "row" /\ Goto(w, "check")
        /\ refundRow' = [refundRow EXCEPT ![worker[w].refund] = "processed"]
    BY <1>14 DEF RecordRefund
  <2>2. /\ Agreed(worker[w].refund, request, provider)
        /\ provider.paid >= request.refund /\ request.status # "none"
    BY <1>0, <2>1 DEF Knows
  <2>3. RowsAgreed(request, refundRow', provider)
    BY <2>1, <2>2 DEF IInv, RowsAgreed, TypeOK
  <2>4. \A u \in Workers : Knows(worker'[u], request, provider)
    BY <2>1, <2>2, GotoKnows DEF WorkerPCs
  <2> QED BY <1>0, <1>14, <2>2, <2>3, <2>4, InvStill DEF RecordRefund
<1>15. ASSUME NEW w \in Workers, CheckCancellable(w)
       PROVE  IInv'
  BY <1>15, PastKnows, InvGoto DEF CheckCancellable, WorkerPCs, PastRefund
<1>16. ASSUME NEW w \in Workers, SetCancelled(w)
       PROVE  IInv'
  <2>1. booking'.paymentStatus = booking.paymentStatus /\ booking'.refund = booking.refund
    BY <1>16 DEF SetCancelled, TypeOK, BookingRow
  <2>2. Shown(booking', provider)
    BY <1>0, <2>1 DEF Shown
  <2>3. \A u \in Workers : Knows(worker'[u], request, provider)
    BY <1>16, PastKnows, GotoKnows DEF SetCancelled, WorkerPCs, PastRefund
  <2> QED BY <1>0, <1>16, <2>2, <2>3, InvStill DEF SetCancelled
<1>17. ASSUME NEW w \in Workers, SetRefunded(w)
       PROVE  IInv'
  <2>1. worker[w].pc = "money" /\ Goto(w, "request")
    BY <1>17 DEF SetRefunded
  <2>2. /\ booking'.refund = request.refund
        /\ booking'.paymentStatus = IF request.refund > 0 THEN "refunded"
                                    ELSE worker[w].paymentStatus
    BY <1>17 DEF SetRefunded, TypeOK, BookingRow
  <2>3. provider.paid >= request.refund
    BY <2>1, PastKnows DEF PastRefund
  <2>4. ASSUME request.refund # 0
        PROVE  \E r \in RefundIds : r <= provider.issued /\ provider.amount[r] = request.refund
    <3>1. provider.paid # 0
      BY <2>3, <2>4 DEF TypeOK, ProviderState, RequestRow
    <3> QED BY <3>1 DEF IInv, MoneyAgreed, Agreed
  <2>5. request.refund # 0 => provider.issued > 0
    BY <2>4 DEF TypeOK, ProviderState, RefundIds
  <2>6. booking'.paymentStatus = "refunded" => provider.issued > 0
    <3>1. CASE request.refund = 0
      BY <1>0, <2>2, <3>1 DEF Knows
    <3>2. CASE request.refund # 0
      BY <2>5, <3>2
    <3> QED BY <3>1, <3>2
  <2>7. Shown(booking', provider)
    BY <2>2, <2>4, <2>6 DEF Shown
  <2>8. \A u \in Workers : Knows(worker'[u], request, provider)
    BY <2>1, <2>3, GotoKnows DEF WorkerPCs
  <2> QED BY <1>0, <1>17, <2>7, <2>8, InvStill DEF SetRefunded
<1>18. ASSUME NEW w \in Workers, SetApplied(w)
       PROVE  IInv'
  <2>1. /\ worker[w].pc = "request" /\ Goto(w, "emit")
        /\ UNCHANGED <<booking, refundRow, provider, announced>>
        /\ request'.status = "applied" /\ request'.refund = request.refund
    BY <1>18 DEF SetApplied, TypeOK, RequestRow
  <2>2. provider.paid >= request.refund /\ request.status # "none"
    BY <2>1, PastKnows DEF PastRefund
  <2>3. PICK next \in WorkerState : /\ worker' = [worker EXCEPT ![w] = next]
                                    /\ next.pc = "emit"
                                    /\ next.refund = worker[w].refund
                                    /\ next.paymentStatus = worker[w].paymentStatus
    BY <2>1, GotoState DEF TypeOK, WorkerPCs
  <2>4. \A u \in Workers : Knows(worker[u], request', provider)
    BY <1>0, <2>1, <2>2 DEF Knows, Agreed
  <2>5. Knows(next, request', provider)
    BY <2>1, <2>2, <2>3, <2>4 DEF Knows
  <2>6. \A u \in Workers : worker'[u] = IF u = w THEN next ELSE worker[u]
    BY <2>3 DEF TypeOK
  <2>7. \A u \in Workers : Knows(worker'[u], request', provider)
    BY <2>4, <2>5, <2>6
  <2>8. /\ RequestComesFirst(request', refundRow, provider)
        /\ MoneyAgreed(request', provider)
        /\ RowsAgreed(request', refundRow, provider)
        /\ AppliedIsPaid(request', provider)
    BY <2>1, <2>2 DEF IInv, RequestComesFirst, MoneyAgreed, RowsAgreed, Agreed, AppliedIsPaid
  <2> QED BY <1>0, <2>1, <2>7, <2>8 DEF IInv
<1>19. ASSUME NEW w \in Workers, EmitCancelled(w)
       PROVE  IInv'
  <2>1. request.status = "applied" /\ worker[w].pc # "idle"
    BY <1>0, <1>19 DEF EmitCancelled, Knows
  <2>2. \A u \in Workers : Knows(worker'[u], request, provider)
    BY <1>19, <2>1, GotoKnows DEF EmitCancelled, WorkerPCs, PastRefund
  <2> QED BY <1>0, <1>19, <2>1, <2>2, InvStill DEF EmitCancelled
<1>20. ASSUME NEW w \in Workers, StepThrows(w)
       PROVE  IInv'
  <2>1. CASE Goto(w, "compensate")
    BY <1>20, <2>1, InvGoto DEF StepThrows, WorkerPCs, PastRefund
  <2>2. CASE Goto(w, "failed")
    BY <1>20, <2>2, InvGoto DEF StepThrows, WorkerPCs, PastRefund
  <2> QED BY <1>20, <2>1, <2>2 DEF StepThrows
<1>21. ASSUME NEW w \in Workers, Compensate(w)
       PROVE  IInv'
  <2>1. \A u \in Workers : Knows(worker'[u], request, provider)
    BY <1>21, GotoKnows DEF Compensate, WorkerPCs, PastRefund
  <2>2. CASE UNCHANGED refundRow
    BY <1>0, <1>21, <2>1, <2>2, InvStill DEF Compensate
  <2>3. CASE refundRow' = [refundRow EXCEPT ![worker[w].refund] = "rejected"]
    <3>1. request.status # "none"
      BY <1>0, <1>21 DEF Compensate, Knows
    <3>2. worker[w].refund # 0 => Agreed(worker[w].refund, request, provider)
      BY <1>0 DEF Knows
    <3>3. RowsAgreed(request, refundRow', provider)
      BY <2>3, <3>2 DEF IInv, RowsAgreed, TypeOK, RefundIds
    <3> QED BY <1>0, <1>21, <2>1, <3>1, <3>3, InvStill DEF Compensate
  <2> QED BY <1>21, <2>2, <2>3 DEF Compensate
<1>22. ASSUME NEW w \in Workers, Crash(w)
       PROVE  IInv'
  BY <1>22, InvGoto DEF Crash, WorkerPCs, PastRefund
<1>23. CASE UNCHANGED vars
  BY <1>0, <1>23, InvStill DEF vars
<1> QED
  BY <1>1, <1>2, <1>3, <1>4, <1>5, <1>6, <1>7, <1>8, <1>9, <1>10, <1>11, <1>12, <1>13,
     <1>14, <1>15, <1>16, <1>17, <1>18, <1>19, <1>20, <1>21, <1>22, <1>23
     DEF Next, WorkerStep

LEMMA Invariance == Spec => [](TypeOK /\ IInv)
<1> USE CancellationAssumption
<1>1. Init => TypeOK /\ IInv
  BY TypeInit, InvInit
<1>2. (TypeOK /\ IInv) /\ [Next]_vars => (TypeOK /\ IInv)'
  BY TypeNext, InvNext
<1> QED BY <1>1, <1>2, PTL DEF Spec

\* Whatever fails, crashes or runs twice, whoever writes the booking row and whatever
\* the provider forgets or refunds by hand: every refund row stands for a refund of
\* the agreed amount, every refund shown for one of that amount, and no booking shows
\* "refunded" nor a request "applied" ahead of the money.
THEOREM BooksBacked == Spec => []BooksAreBacked
<1>1. TypeOK /\ IInv => BooksAreBacked
  BY DEF IInv, RowsAgreed, Agreed, Shown, Issued, AppliedIsPaid, BooksAreBacked
<1> QED BY <1>1, Invariance, PTL

\* Whoever hears booking:cancelled from the workflow finds the request applied
\* and the refund returned, then and for ever after.
THEOREM AnnouncedApplied == Spec => []AnnouncedIsApplied
<1>1. TypeOK /\ IInv => AnnouncedIsApplied
  BY DEF IInv, AppliedIsPaid, AnnouncedIsApplied
<1> QED BY <1>1, Invariance, PTL

------------------------------------------------------------------------------
(* The refinement.                                                         *)

\* The contract sees three things only: request status and amount, money paid. A
\* refund by hand is none of them.
LEMMA QuietSteps ==
    ASSUME CancellationAssumption, TypeOK, [Next]_vars,
           ~ \E q \in Requesters : InsertRequest(q),
           ~ \E w \in Workers : CallProvider(w) \/ SetApplied(w),
           ~ ForgetKey
    PROVE  /\ UNCHANGED request
           /\ provider'.paid = provider.paid
           /\ provider'.remembered = provider.remembered
           /\ provider'.forgot = provider.forgot
<1>1. ASSUME NEW p \in Payments, ReturnByHand(p)
      PROVE  /\ UNCHANGED request
             /\ provider'.paid = provider.paid
             /\ provider'.remembered = provider.remembered
             /\ provider'.forgot = provider.forgot
  <2>1. PICK amount \in 1..Price[p] : CanReturn(p, amount) /\ provider' = Return(p, amount)
    BY <1>1 DEF ReturnByHand
  <2>2. amount \in Nat
    BY DEF CancellationAssumption
  <2>3. /\ Return(p, amount).paid = provider.paid
        /\ Return(p, amount).remembered = provider.remembered
        /\ Return(p, amount).forgot = provider.forgot
    BY <2>1, <2>2, ReturnTyped
  <2> QED BY <1>1, <2>1, <2>3 DEF ReturnByHand
<1>2. CASE ~ \E p \in Payments : ReturnByHand(p)
  BY <1>2 DEF Next, WorkerStep, vars, RecordAttempt, ShowOutcome, ReportRefund,
       CheckTransition, WriteStatus, ReadRefundable, LoadRequest, LoadBooking, FindAttempt,
       RecordRefund, CheckCancellable, SetCancelled, SetRefunded, EmitCancelled,
       StepThrows, Compensate, Crash
<1> QED BY <1>1, <1>2

LEMMA ProviderCall ==
    ASSUME CancellationAssumption, TypeOK, IInv, OneRefund, NEW w \in Workers, CallProvider(w)
    PROVE  /\ OneRefund'
           /\ [Contract!PayOut]_(Contract!contractVars)
<1>1. UNCHANGED request /\ request.refund > 0 /\ request.status # "none"
  BY DEF CallProvider, IInv, Knows
<1>2. /\ provider.paid \in Nat /\ provider.issued \in Nat /\ request.refund \in Nat
      /\ request.status \in {"none", "requested", "applied"} /\ provider.forgot \in BOOLEAN
  BY DEF TypeOK, ProviderState, RequestRow
<1>3. CASE RepeatAnswer
  BY <1>1, <1>3 DEF RepeatAnswer, OneRefund, FirstPaid, Contract!contractVars
<1>4. CASE IssueRefund(worker[w].attempt)
  <2>1. /\ provider.remembered = 0
        /\ provider'.remembered = provider.issued + 1
        /\ provider'.paid = provider.paid + request.refund
        /\ provider'.forgot = provider.forgot
    BY <1>4, IssueTyped
  <2>2. CASE provider.forgot
    BY <1>1, <2>1, <2>2 DEF OneRefund, FirstPaid, Contract!contractVars
  <2>3. CASE ~provider.forgot
    <3>1. provider.paid = 0 /\ provider'.paid = request.refund /\ provider'.remembered # 0
      BY <1>2, <2>1, <2>3 DEF OneRefund
    <3>2. request.status = "requested"
      BY <1>1, <1>2, <3>1 DEF IInv, AppliedIsPaid
    <3> QED BY <1>1, <2>1, <2>3, <3>1, <3>2
               DEF OneRefund, FirstPaid, Contract!PayOut, Contract!contractVars
  <2> QED BY <1>2, <2>2, <2>3
<1> QED BY <1>3, <1>4 DEF CallProvider

\* The key is forgotten after it was used, when what is due has been paid.
LEMMA ForgetsWhatIsPaid ==
    ASSUME CancellationAssumption, TypeOK, IInv, OneRefund, ForgetKey
    PROVE  OneRefund' /\ UNCHANGED Contract!contractVars
<1>1. /\ UNCHANGED request /\ provider.remembered # 0
      /\ provider'.forgot = TRUE /\ provider.forgot \in BOOLEAN
  BY DEF ForgetKey, TypeOK, ProviderState
<1>2. request.status # "none"
  BY <1>1 DEF IInv, RequestComesFirst
<1> QED BY <1>1, <1>2 DEF OneRefund, FirstPaid, Contract!contractVars

LEMMA OneRefundNext ==
    ASSUME CancellationAssumption, TypeOK, IInv, OneRefund, [Next]_vars
    PROVE  OneRefund'
<1>1. ASSUME NEW q \in Requesters, InsertRequest(q)
      PROVE  OneRefund'
  BY <1>1 DEF InsertRequest, OneRefund, IInv, RequestComesFirst
<1>2. ASSUME NEW w \in Workers, CallProvider(w)
      PROVE  OneRefund'
  BY <1>2, ProviderCall
<1>3. ASSUME NEW w \in Workers, SetApplied(w)
      PROVE  OneRefund'
  BY <1>3 DEF SetApplied, OneRefund, TypeOK, RequestRow
<1>4. CASE ForgetKey
  BY <1>4, ForgetsWhatIsPaid
<1>5. CASE /\ UNCHANGED request /\ provider'.paid = provider.paid
           /\ provider'.remembered = provider.remembered /\ provider'.forgot = provider.forgot
  BY <1>5 DEF OneRefund
<1> QED BY <1>1, <1>2, <1>3, <1>4, <1>5, QuietSteps

LEMMA StepKeepsContract ==
    ASSUME CancellationAssumption, TypeOK, IInv, OneRefund, [Next]_vars
    PROVE  [Contract!Next]_(Contract!contractVars)
<1>1. ASSUME NEW q \in Requesters, InsertRequest(q)
      PROVE  Contract!Agree
  <2>1. UNCHANGED provider /\ ~provider.forgot
    BY <1>1 DEF InsertRequest, OneRefund
  <2> QED BY <1>1, <2>1 DEF InsertRequest, TypeOK, RequesterState, FirstPaid, Contract!Agree
<1>2. ASSUME NEW w \in Workers, CallProvider(w)
      PROVE  [Contract!PayOut]_(Contract!contractVars)
  BY <1>2, ProviderCall
<1>3. ASSUME NEW w \in Workers, SetApplied(w)
      PROVE  [Contract!Settle]_(Contract!contractVars)
  <2>1. /\ request'.status = "applied" /\ request'.refund = request.refund
        /\ UNCHANGED provider
    BY <1>3 DEF SetApplied, TypeOK, RequestRow
  <2>2. provider.paid >= request.refund /\ request.status # "none"
    BY <1>3, PastKnows DEF SetApplied, PastRefund
  <2>3. FirstPaid = request.refund /\ FirstPaid' = FirstPaid
    BY <2>1, <2>2 DEF OneRefund, FirstPaid, TypeOK, RequestRow, ProviderState
  <2>4. request.status \in {"requested", "applied"}
    BY <2>2 DEF TypeOK, RequestRow
  <2> QED BY <2>1, <2>3, <2>4 DEF Contract!Settle, Contract!contractVars
<1>4. ASSUME ForgetKey
      PROVE  UNCHANGED Contract!contractVars
  BY <1>4, ForgetsWhatIsPaid
<1>5. CASE /\ UNCHANGED request /\ provider'.paid = provider.paid
           /\ provider'.forgot = provider.forgot
  BY <1>5 DEF FirstPaid, Contract!contractVars
<1> QED BY <1>1, <1>2, <1>3, <1>4, <1>5, QuietSteps DEF Contract!Next

\* Any number of concurrent, failing, crashing and repeated executions of the workflow
\* keep the contract: until the provider forgets the idempotency key the agreed amount
\* goes back at most once in the request's name, and no request is ever applied before
\* it has.
THEOREM ImplementsContract == Spec => KeepsContract
<1> USE CancellationAssumption
<1>1. Init => OneRefund /\ Contract!Init
  BY DEF Init, OneRefund, FirstPaid, Contract!Init
<1>2. (TypeOK /\ IInv) /\ OneRefund /\ [Next]_vars => OneRefund'
  BY OneRefundNext
<1>3. (TypeOK /\ IInv) /\ OneRefund /\ [Next]_vars
          => [Contract!Next]_(Contract!contractVars)
  BY StepKeepsContract
<1> QED BY <1>1, <1>2, <1>3, Invariance, PTL DEF Spec, KeepsContract, Contract!Spec

------------------------------------------------------------------------------
(* The webhooks that tell of captures and refunds: how a notification is   *)
(* received and recorded. PaymentWebhook shares no state with Cancellation, *)
(* which has what the notifications write.                                 *)

------------------------------------------------------------------------------
(* Type correctness.                                                       *)

HandlerState == [pc : HandlerPCs, note : Notifications, trusted : BOOLEAN]

LEMMA IdleTyped ==
    ASSUME NotificationAssumption
    PROVE  Idle \in HandlerState /\ Idle.pc = "idle"
BY DEF NotificationAssumption, Idle, HandlerState, HandlerPCs

LEMMA WebhookTypeInit ==
    ASSUME NotificationAssumption, WebhookInit
    PROVE  WebhookTypeOK
BY IdleTyped DEF NotificationAssumption, WebhookInit, WebhookTypeOK, HandlerState

\* What every step of a delivery does to the handlers.
LEMMA HandlersTyped ==
    ASSUME NotificationAssumption, WebhookTypeOK, NEW h \in Handlers
    PROVE  /\ \A pc \in HandlerPCs : Advance(h, pc) => handler' \in [Handlers -> HandlerState]
           /\ \A code \in {"accepted", "refused"} : Answer(h, code) =>
                  /\ handler' \in [Handlers -> HandlerState]
                  /\ answer' \in [Notifications -> {"none", "accepted", "refused"}]
           /\ handler' = [handler EXCEPT ![h] = Idle] => handler' \in [Handlers -> HandlerState]
<1>1. handler \in [Handlers -> HandlerState] /\ Idle \in HandlerState
  BY IdleTyped DEF WebhookTypeOK, HandlerState
<1>2. ASSUME NEW pc \in HandlerPCs, Advance(h, pc)
      PROVE  handler' \in [Handlers -> HandlerState]
  BY <1>1, <1>2 DEF Advance, HandlerState
<1>3. handler' = [handler EXCEPT ![h] = Idle] => handler' \in [Handlers -> HandlerState]
  BY <1>1
<1>4. ASSUME NEW code \in {"accepted", "refused"}, Answer(h, code)
      PROVE  answer' \in [Notifications -> {"none", "accepted", "refused"}]
  BY <1>4 DEF Answer, WebhookTypeOK
<1> QED BY <1>2, <1>3, <1>4 DEF Answer

LEMMA WebhookTypeNext ==
    ASSUME NotificationAssumption, WebhookTypeOK, [WebhookNext]_webhookVars
    PROVE  WebhookTypeOK'
<1> USE DEF WebhookTypeOK
<1>1. ASSUME NEW h \in Handlers, NEW n \in Notifications, Deliver(h, n)
      PROVE  WebhookTypeOK'
  <2>1. [pc |-> "lookup", note |-> n, trusted |-> config.validated /\ config.active] \in HandlerState
    BY DEF HandlerState, HandlerPCs
  <2> QED BY <1>1, <2>1 DEF Deliver, HandlerState
<1>2. ASSUME NEW h \in Handlers, LookUpEvent(h)
      PROVE  WebhookTypeOK'
  BY <1>2, HandlersTyped DEF LookUpEvent, HandlerPCs, HandlerState
<1>3. ASSUME NEW h \in Handlers, InsertEvent(h)
      PROVE  WebhookTypeOK'
  <2>1. FirstEffect(handler[h].note) \in HandlerPCs
    BY DEF FirstEffect, HandlerPCs
  <2> QED BY <1>3, <2>1, HandlersTyped DEF InsertEvent, HandlerState
<1>4. ASSUME NEW h \in Handlers, RefuseDuplicate(h)
      PROVE  WebhookTypeOK'
  BY <1>4, HandlersTyped DEF RefuseDuplicate, HandlerState
<1>5. ASSUME NEW h \in Handlers, UpsertAttempt(h)
      PROVE  WebhookTypeOK'
  BY <1>5, HandlersTyped DEF UpsertAttempt, HandlerState, HandlerPCs
<1>6. ASSUME NEW h \in Handlers, SetPaymentStatus(h)
      PROVE  WebhookTypeOK'
  BY <1>6, HandlersTyped DEF SetPaymentStatus, HandlerState, HandlerPCs
<1>7. ASSUME NEW h \in Handlers, MarkProcessed(h)
      PROVE  WebhookTypeOK'
  BY <1>7, HandlersTyped DEF MarkProcessed, HandlerState, HandlerPCs
<1>8. ASSUME NEW h \in Handlers, ActivateConfig(h)
      PROVE  WebhookTypeOK'
  BY <1>8, HandlersTyped DEF ActivateConfig, HandlerState
<1>9. ASSUME NEW h \in Handlers, Fail(h)
      PROVE  WebhookTypeOK'
  BY <1>9, HandlersTyped DEF Fail, HandlerState, NotificationAssumption
<1>10. ASSUME Reconnect
       PROVE  WebhookTypeOK'
  <2>1. config' \in [validated : BOOLEAN, active : BOOLEAN]
    BY <1>10 DEF Reconnect
  <2>2. reconnects' \in 0..MaxReconnects
    BY <1>10 DEF Reconnect, NotificationAssumption
  <2> QED BY <1>10, <2>1, <2>2 DEF Reconnect
<1>11. ASSUME UNCHANGED webhookVars
       PROVE  WebhookTypeOK'
  BY <1>11 DEF webhookVars
<1> QED
  BY <1>1, <1>2, <1>3, <1>4, <1>5, <1>6, <1>7, <1>8, <1>9, <1>10, <1>11 DEF WebhookNext, HandlerStep

\* Rows, deliveries and answers keep their types.
THEOREM WebhookTypeCorrect == ASSUME NotificationAssumption PROVE WebhookSpec => []WebhookTypeOK
<1>1. WebhookInit => WebhookTypeOK
  BY WebhookTypeInit
<1>2. WebhookTypeOK /\ [WebhookNext]_webhookVars => WebhookTypeOK'
  BY WebhookTypeNext
<1> QED BY <1>1, <1>2, PTL DEF WebhookSpec

------------------------------------------------------------------------------
(* One delivery of a notification has its effects, in their order.         *)

\* The deliveries that have inserted their event.
Past(h) == handler[h].pc \in {"attempt", "booking", "mark", "config"}

\* The unique signature lets one delivery of a notification past the insert.
OnePast ==
    \A g, h \in Handlers : Past(g) /\ Past(h) /\ handler[g].note = handler[h].note => g = h

\* The effects of notification n are there.
Recorded(n) == Attempting(n) => attempt[Transaction[n]] # "none"
Effective(n) == Recorded(n) /\ (StatusSetting(n) => applied[n] = 1)

\* Where a delivery stands tells what its notification has done.
PositionsTell ==
    \A h \in Handlers : LET n == handler[h].note IN
        /\ handler[h].pc \in {"attempt", "booking"} => event[n] = "received" /\ applied[n] = 0
        /\ handler[h].pc = "booking" => Recorded(n)
        /\ handler[h].pc = "mark" => event[n] = "received" /\ Effective(n)
        /\ handler[h].pc = "config" => event[n] = "processed"

RowsTell ==
    \A n \in Notifications :
        /\ event[n] = "none" => applied[n] = 0
        /\ event[n] = "processed" => Effective(n)
        /\ answer[n] = "accepted" => event[n] = "processed"

\* A notification changes the payment status at most once.
AppliedOnce == \A n \in Notifications : applied[n] <= 1

EffectInv == WebhookTypeOK /\ OnePast /\ PositionsTell /\ RowsTell /\ AppliedOnce

LEMMA EffectInit ==
    ASSUME NotificationAssumption, WebhookInit
    PROVE  EffectInv
<1>1. WebhookTypeOK
  BY WebhookTypeInit
<1> QED BY <1>1, IdleTyped
           DEF EffectInv, WebhookInit, OnePast, Past, PositionsTell, RowsTell, AppliedOnce

LEMMA EffectNext ==
    ASSUME NotificationAssumption, EffectInv, [WebhookNext]_webhookVars
    PROVE  EffectInv'
<1>0. WebhookTypeOK /\ WebhookTypeOK'
  BY WebhookTypeNext DEF EffectInv
<1> DEFINE Elsewhere(h) == \A g \in Handlers \ {h} : handler'[g] = handler[g]
<1>a. ASSUME NEW h \in Handlers
      PROVE  /\ \A pc : Advance(h, pc) =>
                    /\ handler'[h].pc = pc /\ handler'[h].note = handler[h].note
                    /\ Elsewhere(h)
             /\ \A code : Answer(h, code) =>
                    /\ handler'[h] = Idle /\ Elsewhere(h)
                    /\ answer'[handler[h].note] = code
                    /\ \A n \in Notifications \ {handler[h].note} : answer'[n] = answer[n]
  BY <1>0 DEF WebhookTypeOK, Advance, Answer
<1>i. Idle.pc = "idle"
  BY IdleTyped
<1>1. ASSUME NEW h \in Handlers, NEW n \in Notifications, Deliver(h, n)
      PROVE  EffectInv'
  <2>1. handler'[h].pc = "lookup" /\ Elsewhere(h)
    BY <1>0, <1>1 DEF Deliver, WebhookTypeOK
  <2>2. OnePast' /\ PositionsTell' /\ RowsTell' /\ AppliedOnce'
    BY <1>1, <2>1 DEF Deliver, EffectInv, OnePast, Past, PositionsTell, RowsTell, AppliedOnce,
                      Effective, Recorded
  <2> QED BY <1>0, <2>2 DEF EffectInv
<1>2. ASSUME NEW h \in Handlers, LookUpEvent(h)
      PROVE  EffectInv'
  <2>1. handler'[h].pc \in {"idle", "insert"} /\ Elsewhere(h)
    BY <1>2, <1>a, <1>i DEF LookUpEvent
  <2>2. OnePast' /\ PositionsTell' /\ AppliedOnce'
    BY <1>2, <2>1 DEF LookUpEvent, EffectInv, OnePast, Past, PositionsTell, AppliedOnce,
                      Effective, Recorded
  <2>3. RowsTell'
    BY <1>0, <1>2, <1>a DEF LookUpEvent, EffectInv, RowsTell, Effective, Recorded
  <2> QED BY <1>0, <2>2, <2>3 DEF EffectInv
<1>3. ASSUME NEW h \in Handlers, InsertEvent(h)
      PROVE  EffectInv'
  <2> DEFINE n == handler[h].note
  <2>0. n \in Notifications
    BY <1>0 DEF WebhookTypeOK
  <2>1. /\ handler'[h].pc = FirstEffect(n) /\ handler'[h].note = n /\ Elsewhere(h)
        /\ event[n] = "none" /\ event' = [event EXCEPT ![n] = "received"]
        /\ attempt' = attempt /\ applied' = applied /\ answer' = answer
    BY <1>3, <1>a DEF InsertEvent
  <2>2. event'[n] = "received" /\ \A m \in Notifications \ {n} : event'[m] = event[m]
    BY <1>0, <2>0, <2>1 DEF WebhookTypeOK
  <2>3. applied[n] = 0
    BY <2>0, <2>1 DEF EffectInv, RowsTell
  <2>4. \A g \in Handlers : Past(g) => handler[g].note # n
    BY <2>1 DEF EffectInv, PositionsTell, Past
  <2>5. OnePast'
    BY <2>1, <2>4 DEF EffectInv, OnePast, Past
  <2>6. PositionsTell'
    <3> SUFFICES ASSUME NEW g \in Handlers
                 PROVE  LET m == handler'[g].note IN
                        /\ handler'[g].pc \in {"attempt", "booking"}
                               => event'[m] = "received" /\ applied[m] = 0
                        /\ handler'[g].pc = "booking" => Recorded(m)
                        /\ handler'[g].pc = "mark" => event'[m] = "received" /\ Effective(m)
                        /\ handler'[g].pc = "config" => event'[m] = "processed"
      BY <2>1 DEF PositionsTell, Effective, Recorded
    <3>1. CASE g = h
      BY <3>1, <2>1, <2>2, <2>3 DEF FirstEffect, Effective, Recorded, Attempting, StatusSetting
    <3>2. CASE g # h
      <4>1. handler[g].note \in Notifications
        BY <1>0 DEF WebhookTypeOK
      <4> QED BY <3>2, <4>1, <2>1, <2>2, <2>4 DEF EffectInv, PositionsTell, Past
    <3> QED BY <3>1, <3>2
  <2>7. RowsTell' /\ AppliedOnce'
    BY <2>0, <2>1, <2>2 DEF EffectInv, RowsTell, AppliedOnce, Effective, Recorded
  <2> QED BY <1>0, <2>5, <2>6, <2>7 DEF EffectInv
<1>4. ASSUME NEW h \in Handlers, RefuseDuplicate(h)
      PROVE  EffectInv'
  <2>1. handler'[h].pc = "idle" /\ Elsewhere(h)
    BY <1>4, <1>a, <1>i DEF RefuseDuplicate
  <2>2. OnePast' /\ PositionsTell' /\ AppliedOnce'
    BY <1>4, <2>1 DEF RefuseDuplicate, EffectInv, OnePast, Past, PositionsTell, AppliedOnce,
                      Effective, Recorded
  <2>3. RowsTell'
    BY <1>0, <1>4, <1>a DEF RefuseDuplicate, EffectInv, RowsTell, Effective, Recorded
  <2> QED BY <1>0, <2>2, <2>3 DEF EffectInv
<1>5. ASSUME NEW h \in Handlers, UpsertAttempt(h)
      PROVE  EffectInv'
  <2> DEFINE n == handler[h].note
  <2>0. n \in Notifications /\ Transaction[n] \in Transactions
    BY <1>0 DEF WebhookTypeOK, NotificationAssumption
  <2>1. /\ handler[h].pc = "attempt"
        /\ handler'[h].pc = "booking" /\ handler'[h].note = n /\ Elsewhere(h)
        /\ event' = event /\ applied' = applied /\ answer' = answer
    BY <1>5, <1>a DEF UpsertAttempt
  <2>2. /\ attempt'[Transaction[n]] # "none"
        /\ \A t \in Transactions : attempt[t] # "none" => attempt'[t] # "none"
    BY <1>0, <1>5, <2>0 DEF UpsertAttempt, WebhookTypeOK
  <2>3. \A m \in Notifications : (Recorded(m) => Recorded(m)') /\ (Effective(m) => Effective(m)')
    BY <2>1, <2>2 DEF Recorded, Effective, NotificationAssumption
  <2>4. Recorded(n)'
    BY <2>0, <2>1, <2>2 DEF Recorded
  <2>5. PositionsTell'
    BY <1>0, <2>1, <2>3, <2>4 DEF EffectInv, PositionsTell, WebhookTypeOK, Recorded
  <2>6. RowsTell' /\ AppliedOnce'
    BY <2>1, <2>3 DEF EffectInv, RowsTell, AppliedOnce
  <2>7. OnePast'
    BY <2>1 DEF EffectInv, OnePast, Past
  <2> QED BY <1>0, <2>5, <2>6, <2>7 DEF EffectInv
<1>6. ASSUME NEW h \in Handlers, SetPaymentStatus(h)
      PROVE  EffectInv'
  <2> DEFINE n == handler[h].note
  <2>0. n \in Notifications
    BY <1>0 DEF WebhookTypeOK
  <2>1. /\ handler[h].pc = "booking"
        /\ handler'[h].pc = "mark" /\ handler'[h].note = n /\ Elsewhere(h)
        /\ event' = event /\ attempt' = attempt /\ answer' = answer
        /\ applied' = [applied EXCEPT ![n] = @ + 1]
    BY <1>6, <1>a DEF SetPaymentStatus
  <2>2. event[n] = "received" /\ applied[n] = 0 /\ Recorded(n)
    BY <2>1 DEF EffectInv, PositionsTell
  <2>3. applied'[n] = 1 /\ \A m \in Notifications \ {n} : applied'[m] = applied[m]
    BY <1>0, <2>0, <2>1, <2>2 DEF WebhookTypeOK
  <2>4. /\ Effective(n)'
        /\ \A m \in Notifications \ {n} :
               (Recorded(m) => Recorded(m)') /\ (Effective(m) => Effective(m)')
    BY <2>0, <2>1, <2>2, <2>3 DEF Recorded, Effective
  <2>5. \A g \in Handlers \ {h} : Past(g) => handler[g].note # n
    BY <2>1 DEF EffectInv, OnePast, Past
  <2>6. OnePast'
    BY <2>1 DEF EffectInv, OnePast, Past
  <2>7. PositionsTell'
    <3> SUFFICES ASSUME NEW g \in Handlers
                 PROVE  /\ handler'[g].pc \in {"attempt", "booking"}
                               => event'[handler'[g].note] = "received"
                                      /\ applied'[handler'[g].note] = 0
                        /\ handler'[g].pc = "booking" =>
                               (Attempting(handler'[g].note)
                                   => attempt'[Transaction[handler'[g].note]] # "none")
                        /\ handler'[g].pc = "mark" =>
                               /\ event'[handler'[g].note] = "received"
                               /\ (Attempting(handler'[g].note)
                                      => attempt'[Transaction[handler'[g].note]] # "none")
                               /\ (StatusSetting(handler'[g].note)
                                      => applied'[handler'[g].note] = 1)
                        /\ handler'[g].pc = "config" => event'[handler'[g].note] = "processed"
      BY DEF PositionsTell, Effective, Recorded
    <3>1. CASE g = h
      BY <3>1, <2>1, <2>2, <2>4 DEF Effective, Recorded
    <3>2. CASE g # h
      <4>1. handler[g].note \in Notifications /\ handler'[g] = handler[g]
        BY <1>0, <2>1, <3>2 DEF WebhookTypeOK
      <4>2. CASE Past(g)
        BY <3>2, <4>1, <4>2, <2>1, <2>3, <2>5
           DEF EffectInv, PositionsTell, Effective, Recorded
      <4>3. CASE ~Past(g)
        BY <4>1, <4>3 DEF Past
      <4> QED BY <4>2, <4>3
    <3> QED BY <3>1, <3>2
  <2>8. RowsTell' /\ AppliedOnce'
    BY <2>0, <2>1, <2>2, <2>3, <2>4 DEF EffectInv, RowsTell, AppliedOnce
  <2> QED BY <1>0, <2>6, <2>7, <2>8 DEF EffectInv
<1>7. ASSUME NEW h \in Handlers, MarkProcessed(h)
      PROVE  EffectInv'
  <2> DEFINE n == handler[h].note
  <2>0. n \in Notifications
    BY <1>0 DEF WebhookTypeOK
  <2>1. /\ handler[h].pc = "mark" /\ Elsewhere(h)
        /\ handler'[h].pc \in {"idle", "config"}
        /\ handler'[h].pc = "config" => handler'[h].note = n
        /\ event' = [event EXCEPT ![n] = "processed"]
        /\ attempt' = attempt /\ applied' = applied
        /\ \A m \in Notifications \ {n} : answer'[m] = answer[m]
    BY <1>7, <1>a, <1>i DEF MarkProcessed
  <2>2. event'[n] = "processed" /\ \A m \in Notifications \ {n} : event'[m] = event[m]
    BY <1>0, <2>0, <2>1 DEF WebhookTypeOK
  <2>3. Effective(n)
    BY <2>1 DEF EffectInv, PositionsTell
  <2>4. \A m \in Notifications : (Recorded(m)' <=> Recorded(m)) /\ (Effective(m)' <=> Effective(m))
    BY <2>1 DEF Recorded, Effective
  <2>5. \A g \in Handlers \ {h} : Past(g) => handler[g].note # n
    BY <2>1 DEF EffectInv, OnePast, Past
  <2>6. OnePast'
    BY <2>1 DEF EffectInv, OnePast, Past
  <2>7. PositionsTell'
    <3> SUFFICES ASSUME NEW g \in Handlers
                 PROVE  /\ handler'[g].pc \in {"attempt", "booking"}
                               => event'[handler'[g].note] = "received"
                                      /\ applied'[handler'[g].note] = 0
                        /\ handler'[g].pc = "booking" =>
                               (Attempting(handler'[g].note)
                                   => attempt'[Transaction[handler'[g].note]] # "none")
                        /\ handler'[g].pc = "mark" =>
                               /\ event'[handler'[g].note] = "received"
                               /\ (Attempting(handler'[g].note)
                                      => attempt'[Transaction[handler'[g].note]] # "none")
                               /\ (StatusSetting(handler'[g].note)
                                      => applied'[handler'[g].note] = 1)
                        /\ handler'[g].pc = "config" => event'[handler'[g].note] = "processed"
      BY DEF PositionsTell, Effective, Recorded
    <3>1. CASE g = h
      BY <3>1, <2>1, <2>2
    <3>2. CASE g # h
      <4>1. handler[g].note \in Notifications /\ handler'[g] = handler[g]
        BY <1>0, <2>1, <3>2 DEF WebhookTypeOK
      <4>2. CASE Past(g)
        BY <3>2, <4>1, <4>2, <2>1, <2>2, <2>5
           DEF EffectInv, PositionsTell, Effective, Recorded
      <4>3. CASE ~Past(g)
        BY <4>1, <4>3 DEF Past
      <4> QED BY <4>2, <4>3
    <3> QED BY <3>1, <3>2
  <2>8. RowsTell' /\ AppliedOnce'
    BY <2>0, <2>1, <2>2, <2>3, <2>4 DEF EffectInv, RowsTell, AppliedOnce
  <2> QED BY <1>0, <2>6, <2>7, <2>8 DEF EffectInv
<1>8. ASSUME NEW h \in Handlers, ActivateConfig(h)
      PROVE  EffectInv'
  <2>1. handler'[h].pc = "idle" /\ Elsewhere(h)
    BY <1>8, <1>a, <1>i DEF ActivateConfig
  <2>2. OnePast' /\ PositionsTell' /\ AppliedOnce'
    BY <1>8, <2>1 DEF ActivateConfig, EffectInv, OnePast, Past, PositionsTell, AppliedOnce,
                      Effective, Recorded
  <2>3. event[handler[h].note] = "processed"
    BY <1>8 DEF ActivateConfig, EffectInv, PositionsTell
  <2>4. RowsTell'
    BY <1>0, <1>8, <1>a, <2>3 DEF ActivateConfig, EffectInv, RowsTell, Effective, Recorded
  <2> QED BY <1>0, <2>2, <2>4 DEF EffectInv
<1>9. ASSUME NEW h \in Handlers, Fail(h)
      PROVE  EffectInv'
  <2>1. handler'[h].pc = "idle" /\ Elsewhere(h)
    BY <1>0, <1>9, <1>a, <1>i DEF Fail, WebhookTypeOK
  <2>2. OnePast' /\ PositionsTell' /\ AppliedOnce'
    BY <1>9, <2>1 DEF Fail, EffectInv, OnePast, Past, PositionsTell, AppliedOnce,
                      Effective, Recorded
  <2>3. RowsTell'
    BY <1>0, <1>9, <1>a DEF Fail, EffectInv, RowsTell, Effective, Recorded
  <2> QED BY <1>0, <2>2, <2>3 DEF EffectInv
<1>10. ASSUME Reconnect \/ UNCHANGED webhookVars
       PROVE  EffectInv'
  BY <1>0, <1>10 DEF Reconnect, webhookVars, EffectInv, OnePast, Past, PositionsTell, RowsTell,
                     AppliedOnce, Effective, Recorded
<1> QED
  BY <1>1, <1>2, <1>3, <1>4, <1>5, <1>6, <1>7, <1>8, <1>9, <1>10 DEF WebhookNext, HandlerStep

LEMMA EffectAlways == ASSUME NotificationAssumption PROVE WebhookSpec => []EffectInv
<1>1. WebhookInit => EffectInv
  BY EffectInit
<1>2. EffectInv /\ [WebhookNext]_webhookVars => EffectInv'
  BY EffectNext
<1> QED BY <1>1, <1>2, PTL DEF WebhookSpec

\* However often and however concurrently a notification is delivered, and whatever
\* fails in between, it sets the payment status at most once.
THEOREM AppliesOnce == ASSUME NotificationAssumption PROVE WebhookSpec => []AppliedOnce
<1>1. EffectInv => AppliedOnce
  BY DEF EffectInv
<1> QED BY <1>1, EffectAlways, PTL

\* Code 0 is answered only for what is recorded and has had its effects.
THEOREM AcceptsWhatIsApplied ==
    ASSUME NotificationAssumption
    PROVE  WebhookSpec => []AcceptedIsApplied
<1>1. EffectInv => AcceptedIsApplied
  BY DEF EffectInv, AcceptedIsApplied, RowsTell, Effective, Recorded
<1> QED BY <1>1, EffectAlways, PTL

------------------------------------------------------------------------------
(* The refinement of WebhookContract.                                      *)

\* The notifications whose latest answer is an acceptance.
Accepted == {n \in Notifications : answer[n] = "accepted"}

\* The answer that ends a delivery adds its notification to the accepted ones, or
\* takes it away.
LEMMA AnswerAccepts ==
    ASSUME WebhookTypeOK, NEW h \in Handlers
    PROVE  /\ Answer(h, "accepted") => Accepted' = Accepted \cup {handler[h].note}
           /\ Answer(h, "refused") => Accepted' = Accepted \ {handler[h].note}
           /\ UNCHANGED answer => Accepted' = Accepted
<1>1. handler[h].note \in Notifications /\ answer \in [Notifications -> {"none", "accepted", "refused"}]
  BY DEF WebhookTypeOK
<1> QED BY <1>1 DEF Answer, Accepted

\* Only a delivery of a notification with an effect comes to write it.
EffectIsDue ==
    \A h \in Handlers :
        handler[h].pc \in {"attempt", "booking"} => StatusSetting(handler[h].note)

LEMMA EffectIsDueNext ==
    ASSUME NotificationAssumption, WebhookTypeOK, EffectIsDue, [WebhookNext]_webhookVars
    PROVE  EffectIsDue'
<1>i. Idle.pc = "idle"
  BY IdleTyped
<1>a. ASSUME NEW h \in Handlers
      PROVE  /\ \A pc : Advance(h, pc) =>
                    handler'[h].pc = pc /\ handler'[h].note = handler[h].note
             /\ \A code : Answer(h, code) => handler'[h] = Idle
             /\ (\E pc : Advance(h, pc)) \/ (\E code : Answer(h, code)) =>
                    \A g \in Handlers \ {h} : handler'[g] = handler[g]
  BY DEF WebhookTypeOK, Advance, Answer
<1>1. ASSUME NEW h \in Handlers, NEW n \in Notifications, Deliver(h, n)
      PROVE  EffectIsDue'
  BY <1>1 DEF Deliver, EffectIsDue, StatusSetting, Attempting, Capturing, WebhookTypeOK
<1>2. ASSUME NEW h \in Handlers, InsertEvent(h)
      PROVE  EffectIsDue'
  BY <1>2, <1>a DEF InsertEvent, FirstEffect, EffectIsDue, StatusSetting, Attempting, Capturing
<1>3. ASSUME NEW h \in Handlers, UpsertAttempt(h)
      PROVE  EffectIsDue'
  BY <1>3, <1>a DEF UpsertAttempt, EffectIsDue, StatusSetting, Attempting, Capturing
<1>4. ASSUME NEW h \in Handlers,
             LookUpEvent(h) \/ RefuseDuplicate(h) \/ SetPaymentStatus(h)
                 \/ MarkProcessed(h) \/ ActivateConfig(h)
      PROVE  EffectIsDue'
  <2>1. handler'[h].pc \notin {"attempt", "booking"}
    BY <1>4, <1>a, <1>i DEF LookUpEvent, RefuseDuplicate, SetPaymentStatus, MarkProcessed, ActivateConfig
  <2>2. \A g \in Handlers \ {h} : handler'[g] = handler[g]
    BY <1>4, <1>a DEF LookUpEvent, RefuseDuplicate, SetPaymentStatus, MarkProcessed, ActivateConfig
  <2> QED BY <2>1, <2>2 DEF EffectIsDue, StatusSetting, Attempting, Capturing
<1>5. ASSUME NEW h \in Handlers, Fail(h)
      PROVE  EffectIsDue'
  <2>1. handler'[h] = Idle /\ \A g \in Handlers \ {h} : handler'[g] = handler[g]
    BY <1>5 DEF Fail, Answer, WebhookTypeOK
  <2> QED BY <1>i, <2>1 DEF EffectIsDue, StatusSetting, Attempting, Capturing
<1>6. ASSUME Reconnect \/ UNCHANGED webhookVars
      PROVE  EffectIsDue'
  BY <1>6 DEF Reconnect, webhookVars, EffectIsDue, StatusSetting, Attempting, Capturing
<1> QED BY <1>1, <1>2, <1>3, <1>4, <1>5, <1>6 DEF WebhookNext, HandlerStep

\* A step of the route maps to the step of the contract for its notification, or to a
\* stutter; the unique signature and the place of the delivery justify its guard.
LEMMA StepKeepsInbox ==
    ASSUME NotificationAssumption, EffectInv, EffectIsDue, [WebhookNext]_webhookVars
    PROVE  [Inbox!Next]_(Inbox!contractVars)
<1> DEFINE Quiet == UNCHANGED <<event, applied, answer>>
<1>0. WebhookTypeOK /\ \A h \in Handlers : handler[h].note \in Notifications
  BY DEF EffectInv, WebhookTypeOK
<1>1. ASSUME NEW h \in Handlers, NEW n \in Notifications, n = handler[h].note,
             HandlerStep(h) \/ Fail(h)
      PROVE  Inbox!Next \/ Quiet
  <2>0. /\ Answer(h, "accepted") => Accepted' = Accepted \cup {n}
        /\ Answer(h, "refused") => Accepted' = Accepted \ {n}
        /\ UNCHANGED answer => Accepted' = Accepted
    BY <1>0, <1>1, AnswerAccepts
  <2>1. CASE LookUpEvent(h)
    <3>1. Inbox!Accept(n) \/ Quiet
      BY <1>1, <2>0, <2>1 DEF LookUpEvent, Inbox!Accept, Accepted
    <3> QED BY <3>1 DEF Inbox!Next
  <2>2. CASE InsertEvent(h)
    <3>1. Inbox!Receive(n)
      BY <1>1, <2>0, <2>2 DEF InsertEvent, Inbox!Receive, Accepted
    <3> QED BY <3>1 DEF Inbox!Next
  <2>3. CASE RefuseDuplicate(h)
    <3>1. Inbox!Refuse(n)
      BY <1>1, <2>0, <2>3 DEF RefuseDuplicate, Inbox!Refuse, Accepted
    <3> QED BY <3>1 DEF Inbox!Next
  <2>4. CASE UpsertAttempt(h)
    BY <2>4 DEF UpsertAttempt
  <2>5. CASE SetPaymentStatus(h)
    <3>1. event[n] = "received" /\ applied[n] = 0 /\ StatusSetting(n)
      BY <1>1, <2>5 DEF SetPaymentStatus, EffectInv, PositionsTell, EffectIsDue
    <3>2. applied' = [applied EXCEPT ![n] = 1] /\ UNCHANGED <<event, answer>>
      BY <1>1, <2>5, <3>1 DEF SetPaymentStatus
    <3>3. Inbox!TakeEffect(n)
      BY <3>1, <3>2 DEF Inbox!TakeEffect
    <3> QED BY <3>3 DEF Inbox!Next
  <2>6. CASE MarkProcessed(h)
    <3>1. event[n] = "received" /\ (StatusSetting(n) => applied[n] = 1)
      BY <1>1, <2>6 DEF MarkProcessed, EffectInv, PositionsTell, Effective
    <3>2. Accepted' \in {Accepted, Accepted \cup {n}}
      BY <2>0, <2>6 DEF MarkProcessed
    <3>3. event' = [event EXCEPT ![n] = "processed"] /\ UNCHANGED applied
      BY <1>1, <2>6 DEF MarkProcessed
    <3>4. Inbox!Close(n)
      BY <3>1, <3>2, <3>3 DEF Inbox!Close, Accepted
    <3> QED BY <3>4 DEF Inbox!Next
  <2>7. CASE ActivateConfig(h)
    <3>1. event[n] = "processed"
      BY <1>1, <2>7 DEF ActivateConfig, EffectInv, PositionsTell
    <3>2. Inbox!Accept(n)
      BY <2>0, <2>7, <3>1 DEF ActivateConfig, Inbox!Accept, Accepted
    <3> QED BY <3>2 DEF Inbox!Next
  <2>8. CASE Fail(h)
    <3>1. Inbox!Refuse(n) \/ Quiet
      BY <2>0, <2>8 DEF Fail, Inbox!Refuse, Accepted
    <3> QED BY <3>1 DEF Inbox!Next
  <2> QED BY <1>1, <2>1, <2>2, <2>3, <2>4, <2>5, <2>6, <2>7, <2>8 DEF HandlerStep
<1>2. ASSUME NEW h \in Handlers, NEW n \in Notifications, Deliver(h, n)
      PROVE  Quiet
  BY <1>2 DEF Deliver
<1>3. ASSUME Reconnect \/ UNCHANGED webhookVars
      PROVE  Quiet
  BY <1>3 DEF Reconnect, webhookVars
<1>4. ASSUME Quiet
      PROVE  UNCHANGED Inbox!contractVars
  BY <1>4 DEF Inbox!contractVars
<1> HIDE DEF Quiet
<1>5. ASSUME NEW h \in Handlers, HandlerStep(h) \/ Fail(h)
      PROVE  Inbox!Next \/ Quiet
  <2>1. PICK n \in Notifications : n = handler[h].note
    BY <1>0
  <2> QED BY <1>1, <1>5, <2>1
<1>6. Inbox!Next \/ Quiet
  BY <1>2, <1>3, <1>5 DEF WebhookNext
<1> QED BY <1>4, <1>6

\* However deliveries race, fail and are repeated, the route keeps WebhookContract.
THEOREM ImplementsInbox == ASSUME NotificationAssumption PROVE WebhookSpec => KeepsInbox
<1>1. WebhookInit => Inbox!Init /\ EffectIsDue
  BY IdleTyped DEF WebhookInit, Inbox!Init, EffectIsDue
<1>2. EffectInv /\ EffectIsDue /\ [WebhookNext]_webhookVars
          => EffectIsDue' /\ [Inbox!Next]_(Inbox!contractVars)
  BY StepKeepsInbox, EffectIsDueNext DEF EffectInv
<1> QED BY <1>1, <1>2, EffectAlways, PTL DEF WebhookSpec, KeepsInbox, Inbox!Spec

------------------------------------------------------------------------------
(* What is stranded.                                                       *)

\* Without a failure a stored notification has the delivery that stored it; without
\* a failure and a reconnect, the config is active after the first notification or
\* a delivery is about to activate it.
Carried ==
    failures = 0 =>
        /\ \A n \in Notifications : event[n] = "received" =>
               \E h \in Handlers : /\ handler[h].pc \in {"attempt", "booking", "mark"}
                                   /\ handler[h].note = n
        /\ reconnects = 0 =>
               /\ \A h \in Handlers : handler[h].pc # "idle" /\ handler[h].trusted
                                          => config.validated /\ config.active
               /\ (\E n \in Notifications : event[n] = "processed")
                      => \/ config.validated /\ config.active
                         \/ \E h \in Handlers : handler[h].pc = "config"

LEMMA CarriedInit ==
    ASSUME NotificationAssumption, WebhookInit
    PROVE  Carried
BY IdleTyped DEF WebhookInit, Carried

LEMMA CarriedNext ==
    ASSUME NotificationAssumption, EffectInv, Carried, [WebhookNext]_webhookVars
    PROVE  Carried'
<1>0. WebhookTypeOK /\ WebhookTypeOK'
  BY WebhookTypeNext DEF EffectInv
<1> DEFINE Elsewhere(h) == \A g \in Handlers \ {h} : handler'[g] = handler[g]
<1>a. ASSUME NEW h \in Handlers
      PROVE  /\ \A pc : Advance(h, pc) =>
                    /\ handler'[h].pc = pc /\ handler'[h].note = handler[h].note
                    /\ handler'[h].trusted = handler[h].trusted
                    /\ Elsewhere(h)
             /\ \A code : Answer(h, code) => handler'[h] = Idle /\ Elsewhere(h)
  BY <1>0 DEF WebhookTypeOK, Advance, Answer
<1>i. Idle.pc = "idle"
  BY IdleTyped
<1>1. ASSUME NEW h \in Handlers, NEW n \in Notifications, Deliver(h, n)
      PROVE  Carried'
  <2>1. handler[h].pc = "idle" /\ handler'[h].pc = "lookup" /\ Elsewhere(h)
    BY <1>0, <1>1 DEF Deliver, WebhookTypeOK
  <2>2. handler'[h].trusted = (config.validated /\ config.active)
    BY <1>0, <1>1 DEF Deliver, WebhookTypeOK
  <2>3. handler'[h].trusted => config.validated /\ config.active
    BY <2>2
  <2> QED BY <1>1, <2>1, <2>3 DEF Deliver, Carried
<1>2. ASSUME NEW h \in Handlers, LookUpEvent(h) \/ RefuseDuplicate(h)
      PROVE  Carried'
  <2>1. /\ handler[h].pc \in {"lookup", "insert"} /\ handler'[h].pc \in {"idle", "insert"}
        /\ handler'[h].pc = "insert" => handler'[h].trusted = handler[h].trusted
        /\ Elsewhere(h)
    BY <1>2, <1>a, <1>i DEF LookUpEvent, RefuseDuplicate
  <2> QED BY <1>2, <2>1 DEF LookUpEvent, RefuseDuplicate, Carried
<1>3. ASSUME NEW h \in Handlers, InsertEvent(h)
      PROVE  Carried'
  <2> DEFINE n == handler[h].note
  <2>0. n \in Notifications
    BY <1>0 DEF WebhookTypeOK
  <2>1. /\ handler[h].pc = "insert"
        /\ handler'[h].pc \in {"attempt", "booking", "mark"} /\ handler'[h].note = n
        /\ handler'[h].trusted = handler[h].trusted /\ Elsewhere(h)
    BY <1>3, <1>a DEF InsertEvent, FirstEffect
  <2>2. event'[n] = "received" /\ \A m \in Notifications \ {n} : event'[m] = event[m]
    BY <1>0, <1>3, <2>0 DEF InsertEvent, WebhookTypeOK
  <2> QED BY <1>3, <2>0, <2>1, <2>2 DEF InsertEvent, Carried
<1>4. ASSUME NEW h \in Handlers, UpsertAttempt(h) \/ SetPaymentStatus(h)
      PROVE  Carried'
  <2>1. /\ handler[h].pc \in {"attempt", "booking"} /\ handler'[h].pc \in {"booking", "mark"}
        /\ handler'[h].note = handler[h].note /\ handler'[h].trusted = handler[h].trusted
        /\ Elsewhere(h)
    BY <1>4, <1>a DEF UpsertAttempt, SetPaymentStatus
  <2> QED BY <1>4, <2>1 DEF UpsertAttempt, SetPaymentStatus, Carried
<1>5. ASSUME NEW h \in Handlers, MarkProcessed(h)
      PROVE  Carried'
  <2> DEFINE n == handler[h].note
  <2>0. n \in Notifications
    BY <1>0 DEF WebhookTypeOK
  <2>1. /\ handler[h].pc = "mark" /\ Elsewhere(h)
        /\ handler[h].trusted => handler'[h].pc = "idle"
        /\ ~handler[h].trusted =>
               handler'[h].pc = "config" /\ handler'[h].trusted = handler[h].trusted
    BY <1>5, <1>a, <1>i DEF MarkProcessed
  <2>2. event'[n] = "processed" /\ \A m \in Notifications \ {n} : event'[m] = event[m]
    BY <1>0, <1>5, <2>0 DEF MarkProcessed, WebhookTypeOK
  <2>3. UNCHANGED <<config, failures, reconnects>>
    BY <1>5 DEF MarkProcessed
  <2>4. \A m \in Notifications : event'[m] = "received" => m # n /\ event[m] = "received"
    BY <2>2
  <2>5. \A g \in Handlers : handler[g].note # n => g # h
    OBVIOUS
  <2>6. CASE handler[h].trusted
    BY <2>1, <2>3, <2>4, <2>5, <2>6 DEF Carried
  <2>7. CASE ~handler[h].trusted
    BY <2>1, <2>3, <2>4, <2>5, <2>7 DEF Carried
  <2> QED BY <2>6, <2>7
<1>6. ASSUME NEW h \in Handlers, ActivateConfig(h)
      PROVE  Carried'
  <2>1. /\ handler[h].pc = "config" /\ handler'[h].pc = "idle" /\ Elsewhere(h)
        /\ config'.validated /\ config'.active
    BY <1>6, <1>a, <1>i DEF ActivateConfig
  <2> QED BY <1>6, <2>1 DEF ActivateConfig, Carried
<1>7. ASSUME NEW h \in Handlers, Fail(h)
      PROVE  Carried'
  BY <1>0, <1>7 DEF Fail, WebhookTypeOK, Carried
<1>8. ASSUME Reconnect
      PROVE  Carried'
  BY <1>0, <1>8 DEF Reconnect, WebhookTypeOK, Carried
<1>9. ASSUME UNCHANGED webhookVars
      PROVE  Carried'
  BY <1>9 DEF webhookVars, Carried
<1> QED
  BY <1>1, <1>2, <1>3, <1>4, <1>5, <1>6, <1>7, <1>8, <1>9 DEF WebhookNext, HandlerStep

\* Whatever is stranded, a notification half done or a config left inactive, a
\* failure or a reconnect stranded it.
THEOREM OnlyFailuresStrand ==
    ASSUME NotificationAssumption
    PROVE  WebhookSpec => []StrandedOnlyByFailure
<1>1. WebhookInit => EffectInv /\ Carried
  BY EffectInit, CarriedInit
<1>2. EffectInv /\ Carried /\ [WebhookNext]_webhookVars => (EffectInv /\ Carried)'
  BY EffectNext, CarriedNext
<1>3. EffectInv /\ Carried => StrandedOnlyByFailure
  <2> SUFFICES ASSUME EffectInv, Carried, failures = 0
               PROVE  /\ \A n \in Notifications : event[n] = "received" => Working(n)
                      /\ (/\ reconnects = 0
                          /\ \A n \in Notifications : ~Working(n)
                          /\ \E n \in Notifications : event[n] = "processed")
                             => config.validated /\ config.active
    BY DEF StrandedOnlyByFailure
  <2>1. \A h \in Handlers : handler[h].pc = "config" => Working(handler[h].note)
    BY DEF Working
  <2>2. \A h \in Handlers : handler[h].note \in Notifications
    BY DEF EffectInv, WebhookTypeOK
  <2>3. \A n \in Notifications : event[n] = "received" => Working(n)
    BY DEF Carried, Working
  <2>4. ASSUME reconnects = 0, \A n \in Notifications : ~Working(n),
               \E n \in Notifications : event[n] = "processed"
        PROVE  config.validated /\ config.active
    BY <2>1, <2>2, <2>4 DEF Carried
  <2> QED BY <2>3, <2>4
<1> QED BY <1>1, <1>2, <1>3, PTL DEF WebhookSpec
==============================================================================
