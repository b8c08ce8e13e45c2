---------------------------- MODULE PaymentWebhook ----------------------------
(***************************************************************************)
(* reconcilePaymentWebhook: the provider's notifications about one booking *)
(* as the webhook route takes them in, concurrently, out of order and more *)
(* than once, with the payment config they activate and the operator who   *)
(* may reconnect it. Every database statement is one action: the handler   *)
(* holds no transaction.                                                   *)
(***************************************************************************)
EXTENDS Naturals

CONSTANTS
    Notifications,  \* what the provider has to say about the booking
    Transactions,   \* provider transaction ids
    Kind,           \* Kind[n]: the webhook type of n
    Transaction,    \* Transaction[n]: the transaction n is about
    Handlers,       \* deliveries the server works on at the same time
    MaxFailures,    \* bound on statements that throw and processes that die
    MaxReconnects   \* bound on connectPaymentProvider calls

WebhookTypes == {"check", "pay", "fail", "confirm", "refund", "cancel"}

\* The request signature, endpoint:type:transaction, tells notifications apart.
ASSUME NotificationAssumption ==
    /\ Notifications # {}
    /\ Kind \in [Notifications -> WebhookTypes]
    /\ Transaction \in [Notifications -> Transactions]
    /\ \A m, n \in Notifications :
           Kind[m] = Kind[n] /\ Transaction[m] = Transaction[n] => m = n
    /\ MaxFailures \in Nat
    /\ MaxReconnects \in Nat

VARIABLES
    event,          \* payment_webhook_event rows, by request signature
    attempt,        \* booking_payment_attempt rows, by provider transaction
    paymentStatus,  \* of the booking
    config,         \* the organization's payment config: validated, active
    handler,        \* each delivery: pc, notification, config as it was read
    answer,         \* the latest answer the provider was given
    applied,        \* how often a notification has set the payment status
    failures,       \* statements that threw, processes that died
    reconnects      \* connectPaymentProvider calls

webhookVars == <<event, attempt, paymentStatus, config, handler, answer, applied,
          failures, reconnects>>

Capturing(n) == Kind[n] \in {"pay", "confirm"}
Attempting(n) == Capturing(n) \/ Kind[n] = "fail"
StatusSetting(n) == Attempting(n) \/ Kind[n] = "refund"

Idle == [pc |-> "idle", note |-> CHOOSE n \in Notifications : TRUE, trusted |-> FALSE]

WebhookInit ==
    /\ event = [n \in Notifications |-> "none"]
    /\ attempt = [t \in Transactions |-> "none"]
    /\ paymentStatus = "unpaid"
    /\ config = [validated |-> FALSE, active |-> FALSE]
    /\ handler = [h \in Handlers |-> Idle]
    /\ answer = [n \in Notifications |-> "none"]
    /\ applied = [n \in Notifications |-> 0]
    /\ failures = 0
    /\ reconnects = 0

------------------------------------------------------------------------------

Advance(h, pc) == handler' = [handler EXCEPT ![h].pc = pc]

\* The route answers and the delivery is over.
Answer(h, code) ==
    /\ answer' = [answer EXCEPT ![handler[h].note] = code]
    /\ handler' = [handler EXCEPT ![h] = Idle]

\* The provider delivers n, for the first or for another time, and the config
\* of the endpoint is read.
Deliver(h, n) ==
    /\ handler[h].pc = "idle"
    /\ handler' = [handler EXCEPT ![h] =
           [pc |-> "lookup", note |-> n, trusted |-> config.validated /\ config.active]]
    /\ UNCHANGED <<event, attempt, paymentStatus, config, answer, applied, failures, reconnects>>

\* Fault: an event in any status counts as a duplicate.
LookUpAnyEvent(h) ==
    /\ handler[h].pc = "lookup"
    /\ IF event[handler[h].note] # "none"
       THEN Answer(h, "accepted")
       ELSE Advance(h, "insert") /\ UNCHANGED answer
    /\ UNCHANGED <<event, attempt, paymentStatus, config, applied, failures, reconnects>>

\* Only a processed event counts as a duplicate; it is answered with code 0.
LookUpEvent(h) ==
    /\ handler[h].pc = "lookup"
    /\ IF event[handler[h].note] = "processed"
       THEN Answer(h, "accepted")
       ELSE Advance(h, "insert") /\ UNCHANGED answer
    /\ UNCHANGED <<event, attempt, paymentStatus, config, applied, failures, reconnects>>

\* The step that follows the insert, by webhook type.
FirstEffect(n) ==
    IF Attempting(n) THEN "attempt" ELSE IF StatusSetting(n) THEN "booking" ELSE "mark"

\* Fault: no unique index on the signature.
InsertAgain(h) ==
    LET n == handler[h].note IN
    /\ handler[h].pc = "insert"
    /\ event' = [event EXCEPT ![n] = "received"]
    /\ Advance(h, FirstEffect(n))
    /\ UNCHANGED <<attempt, paymentStatus, config, answer, applied, failures, reconnects>>

\* The event is inserted as received.
InsertEvent(h) ==
    LET n == handler[h].note IN
    /\ handler[h].pc = "insert"
    /\ event[n] = "none"
    /\ event' = [event EXCEPT ![n] = "received"]
    /\ Advance(h, FirstEffect(n))
    /\ UNCHANGED <<attempt, paymentStatus, config, answer, applied, failures, reconnects>>

\* The unique index on the signature rejects the insert: status 500, code 1.
RefuseDuplicate(h) ==
    /\ handler[h].pc = "insert"
    /\ event[handler[h].note] # "none"
    /\ Answer(h, "refused")
    /\ UNCHANGED <<event, attempt, paymentStatus, config, applied, failures, reconnects>>

\* The attempt is upserted on (provider, transaction).
UpsertAttempt(h) ==
    LET n == handler[h].note IN
    /\ handler[h].pc = "attempt"
    /\ attempt' = [attempt EXCEPT ![Transaction[n]] =
                       IF Capturing(n) THEN "captured" ELSE "failed"]
    /\ Advance(h, "booking")
    /\ UNCHANGED <<event, paymentStatus, config, answer, applied, failures, reconnects>>

\* Fault: a refund returns early, before its event is marked.
SetPaymentStatusReturning(h) ==
    LET n == handler[h].note IN
    /\ handler[h].pc = "booking"
    /\ paymentStatus' = IF Capturing(n) THEN "paid"
                        ELSE IF Kind[n] = "fail" THEN "failed" ELSE "refunded"
    /\ applied' = [applied EXCEPT ![n] = @ + 1]
    /\ IF Kind[n] = "refund"
       THEN Answer(h, "accepted")
       ELSE Advance(h, "mark") /\ UNCHANGED answer
    /\ UNCHANGED <<event, attempt, config, failures, reconnects>>

\* The booking's payment status is overwritten, whatever it was.
SetPaymentStatus(h) ==
    LET n == handler[h].note IN
    /\ handler[h].pc = "booking"
    /\ paymentStatus' = IF Capturing(n) THEN "paid"
                        ELSE IF Kind[n] = "fail" THEN "failed" ELSE "refunded"
    /\ applied' = [applied EXCEPT ![n] = @ + 1]
    /\ Advance(h, "mark")
    /\ UNCHANGED <<event, attempt, config, answer, failures, reconnects>>

\* Fault: only a trusted config has its events marked.
MarkProcessedIfTrusted(h) ==
    /\ handler[h].pc = "mark"
    /\ IF handler[h].trusted
       THEN /\ event' = [event EXCEPT ![handler[h].note] = "processed"]
            /\ Answer(h, "accepted")
       ELSE Advance(h, "config") /\ UNCHANGED <<event, answer>>
    /\ UNCHANGED <<attempt, paymentStatus, config, applied, failures, reconnects>>

\* The event is marked processed. With a config that was trusted when it was
\* read the delivery is over.
MarkProcessed(h) ==
    /\ handler[h].pc = "mark"
    /\ event' = [event EXCEPT ![handler[h].note] = "processed"]
    /\ IF handler[h].trusted
       THEN Answer(h, "accepted")
       ELSE Advance(h, "config") /\ UNCHANGED answer
    /\ UNCHANGED <<attempt, paymentStatus, config, applied, failures, reconnects>>

\* The first notification that is processed validates and activates the config.
ActivateConfig(h) ==
    /\ handler[h].pc = "config"
    /\ config' = [validated |-> TRUE, active |-> TRUE]
    /\ Answer(h, "accepted")
    /\ UNCHANGED <<event, attempt, paymentStatus, applied, failures, reconnects>>

\* A statement throws and the route answers code 1, or the process dies and the
\* provider hears nothing.
Fail(h) ==
    /\ failures < MaxFailures
    /\ handler[h].pc # "idle"
    /\ failures' = failures + 1
    /\ \/ Answer(h, "refused")
       \/ handler' = [handler EXCEPT ![h] = Idle] /\ UNCHANGED answer
    /\ UNCHANGED <<event, attempt, paymentStatus, config, applied, reconnects>>

\* connectPaymentProvider again: new credentials, to be validated anew, for a
\* config that stays as active as it was.
Reconnect ==
    /\ reconnects < MaxReconnects
    /\ reconnects' = reconnects + 1
    /\ config' = [config EXCEPT !.validated = FALSE]
    /\ UNCHANGED <<event, attempt, paymentStatus, handler, answer, applied, failures>>

HandlerStep(h) ==
    \/ LookUpEvent(h)
    \/ InsertEvent(h)
    \/ RefuseDuplicate(h)
    \/ UpsertAttempt(h)
    \/ SetPaymentStatus(h)
    \/ MarkProcessed(h)
    \/ ActivateConfig(h)

WebhookNext ==
    \/ \E h \in Handlers :
          \/ \E n \in Notifications : Deliver(h, n)
          \/ HandlerStep(h)
          \/ Fail(h)
    \/ Reconnect

WebhookSpec == WebhookInit /\ [][WebhookNext]_webhookVars

\* Deliveries run to their end, and the provider repeats a notification it has
\* no acceptance for.
Redeliver(n) == answer[n] # "accepted" /\ \E h \in Handlers : Deliver(h, n)

FairWebhookSpec ==
    /\ WebhookSpec
    /\ \A h \in Handlers : WF_webhookVars(HandlerStep(h))
    /\ \A n \in Notifications : SF_webhookVars(Redeliver(n))

------------------------------------------------------------------------------
(* Properties                                                              *)

HandlerPCs == {"idle", "lookup", "insert", "attempt", "booking", "mark", "config"}

WebhookTypeOK ==
    /\ event \in [Notifications -> {"none", "received", "processed"}]
    /\ attempt \in [Transactions -> {"none", "captured", "failed"}]
    /\ paymentStatus \in {"unpaid", "paid", "failed", "refunded"}
    /\ config \in [validated : BOOLEAN, active : BOOLEAN]
    /\ handler \in [Handlers -> [pc : HandlerPCs, note : Notifications, trusted : BOOLEAN]]
    /\ answer \in [Notifications -> {"none", "accepted", "refused"}]
    /\ applied \in [Notifications -> Nat]
    /\ failures \in 0..MaxFailures
    /\ reconnects \in 0..MaxReconnects

Working(n) == \E h \in Handlers : handler[h].pc # "idle" /\ handler[h].note = n

\* However often, however concurrently a notification is delivered, and whatever
\* fails in between, it is recorded, changes the payment status once and is closed, in
\* this order, and is accepted only after that: the unique request signature stops the
\* second delivery before any effect.
Inbox == INSTANCE WebhookContract
            WITH Effectful <- {n \in Notifications : StatusSetting(n)},
                 record <- event,
                 effects <- applied,
                 accepted <- {n \in Notifications : answer[n] = "accepted"}

KeepsInbox == Inbox!Spec

\* The provider is answered code 0 only when the notification has had its effect
\* and is recorded as processed: acceptance is never ahead of the database.
AcceptedIsApplied ==
    \A n \in Notifications : answer[n] = "accepted" =>
        /\ event[n] = "processed"
        /\ Attempting(n) => attempt[Transaction[n]] # "none"
        /\ StatusSetting(n) => applied[n] = 1

\* A notification left half done, stored but not processed and with no delivery
\* at work on it, and a config left inactive after a processed notification, are
\* both the marks of a failure: nothing else strands them.
StrandedOnlyByFailure ==
    failures = 0 =>
        /\ \A n \in Notifications : event[n] = "received" => Working(n)
        /\ (/\ reconnects = 0
            /\ \A n \in Notifications : ~Working(n)
            /\ \E n \in Notifications : event[n] = "processed")
               => config.validated /\ config.active

\* Every notification is processed in the end unless something fails, even when
\* its deliveries race and are refused (the retries of the provider suffice).
EventuallyProcessed == \A n \in Notifications : <>(event[n] = "processed" \/ failures > 0)
==============================================================================
