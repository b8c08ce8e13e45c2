\* Two deliveries at a time of three notifications, one failure, one reconnect.
SPECIFICATION FairWebhookSpec
CONSTANTS
    fail1 = fail1
    pay2 = pay2
    refund3 = refund3
    t1 = t1
    t2 = t2
    t3 = t3
    Notifications = {fail1, pay2, refund3}
    Transactions = {t1, t2, t3}
    Kind <- MCKind
    Transaction <- MCTransaction
    Handlers = {h1, h2}
    MaxFailures = 1
    MaxReconnects = 1
INVARIANTS AcceptedIsApplied StrandedOnlyByFailure
PROPERTIES KeepsInbox EventuallyProcessed
