\* Two mails of one thread, two requests at a time, one fault.
SPECIFICATION FairSpec
CONSTANTS
    Mails = {m1, m2}
    oneThread = oneThread
    ThreadOf <- MCThreadOf
    Tickets = {t1, t2}
    Requests = {r1, r2}
    Decisions = {"resolved"}
    Nil = Nil
    MaxFaults = 1
INVARIANTS MailsAreFiledOnce OneTicketPerThread WaitsForTheOtherSide
PROPERTIES EveryMailSettles
