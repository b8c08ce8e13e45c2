---------------------------- MODULE PromotionUsage ----------------------------
(***************************************************************************)
(* Discount codes claimed by booking transactions. createBooking resolves  *)
(* the code by name, locks its row with SELECT ... FOR UPDATE, resolves    *)
(* the name again with its limits, and records the usage when it commits;  *)
(* organization admins edit the rows meanwhile. Each transaction makes one *)
(* booking; what it writes becomes visible, and its lock free, at commit.  *)
(***************************************************************************)
EXTENDS Integers, FiniteSets

CONSTANTS
    Codes,      \* the discount code rows of one organization, by id
    Names,      \* the code texts customers type
    Customers,  \* the customers
    Claims,     \* the booking transactions that claim a code
    Limits,     \* the limits an admin may choose
    NoLimit,    \* a limit of null
    None,       \* no row, no name, no customer, no lock holder
    MayRename,  \* whether admins change the text of an existing code
    MaxEdits    \* bound on the admins' edits

ASSUME PromotionAssumption ==
    /\ Limits \subseteq (Nat \ {0}) \cup {NoLimit}
    /\ NoLimit \notin Int
    /\ None \notin Codes \cup Names \cup Customers \cup Claims
    /\ MayRename \in BOOLEAN
    /\ MaxEdits \in Nat
    /\ IsFiniteSet(Claims)

VARIABLES
    code,         \* the rows: name, isActive, usageLimit, perCustomerLimit, usageCount
    lock,         \* the transaction that holds each row's lock
    application,  \* the committed applications: the code and customer of each claim
    claim,        \* each transaction: pc, name asked for, customer, row it locks,
                  \* row its second look by name found and the customer limit it read
    edits

usageVars == <<code, lock, application, claim, edits>>

Absent == [name |-> None, isActive |-> FALSE, usageLimit |-> NoLimit,
           perCustomerLimit |-> NoLimit, usageCount |-> 0]

UsageInit ==
    /\ code = [c \in Codes |-> Absent]
    /\ lock = [c \in Codes |-> None]
    /\ application = [x \in Claims |-> [code |-> None, customer |-> None]]
    /\ claim = [x \in Claims |-> [pc |-> "idle", name |-> None, customer |-> None,
                                  row |-> None, found |-> None, perCustomer |-> NoLimit]]
    /\ edits = 0

Below(n, limit) == limit # NoLimit => n < limit

\* countCustomerApplicationsForDiscountCode
Applied(c, u) == {x \in Claims : application[x].code = c /\ application[x].customer = u}

------------------------------------------------------------------------------
(* Admins: one statement each, which waits for the row's lock. The text of  *)
(* a code is unique in the organization.                                    *)

Edit == edits < MaxEdits /\ edits' = edits + 1
Taken(name, c) == \E d \in Codes \ {c} : code[d].name = name

\* upsertPromotion without an id.
CreateCode(c, name, isActive, limit, perCustomer) ==
    /\ Edit
    /\ code[c].name = None
    /\ ~Taken(name, c)
    /\ code' = [code EXCEPT ![c] = [name |-> name, isActive |-> isActive, usageLimit |-> limit,
                                    perCustomerLimit |-> perCustomer, usageCount |-> 0]]
    /\ UNCHANGED <<lock, application, claim>>

\* Fault: the update sets the usage count the creation sets.
UpdateCodeResetting(c, name, isActive, limit, perCustomer) ==
    /\ Edit
    /\ code[c].name # None
    /\ lock[c] = None
    /\ ~Taken(name, c)
    /\ MayRename \/ name = code[c].name
    /\ code' = [code EXCEPT ![c] = [name |-> name, isActive |-> isActive, usageLimit |-> limit,
                                    perCustomerLimit |-> perCustomer, usageCount |-> 0]]
    /\ UNCHANGED <<lock, application, claim>>

\* upsertPromotion with an id: every column but the usage count is set.
UpdateCode(c, name, isActive, limit, perCustomer) ==
    /\ Edit
    /\ code[c].name # None
    /\ lock[c] = None
    /\ ~Taken(name, c)
    /\ MayRename \/ name = code[c].name
    /\ code' = [code EXCEPT ![c] = [name |-> name, isActive |-> isActive, usageLimit |-> limit,
                                    perCustomerLimit |-> perCustomer,
                                    usageCount |-> code[c].usageCount]]
    /\ UNCHANGED <<lock, application, claim>>

\* setPromotionActive
SetActive(c, isActive) ==
    /\ Edit
    /\ code[c].name # None
    /\ lock[c] = None
    /\ code' = [code EXCEPT ![c].isActive = isActive]
    /\ UNCHANGED <<lock, application, claim>>

------------------------------------------------------------------------------
(* resolvePromotionUsageForBooking and recordPromotionUsage, in createBooking *)

\* The first look: a row with the text the customer typed.
FindCode(x, name, customer) ==
    /\ claim[x].pc = "idle"
    /\ \E c \in Codes :
          /\ code[c].name = name
          /\ claim' = [claim EXCEPT ![x] = [pc |-> "lock", name |-> name, row |-> c,
                                            customer |-> customer, found |-> None,
                                            perCustomer |-> NoLimit]]
    /\ UNCHANGED <<code, lock, application, edits>>

\* Fault: the row is selected without FOR UPDATE.
LockCodeUnlocked(x) ==
    /\ claim[x].pc = "lock"
    /\ claim' = [claim EXCEPT ![x].pc = "resolve"]
    /\ UNCHANGED <<code, lock, application, edits>>

\* SELECT ... FOR UPDATE waits until nobody holds the row.
LockCode(x) ==
    LET c == claim[x].row IN
    /\ claim[x].pc = "lock"
    /\ lock[c] = None
    /\ lock' = [lock EXCEPT ![c] = x]
    /\ claim' = [claim EXCEPT ![x].pc = "resolve"]
    /\ UNCHANGED <<code, application, edits>>

\* resolvePromotion: by name once more, active and below its usage limit.
ResolveCode(x) ==
    /\ claim[x].pc = "resolve"
    /\ \E c \in Codes :
          /\ code[c].name = claim[x].name
          /\ code[c].isActive
          /\ Below(code[c].usageCount, code[c].usageLimit)
          /\ claim' = [claim EXCEPT ![x].pc = "customer", ![x].found = c,
                                   ![x].perCustomer = code[c].perCustomerLimit]
    /\ UNCHANGED <<code, lock, application, edits>>

\* resolvePromotion: the applications of this customer are below the limit read
\* in the row that was found.
CheckCustomer(x) ==
    LET c == claim[x].found IN
    /\ claim[x].pc = "customer"
    /\ Below(Cardinality(Applied(c, claim[x].customer)), claim[x].perCustomer)
    /\ claim' = [claim EXCEPT ![x].pc = "commit"]
    /\ UNCHANGED <<code, lock, application, edits>>

\* recordPromotionUsage charges the locked row, and the transaction commits:
\* booking, application and usage count appear and the lock is released.
CommitUsage(x) ==
    LET c == claim[x].row IN
    /\ claim[x].pc = "commit"
    /\ application' = [application EXCEPT ![x] = [code |-> c, customer |-> claim[x].customer]]
    /\ code' = [code EXCEPT ![c].usageCount = @ + 1]
    /\ lock' = [lock EXCEPT ![c] = None]
    /\ claim' = [claim EXCEPT ![x].pc = "done"]
    /\ UNCHANGED edits

Release(x) == [c \in Codes |-> IF lock[c] = x THEN None ELSE lock[c]]

\* Fault: a usage that was never recorded is taken back.
RollBackDecrementing(x) ==
    /\ claim[x].pc \in {"lock", "resolve", "customer", "commit"}
    /\ lock' = Release(x)
    /\ code' = [code EXCEPT ![claim[x].row].usageCount = @ - 1]
    /\ claim' = [claim EXCEPT ![x].pc = "done"]
    /\ UNCHANGED <<application, edits>>

\* Fault: the connection goes back to its pool with the transaction open.
RollBackLeavingLock(x) ==
    /\ claim[x].pc \in {"lock", "resolve", "customer", "commit"}
    /\ claim' = [claim EXCEPT ![x].pc = "done"]
    /\ UNCHANGED <<code, lock, application, edits>>

\* A limit is reached, the code is inactive, out of its dates or not for this
\* listing or subtotal, a statement throws or the process dies: the transaction
\* rolls back.
RollBack(x) ==
    /\ claim[x].pc \in {"lock", "resolve", "customer", "commit"}
    /\ lock' = Release(x)
    /\ claim' = [claim EXCEPT ![x].pc = "done"]
    /\ UNCHANGED <<code, application, edits>>

ClaimStep(x) ==
    \/ LockCode(x)
    \/ ResolveCode(x)
    \/ CheckCustomer(x)
    \/ CommitUsage(x)

UsageNext ==
    \/ \E c \in Codes, name \in Names, isActive \in BOOLEAN, limit, perCustomer \in Limits :
          \/ CreateCode(c, name, isActive, limit, perCustomer)
          \/ UpdateCode(c, name, isActive, limit, perCustomer)
    \/ \E c \in Codes, isActive \in BOOLEAN : SetActive(c, isActive)
    \/ \E x \in Claims :
          \/ \E name \in Names, customer \in Customers : FindCode(x, name, customer)
          \/ ClaimStep(x)
          \/ RollBack(x)

UsageSpec == UsageInit /\ [][UsageNext]_usageVars

\* A transaction goes on, or is rolled back when it cannot.
FairUsageSpec == UsageSpec /\ \A x \in Claims : WF_usageVars(ClaimStep(x)) /\
                    WF_usageVars(claim[x].pc # "lock" /\ RollBack(x))

------------------------------------------------------------------------------
(* Properties                                                              *)

ClaimPCs == {"idle", "lock", "resolve", "customer", "commit", "done"}

CodeRow == [name : Names \cup {None}, isActive : BOOLEAN, usageLimit : Limits \cup {NoLimit},
            perCustomerLimit : Limits \cup {NoLimit}, usageCount : Nat]
Application == [code : Codes \cup {None}, customer : Customers \cup {None}]
ClaimState == [pc : ClaimPCs, name : Names \cup {None}, customer : Customers \cup {None},
               row : Codes \cup {None}, found : Codes \cup {None},
               perCustomer : Limits \cup {NoLimit}]

UsageTypeOK ==
    /\ code \in [Codes -> CodeRow]
    /\ lock \in [Codes -> Claims \cup {None}]
    /\ application \in [Claims -> Application]
    /\ claim \in [Claims -> ClaimState]
    /\ edits \in 0..MaxEdits

\* Whenever a usage is recorded, the code charged is, at that very moment, active,
\* below its usage limit and below its limit for this customer, whatever other
\* transactions and admins do between the checks and the commit (the row lock of
\* resolvePromotionUsageForBooking).
ChargeWithinLimits(x) ==
    LET c == claim[x].row IN
    /\ code[c].isActive
    /\ Below(code[c].usageCount, code[c].usageLimit)
    /\ Below(Cardinality(Applied(c, claim[x].customer)), code[c].perCustomerLimit)

UsageWithinLimits == [][\A x \in Claims : CommitUsage(x) => ChargeWithinLimits(x)]_usageVars

\* The usage count is the number of bookings that used the code: no update is
\* lost and none is counted twice, renamed or not.
CountsAreExact ==
    \A c \in Codes : code[c].usageCount = Cardinality({x \in Claims : application[x].code = c})

\* No transaction waits for the lock for ever: whoever holds it commits or rolls
\* back, and never waits for another lock.
ClaimsEnd == \A x \in Claims : claim[x].pc = "lock" ~> claim[x].pc = "done"
==============================================================================
