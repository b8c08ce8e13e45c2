------------------------------- MODULE Pricing -------------------------------
(***************************************************************************)
(* The prices of one listing: its pricing profiles, one of which is the    *)
(* default, their rules, the edits of its operators and the quotes of its  *)
(* bookings. Making a profile the default is two statements, and so is     *)
(* reading the prices for a quote; under READ COMMITTED others run in      *)
(* between. Quotes change nothing that edits or other quotes see.          *)
(***************************************************************************)
EXTENDS RefundPolicy

CONSTANTS
    Profiles,   \* ids of pricing profiles
    Terms,      \* the columns of a profile: hourly price, fee and tax in basis points
    RuleIds,    \* ids of pricing rules
    RuleKinds,  \* the rules an operator may state, see Quote; their id and profile are Nil
    Occasions,  \* the windows that are priced, see Quote
    CodeKinds,  \* the discount codes: percent or fixed value, cap, minimum subtotal
    Policies,   \* cancellation policies that refund a booking at its price
    Edits,      \* the requests that create or update profiles at a time
    Quotes,     \* the requests that price a window at a time
    Nil         \* no row, no terms, no code

ASSUME PricingAssumption ==
    /\ Nil \notin Profiles \cup Terms \cup Occasions \cup CodeKinds
    /\ Terms \subseteq [price : Nat \ {0}, fee : Nat, tax : Nat]
    /\ RuleKinds \subseteq [id : {Nil}, profile : {Nil}, type : STRING, percent : BOOLEAN,
                            value : Int, priority : Int, days : SUBSET (0..6),
                            passengers : Nat, minutes : Int]
    /\ Occasions \subseteq [minutes : Int, passengers : Nat, day : 0..6]
    /\ CodeKinds \subseteq [percent : BOOLEAN, value : Nat \ {0}, cap : Nat \ {0}, minimum : Nat]
    /\ Policies \subseteq [freeWindowHours : Nat, penaltyBps : 0..Whole,
                           latePenaltyBps : 0..Whole, latePenaltyWindowHours : Nat]

VARIABLES
    profile,   \* the rows of listing_pricing_profile: terms and whether it is the default
    rule,      \* the rows of listing_pricing_rule: a set of rules with id and profile
    edit,      \* what each edit is to do: its row, the new terms and default flag
    quote,     \* what each quote has read, and the booking it makes
    kept       \* history: a default profile was stored, and since then no edit
               \* unset it or ended between clearing the default and setting its own

vars == <<profile, rule, edit, quote, kept>>

NoProfile == [terms |-> Nil, default |-> FALSE]
NoEdit == [pc |-> "idle", profile |-> Nil, terms |-> Nil, flag |-> "leave"]
NoQuote == [pc |-> "idle", profile |-> Nil, terms |-> Nil, occasion |-> Nil, code |-> Nil,
            rules |-> {}, seen |-> {}, changed |-> {}, booking |-> Nil]

Init ==
    /\ profile = [p \in Profiles |-> NoProfile]
    /\ rule = {}
    /\ edit = [e \in Edits |-> NoEdit]
    /\ quote = [q \in Quotes |-> NoQuote]
    /\ kept = FALSE

Stored(p) == profile[p].terms # Nil
Defaults == {p \in Profiles : profile[p].default}
RulesOf(p) == {k \in rule : k.profile = p}

\* The prices in force: the terms of the default profile and its rules.
InForce == {[terms |-> profile[p].terms, rules |-> RulesOf(p)] : p \in Defaults}

\* The quotes between their two reads see the prices that are now in force, and
\* what of them was changed.
Witnessed(what) ==
    quote' = [q \in Quotes |->
        IF quote[q].pc # "rules" THEN quote[q]
        ELSE [quote[q] EXCEPT !.seen = @ \cup InForce', !.changed = @ \cup {what}]]

------------------------------------------------------------------------------
\* Fault: the default is cleared whether the new profile is to be the default or not.
CreateProfileClearing(e, p, terms, flag) ==
    /\ edit[e].pc = "idle" /\ flag # "unset"
    /\ ~Stored(p) /\ \A d \in Edits : edit[d].profile # p
    /\ edit' = [edit EXCEPT ![e] = [pc |-> "clear", profile |-> p, terms |-> terms, flag |-> flag]]
    /\ UNCHANGED <<profile, rule, quote, kept>>

\* createPricingProfile: the default flag is set or left alone.
CreateProfile(e, p, terms, flag) ==
    /\ edit[e].pc = "idle" /\ flag # "unset"
    /\ ~Stored(p) /\ \A d \in Edits : edit[d].profile # p
    /\ edit' = [edit EXCEPT ![e] = [pc |-> IF flag = "set" THEN "clear" ELSE "insert",
                                    profile |-> p, terms |-> terms, flag |-> flag]]
    /\ UNCHANGED <<profile, rule, quote, kept>>

\* updatePricingProfile: no terms stands for terms that are left alone.
UpdateProfile(e, p, terms, flag) ==
    /\ edit[e].pc = "idle" /\ Stored(p)
    /\ edit' = [edit EXCEPT ![e] = [pc |-> IF flag = "set" THEN "clear" ELSE "update",
                                    profile |-> p, terms |-> terms, flag |-> flag]]
    /\ UNCHANGED <<profile, rule, quote, kept>>

ClearDefault(e) ==
    /\ edit[e].pc = "clear"
    /\ profile' = [p \in Profiles |-> [profile[p] EXCEPT !.default = FALSE]]
    /\ edit' = [edit EXCEPT ![e].pc = IF Stored(edit[e].profile) THEN "update" ELSE "insert"]
    /\ UNCHANGED <<rule, kept>>
    /\ Witnessed("profile")

\* The row as the edit writes it.
Row(e) ==
    LET old == profile[edit[e].profile]
    IN [terms |-> IF edit[e].terms = Nil THEN old.terms ELSE edit[e].terms,
        default |-> edit[e].flag = "set" \/ (edit[e].flag = "leave" /\ old.default)]

\* The table's check constraint, and its unique partial index on the default.
Admitted(e) ==
    /\ Row(e).terms.fee <= Whole /\ Row(e).terms.tax <= Whole
    /\ Row(e).default => Defaults \subseteq {edit[e].profile}

WriteProfile(e) ==
    /\ edit[e].pc \in {"insert", "update"} /\ Admitted(e)
    /\ profile' = [profile EXCEPT ![edit[e].profile] = Row(e)]
    /\ kept' = \/ edit[e].flag = "set"
               \/ kept /\ ~(edit[e].flag = "unset" /\ profile[edit[e].profile].default)
    /\ edit' = [edit EXCEPT ![e] = NoEdit]
    /\ UNCHANGED rule
    /\ Witnessed("profile")

\* The database refuses the row, or a statement throws, or the process dies:
\* nothing takes back that the default was cleared.
EditEnds(e) ==
    /\ edit[e].pc # "idle"
    /\ kept' = (kept /\ ~(edit[e].flag = "set" /\ edit[e].pc # "clear" /\ Defaults = {}))
    /\ edit' = [edit EXCEPT ![e] = NoEdit]
    /\ UNCHANGED <<profile, rule, quote>>

CreateRule(k, p, kind) ==
    /\ Stored(p) /\ \A s \in rule : s.id # k
    /\ rule' = rule \cup {[kind EXCEPT !.id = k, !.profile = p]}
    /\ UNCHANGED <<profile, edit, kept>>
    /\ Witnessed("rules")

DeleteRule(k) ==
    /\ \E s \in rule : s.id = k
    /\ rule' = {s \in rule : s.id # k}
    /\ UNCHANGED <<profile, edit, kept>>
    /\ Witnessed("rules")

------------------------------------------------------------------------------
\* A quote with the discount code that the customer typed, if any. Without a
\* default profile it is refused.
ReadProfile(q, occasion, code) ==
    /\ quote[q].pc = "idle"
    /\ \E p \in Defaults :
          quote' = [quote EXCEPT ![q] =
              [NoQuote EXCEPT !.pc = "rules", !.profile = p, !.terms = profile[p].terms,
                              !.occasion = occasion, !.code = code, !.seen = InForce]]
    /\ UNCHANGED <<profile, rule, edit, kept>>

\* The amounts of the booking.
Booking(terms, subtotal, code) ==
    LET amount == IF code = Nil THEN 0 ELSE AppliedAmount(code, subtotal)
    IN [basePrice |-> subtotal, discountAmount |-> amount,
        totalPrice |-> IF code = Nil THEN Total(terms, subtotal)
                                     ELSE DiscountedTotal(terms, subtotal, amount)]

\* The quote is made with the rules that were found, or refused when the
\* subtotal is too small for the code. Of the prices that it saw in force it
\* keeps the ones it used.
MakeQuote(q, found) ==
    LET it == quote[q]
    IN /\ it.pc = "rules"
       /\ \E picked \in Selections({k \in found : Applies(k, it.occasion)}) :
             LET subtotal == Subtotal(it.terms, it.occasion, picked)
             IN quote' = [quote EXCEPT ![q] =
                    IF it.code # Nil /\ subtotal < it.code.minimum THEN NoQuote
                    ELSE [it EXCEPT !.pc = "priced", !.rules = found,
                             !.seen = @ \cap {[terms |-> it.terms, rules |-> found]},
                             !.booking = Booking(it.terms, subtotal, it.code)]]
       /\ UNCHANGED <<profile, rule, edit, kept>>

\* Fault: the rules of every profile of the listing.
ReadAllRules(q) == MakeQuote(q, rule)

\* The rules of the profile that was read.
ReadRules(q) == MakeQuote(q, RulesOf(quote[q].profile))

Return(q) ==
    /\ quote[q].pc = "priced"
    /\ quote' = [quote EXCEPT ![q] = NoQuote]
    /\ UNCHANGED <<profile, rule, edit, kept>>

Next ==
    \/ \E e \in Edits :
          \/ \E p \in Profiles, flag \in {"set", "leave", "unset"} :
                \/ \E t \in Terms : CreateProfile(e, p, t, flag)
                \/ \E t \in Terms \cup {Nil} : UpdateProfile(e, p, t, flag)
          \/ ClearDefault(e) \/ WriteProfile(e) \/ EditEnds(e)
    \/ \E k \in RuleIds, p \in Profiles, kind \in RuleKinds : CreateRule(k, p, kind)
    \/ \E k \in RuleIds : DeleteRule(k)
    \/ \E q \in Quotes :
          \/ \E o \in Occasions, c \in CodeKinds \cup {Nil} : ReadProfile(q, o, c)
          \/ ReadRules(q)
          \/ Return(q)

Spec == Init /\ [][Next]_vars

------------------------------------------------------------------------------
Rows == [id : RuleIds, profile : Profiles, type : STRING, percent : BOOLEAN, value : Int,
         priority : Int, days : SUBSET (0..6), passengers : Nat, minutes : Int]
Prices == [terms : Terms \cup {Nil}, rules : SUBSET Rows]
Amounts == [basePrice : Int, discountAmount : Int, totalPrice : Int]

TypeOK ==
    /\ profile \in [Profiles -> [terms : Terms \cup {Nil}, default : BOOLEAN]]
    /\ rule \subseteq Rows
    /\ edit \in [Edits -> [pc : {"idle", "clear", "insert", "update"},
                           profile : Profiles \cup {Nil}, terms : Terms \cup {Nil},
                           flag : {"set", "leave", "unset"}]]
    /\ quote \in [Quotes -> [pc : {"idle", "rules", "priced"}, profile : Profiles \cup {Nil},
                             terms : Terms \cup {Nil}, occasion : Occasions \cup {Nil},
                             code : CodeKinds \cup {Nil}, rules : SUBSET Rows,
                             seen : SUBSET Prices, changed : SUBSET {"profile", "rules"},
                             booking : Amounts \cup {Nil}]]
    /\ kept \in BOOLEAN

\* Once a listing has a default profile it keeps one, so that it can be booked
\* (quote-service.ts:49 refuses it otherwise), whatever profiles are created and
\* updated side by side: the only exceptions are an operator who unsets it, an
\* edit between its two statements, and one that ended there.
DefaultKept ==
    kept => \/ Defaults # {}
            \/ \E e \in Edits : edit[e].flag = "set" /\ edit[e].pc \in {"insert", "update"}

\* A booking is priced as the listing was priced at one moment of the request:
\* its terms and its rules were in force together, unless both were changed
\* between the two reads of resolveDefaultPricingContext.
PriceWasInForce ==
    \A q \in Quotes :
        quote[q].pc = "priced" =>
            \/ [terms |-> quote[q].terms, rules |-> quote[q].rules] \in quote[q].seen
            \/ quote[q].changed = {"profile", "rules"}

\* The booking row adds up with a discount code: the discount is no more than the
\* base price, and the total no more than without the code and not negative,
\* whatever rules made of the price.
DiscountLowersTotal ==
    \A q \in Quotes :
        (quote[q].pc = "priced" /\ quote[q].code # Nil) =>
            LET b == quote[q].booking
            IN /\ 0 <= b.discountAmount /\ b.discountAmount <= b.basePrice
               /\ 0 <= b.totalPrice /\ b.totalPrice <= Total(quote[q].terms, b.basePrice)

\* A booking that was paid at its price is refunded within what was paid and not
\* yet returned, and less or the same the later its customer cancels, provided the
\* policy's late penalty is the larger one.
LaterRefundsLess ==
    \A q \in Quotes, policy \in Policies :
        (quote[q].pc = "priced" /\ policy.penaltyBps <= policy.latePenaltyBps) =>
            LET paid == Larger(0, quote[q].booking.totalPrice)
                Hours == 0..(policy.freeWindowHours + 1)
                Refund(hours, refunded) ==
                    SuggestedRefund("customer", hours, policy, NoOverride, paid, refunded)
            IN \A refunded \in {0, paid \div 2, paid} :
                  /\ \A early, late \in Hours :
                        late <= early => Refund(late, refunded) <= Refund(early, refunded)
                  /\ \A hours \in Hours : Refund(hours, refunded) \in 0..(paid - refunded)
==============================================================================
