----------------------------- MODULE PricingProofs -----------------------------
(***************************************************************************)
(* Proofs about what a booking costs. Pricing, for any profiles, terms,    *)
(* rules, codes and policies that satisfy PricingAssumption and any number *)
(* of edits and quotes: prices, discounts and refunds. PromotionUsage, for *)
(* any number of codes, customers, transactions and edits: types, exact    *)
(* usage counts, and that no limit is passed as long as the text of a code *)
(* is never changed.                                                       *)
(***************************************************************************)
EXTENDS Pricing, PromotionUsage, FiniteSetTheorems, TLAPS

------------------------------------------------------------------------------
(* Arithmetic: rounding, totals and discounts.                             *)

\* Rounding keeps the order and leaves nothing of nothing.
LEMMA Rounding ==
    ASSUME NEW a \in Int, NEW b \in Int, a <= b
    PROVE  /\ RoundDiv(a, 60) \in Int
           /\ RoundDiv(a, 100) \in Int /\ RoundDiv(b, 100) \in Int
           /\ RoundDiv(a, 100) <= RoundDiv(b, 100)
           /\ RoundDiv(a, Whole) \in Int /\ RoundDiv(b, Whole) \in Int
           /\ RoundDiv(a, Whole) <= RoundDiv(b, Whole)
           /\ RoundDiv(0, 100) = 0 /\ RoundDiv(0, Whole) = 0
BY DEF RoundDiv, Whole

LEMMA Products ==
    ASSUME NEW x \in Int, NEW y \in Int, x <= y, NEW f \in Nat
    PROVE  x * f \in Int /\ y * f \in Int /\ x * f <= y * f /\ 0 * f = 0
OBVIOUS

\* Fee and tax of a larger subtotal are no smaller, and a subtotal of nothing has none.
LEMMA TotalGrows ==
    ASSUME NEW terms, terms.fee \in Nat, terms.tax \in Nat,
           NEW x \in Int, NEW y \in Int, x <= y
    PROVE  /\ Total(terms, x) \in Int /\ Total(terms, y) \in Int
           /\ Total(terms, x) <= Total(terms, y)
           /\ Total(terms, 0) = 0
<1>1. ASSUME NEW s \in Int, NEW r \in Int, s <= r, NEW bps \in Nat
      PROVE  /\ RoundDiv(s * bps, Whole) \in Int /\ RoundDiv(r * bps, Whole) \in Int
             /\ RoundDiv(s * bps, Whole) <= RoundDiv(r * bps, Whole)
             /\ RoundDiv(0 * bps, Whole) = 0
  <2> DEFINE a == s * bps
             b == r * bps
  <2>1. a \in Int /\ b \in Int /\ a <= b /\ 0 * bps = 0
    BY <1>1, Products
  <2> HIDE DEF a, b
  <2>2. /\ RoundDiv(a, Whole) \in Int /\ RoundDiv(b, Whole) \in Int
        /\ RoundDiv(a, Whole) <= RoundDiv(b, Whole) /\ RoundDiv(0, Whole) = 0
    BY <2>1, Rounding
  <2> QED BY <2>1, <2>2 DEF a, b
<1> DEFINE F(s) == s + RoundDiv(s * terms.fee, Whole)
           G(s) == RoundDiv(s * terms.tax, Whole)
<1>2. F(x) \in Int /\ F(y) \in Int /\ F(x) <= F(y) /\ F(0) = 0
  <2> DEFINE R(s) == RoundDiv(s * terms.fee, Whole)
  <2>1. R(x) \in Int /\ R(y) \in Int /\ R(x) <= R(y) /\ R(0) = 0
    BY <1>1
  <2> HIDE DEF R
  <2>2. x + R(x) \in Int /\ y + R(y) \in Int /\ x + R(x) <= y + R(y) /\ 0 + R(0) = 0
    BY <2>1
  <2> QED BY <2>2 DEF R
<1> HIDE DEF F
<1>3. G(F(x)) \in Int /\ G(F(y)) \in Int /\ G(F(x)) <= G(F(y)) /\ G(F(0)) = 0
  BY <1>1, <1>2
<1> HIDE DEF G
<1>4. \A s : Total(terms, s) = F(s) + G(F(s))
  BY DEF Total, Fee, Tax, F, G
<1> QED BY <1>2, <1>3, <1>4

\* A discount is worth something between nothing and the subtotal.
LEMMA AmountBounded ==
    ASSUME PricingAssumption, NEW kind \in CodeKinds, NEW subtotal \in Nat
    PROVE  AppliedAmount(kind, subtotal) \in Int /\ AppliedAmount(kind, subtotal) \in 0..subtotal
<1>1. kind.value \in Nat /\ kind.cap \in Nat
  BY DEF PricingAssumption
<1> DEFINE x == subtotal * kind.value
<1>2. x \in Int /\ 0 <= x
  BY <1>1
<1> HIDE DEF x
<1>3. RoundDiv(x, 100) \in Int /\ 0 <= RoundDiv(x, 100)
  BY <1>2 DEF RoundDiv
<1> QED BY <1>1, <1>3 DEF AppliedAmount, Smaller, x

\* A booking with a discount adds up.
LEMMA DiscountLowers ==
    ASSUME PricingAssumption, NEW terms \in Terms, NEW kind \in CodeKinds, NEW subtotal \in Nat
    PROVE  LET b == Booking(terms, subtotal, kind)
           IN /\ b.basePrice = subtotal
              /\ 0 <= b.discountAmount /\ b.discountAmount <= b.basePrice
              /\ 0 <= b.totalPrice /\ b.totalPrice <= Total(terms, b.basePrice)
<1> DEFINE amount == AppliedAmount(kind, subtotal)
<1>1. amount \in Int /\ 0 <= amount /\ amount <= subtotal
  BY AmountBounded
<1> HIDE DEF amount
<1>2. Larger(0, subtotal - Larger(0, Smaller(amount, subtotal))) = subtotal - amount
  BY <1>1 DEF Larger, Smaller
<1>3. terms.fee \in Nat /\ terms.tax \in Nat
  BY DEF PricingAssumption
<1>4. subtotal - amount \in Int /\ 0 <= subtotal - amount /\ subtotal - amount <= subtotal
  BY <1>1
<1>5. /\ Total(terms, 0) <= Total(terms, subtotal - amount) /\ Total(terms, 0) = 0
      /\ Total(terms, subtotal - amount) <= Total(terms, subtotal)
  BY <1>3, <1>4, TotalGrows
<1>6. kind # Nil
  BY DEF PricingAssumption
<1>7. Booking(terms, subtotal, kind) =
          [basePrice |-> subtotal, discountAmount |-> amount,
           totalPrice |-> Total(terms, subtotal - amount)]
  BY <1>2, <1>6 DEF Booking, DiscountedTotal, amount
<1> QED BY <1>1, <1>5, <1>7

------------------------------------------------------------------------------
(* Arithmetic: refunds.                                                    *)

LEMMA PolicyTyped ==
    ASSUME PricingAssumption, NEW policy \in Policies
    PROVE  /\ policy.freeWindowHours \in Nat /\ policy.latePenaltyWindowHours \in Nat
           /\ policy.penaltyBps \in Nat /\ policy.penaltyBps <= Whole
           /\ policy.latePenaltyBps \in Nat /\ policy.latePenaltyBps <= Whole
BY DEF PricingAssumption

\* A penalty of at most the whole price is at most a hundred per cent, and grows.
LEMMA PenaltyPercents ==
    ASSUME NEW b \in Nat, NEW c \in Nat, b <= Whole, c <= Whole
    PROVE  /\ RoundDiv(b, 100) \in Nat /\ RoundDiv(b, 100) <= 100
           /\ b <= c => RoundDiv(b, 100) <= RoundDiv(c, 100)
BY DEF RoundDiv, Whole

LEMMA Percents ==
    ASSUME PricingAssumption, NEW policy \in Policies, NEW hours \in Nat
    PROVE  DefaultPercent("customer", hours, policy) \in 0..100
<1>1. /\ RoundDiv(policy.penaltyBps, 100) \in Nat /\ RoundDiv(policy.penaltyBps, 100) <= 100
      /\ RoundDiv(policy.latePenaltyBps, 100) \in Nat
      /\ RoundDiv(policy.latePenaltyBps, 100) <= 100
  BY PolicyTyped, PenaltyPercents
<1> QED BY <1>1 DEF DefaultPercent

LEMMA PercentsFall ==
    ASSUME PricingAssumption, NEW policy \in Policies,
           policy.penaltyBps <= policy.latePenaltyBps,
           NEW early \in Nat, NEW late \in Nat, late <= early
    PROVE  DefaultPercent("customer", late, policy) <= DefaultPercent("customer", early, policy)
<1>1. /\ RoundDiv(policy.penaltyBps, 100) \in Nat /\ RoundDiv(policy.latePenaltyBps, 100) \in Nat
      /\ RoundDiv(policy.penaltyBps, 100) <= RoundDiv(policy.latePenaltyBps, 100)
      /\ RoundDiv(policy.latePenaltyBps, 100) <= 100
  BY PolicyTyped, PenaltyPercents
<1>2. policy.freeWindowHours \in Nat /\ policy.latePenaltyWindowHours \in Nat
  BY PolicyTyped
<1> QED BY <1>1, <1>2 DEF DefaultPercent

LEMMA Shares ==
    ASSUME NEW base \in Nat, NEW p \in 0..100, NEW r \in 0..100, p <= r
    PROVE  /\ (base * p) \div 100 \in 0..base
           /\ (base * p) \div 100 <= (base * r) \div 100
<1>1. base * p \in Nat /\ base * r \in Nat /\ base * p <= base * r /\ base * p <= base * 100
  OBVIOUS
<1> DEFINE x == base * p
           y == base * r
<1>2. x \in Nat /\ y \in Nat /\ x <= y /\ x <= base * 100
  BY <1>1
<1> HIDE DEF x, y
<1>3. x \div 100 \in 0..base /\ x \div 100 <= y \div 100
  BY <1>2
<1> QED BY <1>3 DEF x, y

\* Refunds stay within what is left of the payment and fall with the time left.
LEMMA RefundsFall ==
    ASSUME PricingAssumption, NEW policy \in Policies,
           policy.penaltyBps <= policy.latePenaltyBps,
           NEW paid \in Nat, NEW refunded \in 0..paid,
           NEW early \in Nat, NEW late \in Nat, late <= early
    PROVE  LET Refund(hours) ==
                   SuggestedRefund("customer", hours, policy, NoOverride, paid, refunded)
           IN Refund(late) <= Refund(early) /\ Refund(late) \in 0..(paid - refunded)
<1> DEFINE base == paid - refunded
           P(hours) == DefaultPercent("customer", hours, policy)
<1>1. base \in Nat /\ RefundableBase(paid, refunded) = base
  BY DEF RefundableBase, Larger
<1>2. P(late) \in 0..100 /\ P(early) \in 0..100 /\ P(late) <= P(early)
  BY Percents, PercentsFall
<1> HIDE DEF base, P
<1>3. /\ (base * P(late)) \div 100 \in 0..base /\ (base * P(early)) \div 100 \in 0..base
      /\ (base * P(late)) \div 100 <= (base * P(early)) \div 100
  <2>1. \A n \in Nat : \A p, r \in 0..100 :
            p <= r => /\ (n * p) \div 100 \in 0..n
                      /\ (n * p) \div 100 <= (n * r) \div 100
    BY ONLY Shares
  <2> DEFINE p == P(late)
             r == P(early)
  <2>2. base \in Nat /\ p \in 0..100 /\ r \in 0..100 /\ p <= r
    BY <1>1, <1>2
  <2> HIDE DEF p, r
  <2>3. (base * r) \div 100 \in 0..base
    BY ONLY <2>1, <2>2
  <2>4. /\ (base * p) \div 100 \in 0..base
        /\ (base * p) \div 100 <= (base * r) \div 100
    BY ONLY <2>1, <2>2
  <2> QED BY <2>3, <2>4 DEF p, r
<1>4. \A hours \in Nat : SuggestedRefund("customer", hours, policy, NoOverride, paid, refunded)
                           = Smaller(base, (base * P(hours)) \div 100)
  BY <1>1 DEF SuggestedRefund, P
<1>5. /\ Smaller(base, (base * P(late)) \div 100) = (base * P(late)) \div 100
      /\ Smaller(base, (base * P(early)) \div 100) = (base * P(early)) \div 100
  BY <1>1, <1>3 DEF Smaller
<1> QED BY <1>3, <1>4, <1>5 DEF base
------------------------------------------------------------------------------
(* Type correctness, and what edits and quotes know at their statements.   *)

\* A default profile is stored; an edit has a profile, and terms for one that is
\* not stored yet, and clears the default only to set its own.
EditsTell ==
    /\ \A p \in Profiles : profile[p].default => Stored(p)
    /\ \A e \in Edits :
          /\ edit[e].pc # "idle" =>
                edit[e].profile \in Profiles /\ (edit[e].terms = Nil => Stored(edit[e].profile))
          /\ edit[e].pc = "clear" => edit[e].flag = "set"

\* Between its reads a quote has a profile's terms, has seen the prices in force, and
\* still has the default profile unless a profile was changed; unless both were, its
\* terms and the rules it is about to read have been in force together.
QuotesTell ==
    \A q \in Quotes :
        LET it == quote[q] IN
        it.pc = "rules" =>
            /\ it.profile \in Profiles /\ it.terms \in Terms /\ it.occasion \in Occasions
            /\ InForce \subseteq it.seen
            /\ "profile" \notin it.changed =>
                  profile[it.profile].default /\ profile[it.profile].terms = it.terms
            /\ it.changed # {"profile", "rules"} =>
                  [terms |-> it.terms, rules |-> RulesOf(it.profile)] \in it.seen

PriceInv == TypeOK /\ EditsTell /\ QuotesTell /\ PriceWasInForce

QuoteRecord == [pc : {"idle", "rules", "priced"}, profile : Profiles \cup {Nil},
                terms : Terms \cup {Nil}, occasion : Occasions \cup {Nil},
                code : CodeKinds \cup {Nil}, rules : SUBSET Rows,
                seen : SUBSET Prices, changed : SUBSET {"profile", "rules"},
                booking : Amounts \cup {Nil}]
EditRecord == [pc : {"idle", "clear", "insert", "update"}, profile : Profiles \cup {Nil},
               terms : Terms \cup {Nil}, flag : {"set", "leave", "unset"}]
ProfileRecord == [terms : Terms \cup {Nil}, default : BOOLEAN]

LEMMA NothingTyped ==
    /\ NoQuote \in QuoteRecord /\ NoQuote.pc = "idle" /\ NoQuote.rules = {} /\ NoQuote.changed = {}
    /\ NoEdit \in EditRecord /\ NoEdit.pc = "idle" /\ NoEdit.flag = "leave"
    /\ NoProfile \in ProfileRecord /\ NoProfile.default = FALSE
BY DEF NoQuote, NoEdit, NoProfile, QuoteRecord, EditRecord, ProfileRecord

LEMMA PriceInit ==
    ASSUME PricingAssumption, Init
    PROVE  PriceInv
<1>1. TypeOK
  BY NothingTyped DEF Init, TypeOK, QuoteRecord, EditRecord, ProfileRecord
<1>2. EditsTell
  BY NothingTyped DEF Init, EditsTell
<1>3. QuotesTell /\ PriceWasInForce
  BY NothingTyped DEF Init, QuotesTell, PriceWasInForce
<1> QED BY <1>1, <1>2, <1>3 DEF PriceInv

LEMMA PricesTyped ==
    ASSUME TypeOK
    PROVE  InForce \subseteq Prices /\ \A p : RulesOf(p) \subseteq Rows
<1>1. \A p : RulesOf(p) \subseteq Rows
  BY DEF RulesOf, TypeOK
<1>2. \A p \in Defaults : profile[p].terms \in Terms \cup {Nil}
  BY DEF Defaults, TypeOK
<1> QED BY <1>1, <1>2 DEF InForce, Prices

\* What an edit of the prices does to the quotes between their reads.
LEMMA WitnessedDoes ==
    ASSUME TypeOK, InForce' \subseteq Prices, NEW what \in {"profile", "rules"}, Witnessed(what)
    PROVE  /\ quote' \in [Quotes -> QuoteRecord]
           /\ \A q \in Quotes : quote[q].pc # "rules" => quote'[q] = quote[q]
           /\ \A q \in Quotes : quote[q].pc = "rules" =>
                 /\ quote'[q].pc = "rules" /\ quote'[q].profile = quote[q].profile
                 /\ quote'[q].terms = quote[q].terms /\ quote'[q].occasion = quote[q].occasion
                 /\ quote'[q].code = quote[q].code
                 /\ quote'[q].seen = quote[q].seen \cup InForce'
                 /\ quote'[q].changed = quote[q].changed \cup {what}
<1> DEFINE x(q) == [quote[q] EXCEPT !.seen = @ \cup InForce', !.changed = @ \cup {what}]
<1>1. \A q \in Quotes : quote[q] \in QuoteRecord
  BY DEF TypeOK, QuoteRecord
<1>2. ASSUME NEW q \in Quotes
      PROVE  /\ x(q) \in QuoteRecord
             /\ x(q).pc = quote[q].pc /\ x(q).profile = quote[q].profile
             /\ x(q).terms = quote[q].terms /\ x(q).occasion = quote[q].occasion
             /\ x(q).code = quote[q].code
             /\ x(q).seen = quote[q].seen \cup InForce'
             /\ x(q).changed = quote[q].changed \cup {what}
  BY <1>1 DEF QuoteRecord
<1>3. quote' = [q \in Quotes |-> IF quote[q].pc # "rules" THEN quote[q] ELSE x(q)]
  BY DEF Witnessed
<1> HIDE DEF x
<1> QED BY <1>1, <1>2, <1>3

\* An edit of the prices keeps what is known of quotes: a change of profiles leaves
\* the rules, and a change of rules leaves the profiles.
LEMMA WitnessKeeps ==
    ASSUME PriceInv, InForce' \subseteq Prices, NEW what \in {"profile", "rules"}, Witnessed(what),
           what = "profile" => rule' = rule,
           what = "rules" => profile' = profile
    PROVE  quote' \in [Quotes -> QuoteRecord] /\ QuotesTell' /\ PriceWasInForce'
<1> DEFINE NewRules(p) == {k \in rule' : k.profile = p}
<1>0. TypeOK /\ QuotesTell /\ PriceWasInForce
  BY DEF PriceInv
<1>1. quote' \in [Quotes -> QuoteRecord]
  BY <1>0, WitnessedDoes
<1>2. ASSUME NEW q \in Quotes, quote'[q].pc = "rules"
      PROVE  /\ quote'[q].profile \in Profiles /\ quote'[q].terms \in Terms
             /\ quote'[q].occasion \in Occasions
             /\ InForce' \subseteq quote'[q].seen
             /\ "profile" \notin quote'[q].changed =>
                   /\ profile'[quote'[q].profile].default
                   /\ profile'[quote'[q].profile].terms = quote'[q].terms
             /\ quote'[q].changed # {"profile", "rules"} =>
                   [terms |-> quote'[q].terms, rules |-> NewRules(quote'[q].profile)]
                         \in quote'[q].seen
  <2>1. quote[q].pc = "rules"
    BY <1>0, <1>2, WitnessedDoes
  <2>2. /\ quote'[q].profile = quote[q].profile /\ quote'[q].terms = quote[q].terms
        /\ quote'[q].occasion = quote[q].occasion
        /\ quote'[q].seen = quote[q].seen \cup InForce'
        /\ quote'[q].changed = quote[q].changed \cup {what}
    BY <1>0, <2>1, WitnessedDoes
  <2>3. /\ quote[q].profile \in Profiles /\ quote[q].terms \in Terms
        /\ quote[q].occasion \in Occasions
        /\ "profile" \notin quote[q].changed =>
              profile[quote[q].profile].default /\ profile[quote[q].profile].terms = quote[q].terms
        /\ quote[q].changed # {"profile", "rules"} =>
              [terms |-> quote[q].terms, rules |-> RulesOf(quote[q].profile)] \in quote[q].seen
        /\ quote[q].changed \subseteq {"profile", "rules"}
    BY <1>0, <2>1 DEF QuotesTell, TypeOK
  <2>4. CASE what = "profile"
    <3>1. NewRules(quote[q].profile) = RulesOf(quote[q].profile)
      BY <2>4 DEF RulesOf
    <3>2. quote'[q].changed # {"profile", "rules"} => quote[q].changed # {"profile", "rules"}
      BY <2>2, <2>3, <2>4
    <3> QED BY <2>2, <2>3, <2>4, <3>1, <3>2
  <2>5. CASE what = "rules"
    <3>1. "profile" \notin quote'[q].changed <=> "profile" \notin quote[q].changed
      BY <2>2, <2>5
    <3>2. "profile" \notin quote[q].changed =>
              [terms |-> quote[q].terms, rules |-> NewRules(quote[q].profile)] \in InForce'
      <4> SUFFICES ASSUME "profile" \notin quote[q].changed
                   PROVE  [terms |-> quote[q].terms, rules |-> NewRules(quote[q].profile)] \in InForce'
        OBVIOUS
      <4>1. /\ profile'[quote[q].profile].default
            /\ profile'[quote[q].profile].terms = quote[q].terms
        BY <2>3, <2>5
      <4> QED BY <2>3, <4>1 DEF InForce, Defaults, RulesOf
    <3>3. quote'[q].changed # {"profile", "rules"} => "profile" \notin quote[q].changed
      BY <2>2, <2>3, <2>5
    <3> QED BY <2>2, <2>3, <2>5, <3>1, <3>2, <3>3
  <2> QED BY <2>4, <2>5
<1>3. QuotesTell'
  BY <1>2 DEF QuotesTell, RulesOf
<1>4. PriceWasInForce'
  <2> SUFFICES ASSUME NEW q \in Quotes, quote'[q].pc = "priced"
               PROVE  \/ [terms |-> quote'[q].terms, rules |-> quote'[q].rules] \in quote'[q].seen
                      \/ quote'[q].changed = {"profile", "rules"}
    BY DEF PriceWasInForce
  <2>1. quote[q].pc # "rules" /\ quote'[q] = quote[q]
    BY <1>0, WitnessedDoes
  <2> QED BY <1>0, <2>1 DEF PriceWasInForce
<1> QED BY <1>1, <1>3, <1>4
\* The amounts of a booking are whole numbers, whatever rules are picked.
LEMMA SubtotalTyped ==
    ASSUME PricingAssumption, NEW terms \in Terms, NEW occasion \in Occasions,
           NEW applicable \in SUBSET Rows, NEW picked \in Selections(applicable)
    PROVE  Subtotal(terms, occasion, picked) \in Int
<1>1. \A r \in Rows : r.value \in Int /\ r.percent \in BOOLEAN
  BY DEF Rows
<1>2. ASSUME NEW rules \in SUBSET Rows, NEW r \in Picks(rules)
      PROVE  r.value \in Int /\ r.percent \in BOOLEAN
  <2>1. NoRule.value \in Int /\ NoRule.percent \in BOOLEAN
    BY DEF NoRule
  <2>2. r = NoRule \/ r \in Rows
    BY DEF Picks
  <2> QED BY <1>1, <2>1, <2>2
<1>3. \A r \in {picked.leading, picked.attribute, picked.other} :
          r.value \in Int /\ r.percent \in BOOLEAN
  <2>1. PICK A \in SUBSET Rows, B \in SUBSET Rows, C \in SUBSET Rows :
            picked \in [leading : Picks(A), attribute : Picks(B), other : Picks(C)]
    BY DEF Selections
  <2>2. picked.leading \in Picks(A) /\ picked.attribute \in Picks(B) /\ picked.other \in Picks(C)
    BY <2>1
  <2> QED BY <1>2, <2>2
<1> DEFINE base == BasePrice(terms, occasion)
<1>4. base \in Int
  <2> DEFINE cents == terms.price * occasion.minutes
  <2>1. terms.price \in Nat /\ occasion.minutes \in Int
    BY DEF PricingAssumption
  <2>2. cents \in Int
    BY <2>1
  <2> HIDE DEF cents
  <2>3. RoundDiv(cents, 60) \in Int
    BY <2>2, Rounding
  <2> QED BY <2>3 DEF BasePrice, cents
<1> HIDE DEF base
<1>5. ASSUME NEW r, r.value \in Int, r.percent \in BOOLEAN
      PROVE  Amount(r, base) \in Int
  <2> DEFINE share == base * r.value
  <2>1. share \in Int
    BY <1>4, <1>5
  <2> HIDE DEF share
  <2>2. RoundDiv(share, 100) \in Int
    BY <2>1, Rounding
  <2> QED BY <1>5, <2>2 DEF Amount, share
<1>6. /\ Amount(picked.leading, base) \in Int /\ Amount(picked.attribute, base) \in Int
      /\ Amount(picked.other, base) \in Int
  BY <1>3, <1>5
<1> QED BY <1>4, <1>6 DEF Subtotal, base

LEMMA BookingTyped ==
    ASSUME PricingAssumption, NEW terms \in Terms, NEW kind \in CodeKinds \cup {Nil},
           NEW subtotal \in Int
    PROVE  Booking(terms, subtotal, kind) \in Amounts
<1>1. terms.fee \in Nat /\ terms.tax \in Nat
  BY DEF PricingAssumption
<1>2. \A s \in Int : Total(terms, s) \in Int
  BY <1>1, TotalGrows
<1>3. CASE kind = Nil
  BY <1>2, <1>3 DEF Booking, Amounts
<1>4. CASE kind # Nil
  <2>1. kind.value \in Int /\ kind.cap \in Int
    BY <1>4 DEF PricingAssumption
  <2> DEFINE share == subtotal * kind.value
  <2>2. share \in Int
    BY <2>1
  <2> HIDE DEF share
  <2>3. RoundDiv(share, 100) \in Int
    BY <2>2, Rounding
  <2>4. AppliedAmount(kind, subtotal) \in Int
    BY <2>1, <2>3 DEF AppliedAmount, Smaller, share
  <2>5. \A a \in Int : Larger(0, subtotal - Larger(0, Smaller(a, subtotal))) \in Int
    BY DEF Larger, Smaller
  <2>6. DiscountedTotal(terms, subtotal, AppliedAmount(kind, subtotal)) \in Int
    BY <1>2, <2>4, <2>5 DEF DiscountedTotal
  <2> QED BY <1>4, <2>4, <2>6 DEF Booking, Amounts
<1> QED BY <1>3, <1>4

\* What ReadRules makes of a quote: nothing, or a booking at the prices it read.
LEMMA ReadRulesDoes ==
    ASSUME PricingAssumption, PriceInv, NEW q \in Quotes, ReadRules(q)
    PROVE  LET it == quote[q]
               found == RulesOf(it.profile)
           IN /\ it.pc = "rules" /\ it.terms \in Terms
              /\ UNCHANGED <<profile, rule, edit, kept>>
              /\ quote' \in [Quotes -> QuoteRecord]
              /\ \A r \in Quotes \ {q} : quote'[r] = quote[r]
              /\ \/ quote'[q] = NoQuote
                 \/ /\ quote'[q].pc = "priced" /\ quote'[q].rules = found
                    /\ quote'[q].terms = it.terms /\ quote'[q].code = it.code
                    /\ quote'[q].changed = it.changed
                    /\ quote'[q].seen = it.seen \cap {[terms |-> it.terms, rules |-> found]}
                    /\ \E subtotal \in Int :
                          /\ quote'[q].booking = Booking(it.terms, subtotal, it.code)
                          /\ it.code # Nil => subtotal >= it.code.minimum
<1> DEFINE it == quote[q]
           found == RulesOf(it.profile)
           applicable == {k \in found : Applies(k, it.occasion)}
<1>0. TypeOK /\ QuotesTell
  BY DEF PriceInv
<1>1. it.pc = "rules" /\ UNCHANGED <<profile, rule, edit, kept>>
  BY DEF ReadRules, MakeQuote
<1>2. it.terms \in Terms /\ it.occasion \in Occasions /\ it \in QuoteRecord
      /\ it.code \in CodeKinds \cup {Nil} /\ found \subseteq Rows
  BY <1>0, <1>1, PricesTyped DEF QuotesTell, TypeOK, QuoteRecord
<1>3. PICK picked \in Selections(applicable) :
          LET subtotal == Subtotal(it.terms, it.occasion, picked)
          IN quote' = [quote EXCEPT ![q] =
                 IF it.code # Nil /\ subtotal < it.code.minimum THEN NoQuote
                 ELSE [it EXCEPT !.pc = "priced", !.rules = found,
                          !.seen = @ \cap {[terms |-> it.terms, rules |-> found]},
                          !.booking = Booking(it.terms, subtotal, it.code)]]
  BY DEF ReadRules, MakeQuote
<1> DEFINE subtotal == Subtotal(it.terms, it.occasion, picked)
           b == Booking(it.terms, subtotal, it.code)
           x == [it EXCEPT !.pc = "priced", !.rules = found,
                    !.seen = @ \cap {[terms |-> it.terms, rules |-> found]}, !.booking = b]
<1>4. subtotal \in Int
  <2>1. applicable \in SUBSET Rows
    BY <1>2
  <2> HIDE DEF applicable
  <2> QED BY <1>2, <2>1, SubtotalTyped
<1>5. b \in Amounts
  BY <1>2, <1>4, BookingTyped
<1>6. it.code # Nil => it.code.minimum \in Nat
  BY <1>2 DEF PricingAssumption
<1>7. /\ x \in QuoteRecord /\ x.pc = "priced" /\ x.rules = found /\ x.terms = it.terms
      /\ x.code = it.code /\ x.changed = it.changed
      /\ x.seen = it.seen \cap {[terms |-> it.terms, rules |-> found]} /\ x.booking = b
  <2> HIDE DEF b, found
  <2> QED BY <1>2, <1>5 DEF QuoteRecord
<1>8. quote' = [quote EXCEPT ![q] = IF it.code # Nil /\ subtotal < it.code.minimum THEN NoQuote ELSE x]
  BY <1>3
<1>9. quote \in [Quotes -> QuoteRecord]
  BY <1>0 DEF TypeOK, QuoteRecord
<1> HIDE DEF x, subtotal
<1>10. /\ quote' \in [Quotes -> QuoteRecord] /\ \A r \in Quotes \ {q} : quote'[r] = quote[r]
       /\ quote'[q] = IF it.code # Nil /\ subtotal < it.code.minimum THEN NoQuote ELSE x
  BY <1>7, <1>8, <1>9, NothingTyped
<1>11. CASE it.code # Nil /\ subtotal < it.code.minimum
  BY <1>1, <1>2, <1>10, <1>11
<1>12. CASE ~(it.code # Nil /\ subtotal < it.code.minimum)
  <2>1. it.code # Nil => subtotal >= it.code.minimum
    BY <1>4, <1>6, <1>12
  <2> QED BY <1>1, <1>2, <1>4, <1>7, <1>10, <1>12, <2>1
<1> QED BY <1>11, <1>12
------------------------------------------------------------------------------
(* The steps.                                                              *)

LEMMA EditsDo ==
    ASSUME TypeOK, NEW e \in Edits, NEW x \in EditRecord, edit' = [edit EXCEPT ![e] = x]
    PROVE  /\ edit' \in [Edits -> EditRecord] /\ edit'[e] = x
           /\ \A d \in Edits \ {e} : edit'[d] = edit[d]
BY DEF TypeOK, EditRecord

\* Creating and updating begin an edit.
LEMMA BeginDoes ==
    ASSUME TypeOK, NEW e \in Edits, NEW p \in Profiles, NEW flag \in {"set", "leave", "unset"},
           \/ \E t \in Terms : CreateProfile(e, p, t, flag)
           \/ \E t \in Terms \cup {Nil} : UpdateProfile(e, p, t, flag)
    PROVE  /\ edit' \in [Edits -> EditRecord] /\ \A d \in Edits \ {e} : edit'[d] = edit[d]
           /\ edit'[e].profile = p /\ (edit'[e].terms = Nil => Stored(p) \/ Nil \in Terms)
           /\ edit'[e].pc = "clear" => edit'[e].flag = "set"
           /\ edit[e].pc = "idle"
           /\ UNCHANGED <<profile, rule, quote, kept>>
<1> DEFINE Begun(pc, t) == [pc |-> pc, profile |-> p, terms |-> t, flag |-> flag]
<1>1. PICK t \in Terms \cup {Nil}, pc \in {"clear", "insert", "update"} :
          /\ edit' = [edit EXCEPT ![e] = Begun(pc, t)]
          /\ pc = "clear" => flag = "set"
          /\ t = Nil => Stored(p) \/ Nil \in Terms
  BY DEF CreateProfile, UpdateProfile
<1>2. /\ Begun(pc, t) \in EditRecord /\ Begun(pc, t).pc = pc /\ Begun(pc, t).profile = p
      /\ Begun(pc, t).terms = t /\ Begun(pc, t).flag = flag
  BY DEF EditRecord
<1>3. edit[e].pc = "idle" /\ UNCHANGED <<profile, rule, quote, kept>>
  BY DEF CreateProfile, UpdateProfile
<1> HIDE DEF Begun
<1> QED BY <1>1, <1>2, <1>3, EditsDo

LEMMA ClearDefaultDoes ==
    ASSUME TypeOK, NEW e \in Edits, ClearDefault(e)
    PROVE  /\ edit' \in [Edits -> EditRecord] /\ \A d \in Edits \ {e} : edit'[d] = edit[d]
           /\ edit[e].pc = "clear" /\ edit'[e].pc \in {"insert", "update"}
           /\ edit'[e].profile = edit[e].profile /\ edit'[e].terms = edit[e].terms
           /\ edit'[e].flag = edit[e].flag
           /\ profile' \in [Profiles -> ProfileRecord]
           /\ \A p \in Profiles : profile'[p].terms = profile[p].terms /\ profile'[p].default = FALSE
<1>1. edit \in [Edits -> EditRecord] /\ edit[e] \in EditRecord
  BY DEF TypeOK, EditRecord
<1> DEFINE x == [edit[e] EXCEPT !.pc = IF Stored(edit[e].profile) THEN "update" ELSE "insert"]
<1>2. x \in EditRecord /\ x.pc \in {"insert", "update"} /\ x.profile = edit[e].profile
      /\ x.terms = edit[e].terms /\ x.flag = edit[e].flag
  BY <1>1 DEF EditRecord
<1>3. edit' = [edit EXCEPT ![e] = x] /\ edit[e].pc = "clear"
  BY DEF ClearDefault
<1> HIDE DEF x
<1>4. profile' \in [Profiles -> ProfileRecord]
      /\ \A p \in Profiles : profile'[p].terms = profile[p].terms /\ profile'[p].default = FALSE
  <2>1. profile' = [p \in Profiles |-> [profile[p] EXCEPT !.default = FALSE]]
    BY DEF ClearDefault
  <2>2. \A p \in Profiles : profile[p] \in ProfileRecord
    BY DEF TypeOK, ProfileRecord
  <2>3. \A r \in ProfileRecord : /\ [r EXCEPT !.default = FALSE] \in ProfileRecord
                                 /\ [r EXCEPT !.default = FALSE].terms = r.terms
                                 /\ [r EXCEPT !.default = FALSE].default = FALSE
    BY DEF ProfileRecord
  <2> QED BY <2>1, <2>2, <2>3
<1> QED BY <1>2, <1>3, <1>4, EditsDo

LEMMA WriteProfileDoes ==
    ASSUME PricingAssumption, TypeOK, EditsTell, NEW e \in Edits, WriteProfile(e)
    PROVE  /\ edit[e].pc \in {"insert", "update"} /\ edit[e].profile \in Profiles
           /\ edit' \in [Edits -> EditRecord] /\ \A d \in Edits \ {e} : edit'[d] = edit[d]
           /\ edit'[e].pc = "idle"
           /\ profile' = [profile EXCEPT ![edit[e].profile] = Row(e)]
           /\ Row(e) \in ProfileRecord /\ Row(e).terms # Nil
           /\ Row(e).default <=> edit[e].flag = "set"
                                 \/ (edit[e].flag = "leave" /\ profile[edit[e].profile].default)
<1>1. edit[e] \in EditRecord /\ edit[e].pc \in {"insert", "update"}
      /\ edit' = [edit EXCEPT ![e] = NoEdit]
      /\ profile' = [profile EXCEPT ![edit[e].profile] = Row(e)]
  BY DEF WriteProfile, TypeOK, EditRecord
<1>2. edit[e].profile \in Profiles /\ (edit[e].terms = Nil => Stored(edit[e].profile))
  BY <1>1 DEF EditsTell
<1>3. profile[edit[e].profile] \in ProfileRecord
  BY <1>2 DEF TypeOK, ProfileRecord
<1>4. Row(e) \in ProfileRecord /\ Row(e).terms # Nil
      /\ (Row(e).default <=> edit[e].flag = "set"
                             \/ (edit[e].flag = "leave" /\ profile[edit[e].profile].default))
  BY <1>1, <1>2, <1>3 DEF Row, ProfileRecord, EditRecord, Stored
<1> QED BY <1>1, <1>2, <1>4, EditsDo, NothingTyped

\* An edit changes profiles, and so the prices in force.
LEMMA ProfilesKeep ==
    ASSUME PriceInv, profile' \in [Profiles -> ProfileRecord], edit' \in [Edits -> EditRecord],
           rule' = rule, kept' \in BOOLEAN, EditsTell', Witnessed("profile")
    PROVE  PriceInv'
<1>1. InForce' \subseteq Prices
  <2>1. \A p \in Profiles : profile'[p].terms \in Terms \cup {Nil}
    BY DEF ProfileRecord
  <2>2. \A p : RulesOf(p)' \subseteq Rows
    BY DEF PriceInv, TypeOK, RulesOf
  <2> QED BY <2>1, <2>2 DEF InForce, Defaults, Prices
<1>2. quote' \in [Quotes -> QuoteRecord] /\ QuotesTell' /\ PriceWasInForce'
  BY <1>1, WitnessKeeps
<1> QED BY <1>2 DEF PriceInv, TypeOK, ProfileRecord, EditRecord, QuoteRecord

\* A step of an edit that leaves prices and quotes.
LEMMA EditsKeep ==
    ASSUME PriceInv, edit' \in [Edits -> EditRecord], UNCHANGED <<profile, rule, quote>>,
           kept' \in BOOLEAN, EditsTell'
    PROVE  PriceInv'
<1>1. TypeOK'
  BY DEF PriceInv, TypeOK, EditRecord
<1>2. InForce' = InForce
  BY DEF InForce, Defaults, RulesOf
<1>3. \A p : RulesOf(p)' = RulesOf(p)
  BY DEF RulesOf
<1>4. QuotesTell'
  BY <1>2, <1>3 DEF PriceInv, QuotesTell
<1>5. PriceWasInForce'
  BY DEF PriceInv, PriceWasInForce
<1> QED BY <1>1, <1>4, <1>5 DEF PriceInv

\* What an edit's steps owe EditsTell: rows stay stored, and the edits are told.
LEMMA EditsTold ==
    ASSUME EditsTell, NEW e \in Edits, \A d \in Edits \ {e} : edit'[d] = edit[d],
           \A p \in Profiles : /\ profile[p].terms # Nil => profile'[p].terms # Nil
                               /\ profile'[p].default => profile'[p].terms # Nil,
           edit'[e].pc # "idle" =>
               /\ edit'[e].profile \in Profiles
               /\ edit'[e].terms = Nil => profile'[edit'[e].profile].terms # Nil,
           edit'[e].pc = "clear" => edit'[e].flag = "set"
    PROVE  EditsTell'
<1>1. ASSUME NEW d \in Edits
      PROVE  /\ edit'[d].pc # "idle" =>
                   /\ edit'[d].profile \in Profiles
                   /\ edit'[d].terms = Nil => profile'[edit'[d].profile].terms # Nil
             /\ edit'[d].pc = "clear" => edit'[d].flag = "set"
  <2>1. CASE d = e
    BY <2>1
  <2>2. CASE d # e
    <3>1. edit'[d] = edit[d]
      BY <2>2
    <3>2. /\ edit[d].pc # "idle" =>
                /\ edit[d].profile \in Profiles
                /\ edit[d].terms = Nil => profile[edit[d].profile].terms # Nil
          /\ edit[d].pc = "clear" => edit[d].flag = "set"
      BY DEF EditsTell, Stored
    <3> QED BY <3>1, <3>2
  <2> QED BY <2>1, <2>2
<1> QED BY <1>1 DEF EditsTell, Stored

LEMMA PriceNext ==
    ASSUME PricingAssumption, PriceInv, [Next]_vars
    PROVE  PriceInv'
<1>0. TypeOK /\ EditsTell /\ QuotesTell /\ PriceWasInForce /\ kept \in BOOLEAN
  BY DEF PriceInv, TypeOK
<1>1. ASSUME NEW e \in Edits, NEW p \in Profiles, NEW flag \in {"set", "leave", "unset"},
             \/ \E t \in Terms : CreateProfile(e, p, t, flag)
             \/ \E t \in Terms \cup {Nil} : UpdateProfile(e, p, t, flag)
      PROVE  PriceInv'
  <2>1. EditsTell'
    BY <1>0, <1>1, BeginDoes DEF EditsTell, Stored, PricingAssumption
  <2> QED BY <1>0, <1>1, <2>1, BeginDoes, EditsKeep
<1>2. ASSUME NEW e \in Edits, ClearDefault(e)
      PROVE  PriceInv'
  <2>1. UNCHANGED <<rule, kept>> /\ Witnessed("profile")
    BY <1>2 DEF ClearDefault
  <2>2. EditsTell'
    <3>1. /\ edit[e].profile \in Profiles
          /\ edit[e].terms = Nil => profile[edit[e].profile].terms # Nil
      BY <1>0, <1>2, ClearDefaultDoes DEF EditsTell, Stored
    <3>2. /\ \A d \in Edits \ {e} : edit'[d] = edit[d]
          /\ edit'[e].pc # "clear" /\ edit'[e].profile = edit[e].profile
          /\ edit'[e].terms = edit[e].terms
      BY <1>0, <1>2, ClearDefaultDoes
    <3>3. \A p \in Profiles : profile'[p].terms = profile[p].terms /\ ~profile'[p].default
      BY <1>0, <1>2, ClearDefaultDoes
    <3> QED BY <1>0, <3>1, <3>2, <3>3, EditsTold
  <2> QED BY <1>0, <1>2, <2>1, <2>2, ClearDefaultDoes, ProfilesKeep
<1>3. ASSUME NEW e \in Edits, WriteProfile(e)
      PROVE  PriceInv'
  <2>1. rule' = rule /\ kept' \in BOOLEAN /\ Witnessed("profile")
    BY <1>3 DEF WriteProfile
  <2>2. /\ profile' \in [Profiles -> ProfileRecord]
        /\ \A p \in Profiles : p # edit[e].profile => profile'[p] = profile[p]
        /\ profile'[edit[e].profile].terms # Nil
    BY <1>0, <1>3, WriteProfileDoes DEF TypeOK, ProfileRecord
  <2>3. ASSUME NEW p \in Profiles
        PROVE  /\ profile[p].terms # Nil => profile'[p].terms # Nil
               /\ profile'[p].default => profile'[p].terms # Nil
    <3>1. CASE p = edit[e].profile
      BY <2>2, <3>1
    <3>2. CASE p # edit[e].profile
      <4>1. profile'[p] = profile[p]
        BY <2>2, <3>2
      <4>2. profile[p].default => profile[p].terms # Nil
        BY <1>0 DEF EditsTell, Stored
      <4> QED BY <4>1, <4>2
    <3> QED BY <3>1, <3>2
  <2>4. EditsTell'
    <3>1. edit'[e].pc = "idle" /\ \A d \in Edits \ {e} : edit'[d] = edit[d]
      BY <1>0, <1>3, WriteProfileDoes
    <3> QED BY <1>0, <2>3, <3>1, EditsTold
  <2> QED BY <1>0, <1>3, <2>1, <2>2, <2>4, WriteProfileDoes, ProfilesKeep
<1>4. ASSUME NEW e \in Edits, EditEnds(e)
      PROVE  PriceInv'
  <2>1. edit' = [edit EXCEPT ![e] = NoEdit] /\ UNCHANGED <<profile, rule, quote>>
        /\ kept' \in BOOLEAN
    BY <1>4 DEF EditEnds
  <2>2. /\ edit' \in [Edits -> EditRecord] /\ edit'[e].pc = "idle"
        /\ \A d \in Edits \ {e} : edit'[d] = edit[d]
    BY <1>0, <2>1, EditsDo, NothingTyped
  <2>3. EditsTell'
    BY <1>0, <2>1, <2>2 DEF EditsTell, Stored
  <2> QED BY <2>1, <2>2, <2>3, EditsKeep
<1>5. ASSUME rule' \subseteq Rows, UNCHANGED <<profile, edit, kept>>, Witnessed("rules")
      PROVE  PriceInv'
  <2>1. InForce' \subseteq Prices
    BY <1>0, <1>5 DEF InForce, Defaults, RulesOf, Prices, TypeOK
  <2>2. quote' \in [Quotes -> QuoteRecord] /\ QuotesTell' /\ PriceWasInForce'
    BY <1>5, <2>1, WitnessKeeps
  <2>3. EditsTell'
    BY <1>0, <1>5 DEF EditsTell, Stored
  <2> QED BY <1>0, <1>5, <2>2, <2>3 DEF PriceInv, TypeOK, QuoteRecord
<1>6. ASSUME NEW k \in RuleIds, NEW p \in Profiles, NEW kind \in RuleKinds, CreateRule(k, p, kind)
      PROVE  PriceInv'
  <2>1. [kind EXCEPT !.id = k, !.profile = p] \in Rows
    BY DEF PricingAssumption, Rows
  <2>2. rule' = rule \cup {[kind EXCEPT !.id = k, !.profile = p]}
    BY <1>6 DEF CreateRule
  <2>3. rule' \subseteq Rows
    BY <1>0, <2>1, <2>2 DEF TypeOK
  <2> QED BY <1>5, <1>6, <2>3 DEF CreateRule
<1>7. ASSUME NEW k \in RuleIds, DeleteRule(k)
      PROVE  PriceInv'
  <2>1. rule' \subseteq Rows
    BY <1>0, <1>7 DEF DeleteRule, TypeOK
  <2> QED BY <1>5, <1>7, <2>1 DEF DeleteRule
\* A step of one quote, which changes no prices.
<1>8. ASSUME NEW q \in Quotes, UNCHANGED <<profile, rule, edit, kept>>,
             quote' \in [Quotes -> QuoteRecord], \A r \in Quotes \ {q} : quote'[r] = quote[r],
             quote'[q].pc = "rules" =>
                 /\ quote'[q].profile \in Profiles /\ quote'[q].terms \in Terms
                 /\ quote'[q].occasion \in Occasions
                 /\ InForce \subseteq quote'[q].seen
                 /\ profile[quote'[q].profile].default
                 /\ profile[quote'[q].profile].terms = quote'[q].terms
                 /\ [terms |-> quote'[q].terms,
                     rules |-> {k \in rule : k.profile = quote'[q].profile}] \in quote'[q].seen,
             quote'[q].pc = "priced" =>
                 \/ [terms |-> quote'[q].terms, rules |-> quote'[q].rules] \in quote'[q].seen
                 \/ quote'[q].changed = {"profile", "rules"}
      PROVE  PriceInv'
  <2>1. PriceWasInForce'
    BY <1>0, <1>8 DEF PriceWasInForce
  <2>2. InForce' = InForce
    BY <1>8 DEF InForce, Defaults, RulesOf
  <2>3. ASSUME NEW r \in Quotes, quote'[r].pc = "rules"
        PROVE  /\ quote'[r].profile \in Profiles /\ quote'[r].terms \in Terms
               /\ quote'[r].occasion \in Occasions /\ InForce \subseteq quote'[r].seen
               /\ "profile" \notin quote'[r].changed =>
                     /\ profile[quote'[r].profile].default
                     /\ profile[quote'[r].profile].terms = quote'[r].terms
               /\ quote'[r].changed # {"profile", "rules"} =>
                     [terms |-> quote'[r].terms,
                      rules |-> {k \in rule : k.profile = quote'[r].profile}] \in quote'[r].seen
    <3>1. CASE r = q
      BY <1>8, <2>3, <3>1
    <3>2. CASE r # q
      <4>1. quote'[r] = quote[r]
        BY <1>8, <3>2
      <4> QED BY <1>0, <2>3, <4>1 DEF QuotesTell, RulesOf
    <3> QED BY <3>1, <3>2
  <2>4. QuotesTell'
    BY <1>8, <2>2, <2>3 DEF QuotesTell, RulesOf
  <2> QED BY <1>0, <1>8, <2>1, <2>4 DEF PriceInv, TypeOK, QuoteRecord, EditsTell, Stored
<1>9. ASSUME NEW q \in Quotes, NEW o \in Occasions, NEW c \in CodeKinds \cup {Nil}, ReadProfile(q, o, c)
      PROVE  PriceInv'
  <2>1. PICK p \in Defaults :
            quote' = [quote EXCEPT ![q] =
                [NoQuote EXCEPT !.pc = "rules", !.profile = p, !.terms = profile[p].terms,
                                !.occasion = o, !.code = c, !.seen = InForce]]
    BY <1>9 DEF ReadProfile
  <2> DEFINE x == [NoQuote EXCEPT !.pc = "rules", !.profile = p, !.terms = profile[p].terms,
                                  !.occasion = o, !.code = c, !.seen = InForce]
  <2>2. p \in Profiles /\ profile[p].default /\ profile[p].terms \in Terms
    BY <1>0 DEF Defaults, EditsTell, Stored, TypeOK
  <2>3. InForce \subseteq Prices
    BY <1>0, PricesTyped
  <2>4. /\ x \in QuoteRecord /\ x.pc = "rules" /\ x.profile = p /\ x.terms = profile[p].terms
        /\ x.occasion = o /\ x.seen = InForce
    BY <2>2, <2>3 DEF NoQuote, QuoteRecord
  <2>5. [terms |-> profile[p].terms, rules |-> {k \in rule : k.profile = p}] \in InForce
    BY <2>2 DEF InForce, Defaults, RulesOf
  <2> HIDE DEF x
  <2>6. /\ quote' \in [Quotes -> QuoteRecord] /\ quote'[q] = x
        /\ \A r \in Quotes \ {q} : quote'[r] = quote[r]
    BY <1>0, <2>1, <2>4 DEF x, TypeOK, QuoteRecord
  <2>7. UNCHANGED <<profile, rule, edit, kept>>
    BY <1>9 DEF ReadProfile
  <2> QED BY <1>8, <2>2, <2>4, <2>5, <2>6, <2>7
<1>10. ASSUME NEW q \in Quotes, ReadRules(q)
       PROVE  PriceInv'
  <2>1. UNCHANGED <<profile, rule, edit, kept>> /\ quote' \in [Quotes -> QuoteRecord]
        /\ \A r \in Quotes \ {q} : quote'[r] = quote[r]
    BY <1>10, ReadRulesDoes
  <2>2. quote'[q].pc # "rules"
    BY <1>10, ReadRulesDoes, NothingTyped
  <2>3. quote'[q].pc = "priced" =>
            \/ [terms |-> quote'[q].terms, rules |-> quote'[q].rules] \in quote'[q].seen
            \/ quote'[q].changed = {"profile", "rules"}
    BY <1>0, <1>10, ReadRulesDoes, NothingTyped DEF QuotesTell
  <2> QED BY <1>8, <2>1, <2>2, <2>3
<1>11. ASSUME NEW q \in Quotes, Return(q)
       PROVE  PriceInv'
  <2>1. /\ quote' \in [Quotes -> QuoteRecord] /\ quote'[q].pc = "idle"
        /\ \A r \in Quotes \ {q} : quote'[r] = quote[r]
    BY <1>0, <1>11, NothingTyped DEF Return, TypeOK, QuoteRecord
  <2>2. UNCHANGED <<profile, rule, edit, kept>>
    BY <1>11 DEF Return
  <2> QED BY <1>8, <2>1, <2>2
<1>12. ASSUME UNCHANGED vars
       PROVE  PriceInv'
  <2>1. UNCHANGED <<profile, rule, edit, quote, kept>>
    BY <1>12 DEF vars
  <2>2. TypeOK' /\ EditsTell' /\ PriceWasInForce'
    BY <1>0, <2>1 DEF TypeOK, EditsTell, PriceWasInForce, Stored
  <2>3. InForce' = InForce
    BY <2>1 DEF InForce, Defaults, RulesOf
  <2>4. QuotesTell'
    BY <1>0, <2>1, <2>3 DEF QuotesTell, RulesOf
  <2> QED BY <2>2, <2>4 DEF PriceInv
<1> QED
  BY <1>1, <1>2, <1>3, <1>4, <1>6, <1>7, <1>9, <1>10, <1>11, <1>12 DEF Next

LEMMA PriceAlways == ASSUME PricingAssumption PROVE Spec => []PriceInv
<1>1. Init => PriceInv
  BY PriceInit
<1>2. PriceInv /\ [Next]_vars => PriceInv'
  BY PriceNext
<1> QED BY <1>1, <1>2, PTL DEF Spec

\* Profiles, rules, edits, quotes and bookings keep their types.
THEOREM TypeCorrect == ASSUME PricingAssumption PROVE Spec => []TypeOK
<1>1. PriceInv => TypeOK
  BY DEF PriceInv
<1> QED BY <1>1, PriceAlways, PTL

\* A booking is priced by terms and rules that were in force together, unless both
\* were changed between the two reads of its quote.
THEOREM PricesWereInForce == ASSUME PricingAssumption PROVE Spec => []PriceWasInForce
<1>1. PriceInv => PriceWasInForce
  BY DEF PriceInv
<1> QED BY <1>1, PriceAlways, PTL

------------------------------------------------------------------------------
(* A listing keeps its default profile.                                    *)

\* The steps of rules and quotes leave profiles and edits alone.
LEMMA OthersLeaveProfiles ==
    ASSUME \/ \E k \in RuleIds, p \in Profiles, kind \in RuleKinds : CreateRule(k, p, kind)
           \/ \E k \in RuleIds : DeleteRule(k)
           \/ \E q \in Quotes, o \in Occasions, c \in CodeKinds \cup {Nil} : ReadProfile(q, o, c)
           \/ \E q \in Quotes : ReadRules(q) \/ Return(q)
           \/ UNCHANGED vars
    PROVE  UNCHANGED <<profile, edit, kept>>
BY DEF CreateRule, DeleteRule, ReadProfile, ReadRules, MakeQuote, Return, vars

LEMMA DefaultNext ==
    ASSUME PricingAssumption, PriceInv, DefaultKept, [Next]_vars
    PROVE  DefaultKept'
<1>0. TypeOK /\ EditsTell
  BY DEF PriceInv
<1> DEFINE Between(d) == edit[d].flag = "set" /\ edit[d].pc \in {"insert", "update"}
<1> SUFFICES ASSUME kept'
             PROVE  \/ \E p \in Profiles : profile'[p].default
                    \/ \E d \in Edits : edit'[d].flag = "set" /\ edit'[d].pc \in {"insert", "update"}
  BY DEF DefaultKept, Defaults
<1>1. kept => (\E p \in Profiles : profile[p].default) \/ \E d \in Edits : Between(d)
  BY DEF DefaultKept, Defaults
<1>2. ASSUME NEW e \in Edits, NEW p \in Profiles, NEW flag \in {"set", "leave", "unset"},
             \/ \E t \in Terms : CreateProfile(e, p, t, flag)
             \/ \E t \in Terms \cup {Nil} : UpdateProfile(e, p, t, flag)
      PROVE  \/ \E r \in Profiles : profile'[r].default
             \/ \E d \in Edits : edit'[d].flag = "set" /\ edit'[d].pc \in {"insert", "update"}
  <2>1. profile' = profile /\ kept' = kept
    BY <1>2 DEF CreateProfile, UpdateProfile
  <2>2. edit[e].pc = "idle" /\ \A d \in Edits \ {e} : edit'[d] = edit[d]
    <3>1. edit[e].pc = "idle"
      BY <1>2 DEF CreateProfile, UpdateProfile
    <3>2. PICK x : edit' = [edit EXCEPT ![e] = x]
      BY <1>2 DEF CreateProfile, UpdateProfile
    <3>3. \A d \in Edits \ {e} : edit'[d] = edit[d]
      BY <1>0, <3>2 DEF TypeOK
    <3> QED BY <3>1, <3>3
  <2> QED BY <1>1, <2>1, <2>2
<1>3. ASSUME NEW e \in Edits, ClearDefault(e)
      PROVE  \E d \in Edits : edit'[d].flag = "set" /\ edit'[d].pc \in {"insert", "update"}
  <2>1. edit[e].flag = "set"
    BY <1>0, <1>3, ClearDefaultDoes DEF EditsTell
  <2>2. edit'[e].flag = edit[e].flag /\ edit'[e].pc \in {"insert", "update"}
    BY <1>0, <1>3, ClearDefaultDoes
  <2> QED BY <2>1, <2>2
<1>4. ASSUME NEW e \in Edits, WriteProfile(e)
      PROVE  \/ \E p \in Profiles : profile'[p].default
             \/ \E d \in Edits : edit'[d].flag = "set" /\ edit'[d].pc \in {"insert", "update"}
  <2> DEFINE own == edit[e].profile
  <2>1. /\ own \in Profiles
        /\ \A d \in Edits \ {e} : edit'[d] = edit[d]
        /\ \A p \in Profiles : p # own => profile'[p] = profile[p]
        /\ profile'[own].default <=> edit[e].flag = "set"
                                      \/ (edit[e].flag = "leave" /\ profile[own].default)
    BY <1>0, <1>4, WriteProfileDoes DEF TypeOK
  <2>2. edit[e].flag \in {"set", "leave", "unset"}
    BY <1>0 DEF TypeOK
  <2>3. edit[e].flag = "set" \/ (kept /\ ~(edit[e].flag = "unset" /\ profile[own].default))
    BY <1>4 DEF WriteProfile
  <2>4. CASE edit[e].flag = "set"
    BY <2>1, <2>4
  <2>5. CASE edit[e].flag # "set" /\ \E p \in Profiles : profile[p].default
    BY <2>1, <2>2, <2>3, <2>5
  <2>6. CASE edit[e].flag # "set" /\ \E d \in Edits : Between(d)
    BY <2>1, <2>6
  <2> QED BY <1>1, <2>3, <2>4, <2>5, <2>6
<1>5. ASSUME NEW e \in Edits, EditEnds(e)
      PROVE  \/ \E p \in Profiles : profile'[p].default
             \/ \E d \in Edits : edit'[d].flag = "set" /\ edit'[d].pc \in {"insert", "update"}
  <2>1. /\ kept /\ profile' = profile
        /\ ~(edit[e].flag = "set" /\ edit[e].pc # "clear" /\ Defaults = {})
    BY <1>5 DEF EditEnds
  <2>2. \A d \in Edits \ {e} : edit'[d] = edit[d]
    BY <1>0, <1>5, EditsDo, NothingTyped DEF EditEnds
  <2>3. Between(e) => \E p \in Profiles : profile[p].default
    BY <2>1 DEF Defaults
  <2> QED BY <1>1, <2>1, <2>2, <2>3
<1>6. ASSUME UNCHANGED <<profile, edit, kept>>
      PROVE  \/ \E p \in Profiles : profile'[p].default
             \/ \E d \in Edits : edit'[d].flag = "set" /\ edit'[d].pc \in {"insert", "update"}
  BY <1>1, <1>6
<1> QED
  BY <1>2, <1>3, <1>4, <1>5, <1>6, OthersLeaveProfiles DEF Next

\* A listing that had a default profile still has one, unless an operator unset it,
\* an edit is between its two statements, or one ended there.
THEOREM DefaultStays == ASSUME PricingAssumption PROVE Spec => []DefaultKept
<1>1. Init => DefaultKept
  BY DEF Init, DefaultKept
<1>2. PriceInv /\ DefaultKept /\ [Next]_vars => DefaultKept'
  BY DefaultNext
<1> QED BY <1>1, <1>2, PriceAlways, PTL DEF Spec

------------------------------------------------------------------------------
(* What a booking was priced by, and what follows for discount and refund. *)

\* A booking has the amounts of some subtotal that its code admits.
BookingsTell ==
    \A q \in Quotes :
        quote[q].pc = "priced" =>
            /\ quote[q].terms \in Terms /\ quote[q].code \in CodeKinds \cup {Nil}
            /\ \E subtotal \in Int :
                  /\ quote[q].booking = Booking(quote[q].terms, subtotal, quote[q].code)
                  /\ quote[q].code # Nil => subtotal >= quote[q].code.minimum

\* A booking that a step does not make is left as it was.
LEMMA BookingsStay ==
    ASSUME PricingAssumption, PriceInv, [Next]_vars, NEW q \in Quotes, quote'[q].pc = "priced"
    PROVE  quote'[q] = quote[q] \/ ReadRules(q)
<1>0. TypeOK
  BY DEF PriceInv
<1>1. ASSUME NEW what \in {"profile", "rules"}, Witnessed(what)
      PROVE  quote'[q] = quote[q]
  <2>1. CASE quote[q].pc # "rules"
    BY <1>1, <2>1 DEF Witnessed
  <2>2. CASE quote[q].pc = "rules"
    <3>1. quote'[q] = [quote[q] EXCEPT !.seen = @ \cup InForce', !.changed = @ \cup {what}]
      BY <1>1, <2>2 DEF Witnessed
    <3>2. quote[q] \in QuoteRecord
      BY <1>0 DEF TypeOK, QuoteRecord
    <3>3. quote'[q].pc = quote[q].pc
      BY <3>1, <3>2 DEF QuoteRecord
    <3> QED BY <2>2, <3>3
  <2> QED BY <2>1, <2>2
<1>2. ASSUME NEW r \in Quotes, r # q \/ ~ReadRules(q),
             \/ \E o \in Occasions, c \in CodeKinds \cup {Nil} : ReadProfile(r, o, c)
             \/ ReadRules(r) \/ Return(r)
      PROVE  quote'[q] = quote[q]
  <2>1. quote \in [Quotes -> QuoteRecord]
    BY <1>0 DEF TypeOK, QuoteRecord
  <2>2. PICK x : quote' = [quote EXCEPT ![r] = x] /\ (r = q => x.pc # "priced")
    <3>1. CASE \E o \in Occasions, c \in CodeKinds \cup {Nil} : ReadProfile(r, o, c)
      <4>1. PICK y : quote' = [quote EXCEPT ![r] = y] /\ y.pc = "rules"
        <5>1. PICK o \in Occasions, c \in CodeKinds \cup {Nil}, p \in Defaults :
                  quote' = [quote EXCEPT ![r] =
                      [NoQuote EXCEPT !.pc = "rules", !.profile = p, !.terms = profile[p].terms,
                                      !.occasion = o, !.code = c, !.seen = InForce]]
          BY <3>1 DEF ReadProfile
        <5>2. [NoQuote EXCEPT !.pc = "rules", !.profile = p, !.terms = profile[p].terms,
                              !.occasion = o, !.code = c, !.seen = InForce].pc = "rules"
          BY DEF NoQuote
        <5> QED BY <5>1, <5>2
      <4> QED BY <4>1
    <3>2. CASE ReadRules(r)
      <4>1. r # q
        BY <1>2, <3>2
      <4>2. PICK y : quote' = [quote EXCEPT ![r] = y]
        BY <3>2 DEF ReadRules, MakeQuote
      <4> QED BY <4>1, <4>2
    <3>3. CASE Return(r)
      BY <3>3, NothingTyped DEF Return
    <3> QED BY <1>2, <3>1, <3>2, <3>3
  <2> QED BY <2>1, <2>2
<1>3. ASSUME NEW e \in Edits, ClearDefault(e) \/ WriteProfile(e)
      PROVE  quote'[q] = quote[q]
  BY <1>1, <1>3 DEF ClearDefault, WriteProfile
<1>4. ASSUME NEW e \in Edits, NEW p \in Profiles, NEW flag \in {"set", "leave", "unset"},
             \/ \E t \in Terms : CreateProfile(e, p, t, flag)
             \/ \E t \in Terms \cup {Nil} : UpdateProfile(e, p, t, flag)
             \/ EditEnds(e)
      PROVE  quote'[q] = quote[q]
  BY <1>4 DEF CreateProfile, UpdateProfile, EditEnds
<1>5. ASSUME NEW e \in Edits, EditEnds(e)
      PROVE  quote'[q] = quote[q]
  BY <1>5 DEF EditEnds
<1>6. ASSUME NEW k \in RuleIds,
             DeleteRule(k) \/ \E p \in Profiles, kind \in RuleKinds : CreateRule(k, p, kind)
      PROVE  quote'[q] = quote[q]
  BY <1>1, <1>6 DEF CreateRule, DeleteRule
<1>7. ASSUME UNCHANGED vars
      PROVE  quote'[q] = quote[q]
  BY <1>7 DEF vars
<1> QED
  BY <1>2, <1>3, <1>4, <1>5, <1>6, <1>7 DEF Next

LEMMA BookingsAlways == ASSUME PricingAssumption PROVE Spec => []BookingsTell
<1>1. Init => BookingsTell
  BY NothingTyped DEF Init, BookingsTell
<1>2. ASSUME PriceInv, BookingsTell, [Next]_vars
      PROVE  BookingsTell'
  <2> SUFFICES ASSUME NEW q \in Quotes, quote'[q].pc = "priced"
               PROVE  /\ quote'[q].terms \in Terms /\ quote'[q].code \in CodeKinds \cup {Nil}
                      /\ \E subtotal \in Int :
                            /\ quote'[q].booking =
                                   Booking(quote'[q].terms, subtotal, quote'[q].code)
                            /\ quote'[q].code # Nil => subtotal >= quote'[q].code.minimum
    BY DEF BookingsTell
  <2>1. CASE quote'[q] = quote[q]
    BY <1>2, <2>1 DEF BookingsTell
  <2>2. CASE ReadRules(q)
    <3>1. quote[q].code \in CodeKinds \cup {Nil}
      BY <1>2 DEF PriceInv, TypeOK
    <3> QED BY <1>2, <2>2, <3>1, ReadRulesDoes, NothingTyped
  <2> QED BY <1>2, <2>1, <2>2, BookingsStay
<1> QED BY <1>1, <1>2, PriceAlways, PTL DEF Spec

\* With a discount code a booking adds up: the discount lies between nothing and the
\* base price, and the total between nothing and the one without the code.
THEOREM DiscountsLower == ASSUME PricingAssumption PROVE Spec => []DiscountLowersTotal
<1>1. BookingsTell => DiscountLowersTotal
  <2> SUFFICES ASSUME BookingsTell, NEW q \in Quotes, quote[q].pc = "priced", quote[q].code # Nil
               PROVE  LET b == quote[q].booking
                      IN /\ 0 <= b.discountAmount /\ b.discountAmount <= b.basePrice
                         /\ 0 <= b.totalPrice /\ b.totalPrice <= Total(quote[q].terms, b.basePrice)
    BY DEF DiscountLowersTotal
  <2>1. quote[q].terms \in Terms /\ quote[q].code \in CodeKinds
    BY DEF BookingsTell
  <2>2. PICK subtotal \in Int :
            /\ quote[q].booking = Booking(quote[q].terms, subtotal, quote[q].code)
            /\ subtotal >= quote[q].code.minimum
    BY DEF BookingsTell
  <2>3. quote[q].code.minimum \in Nat
    BY <2>1 DEF PricingAssumption
  <2>4. subtotal \in Nat
    BY <2>2, <2>3
  <2> QED BY <2>1, <2>2, <2>4, DiscountLowers
<1> QED BY <1>1, BookingsAlways, PTL

\* A customer who cancels later is refunded less or the same, and never more than
\* was paid and not yet returned.
THEOREM RefundsLess == ASSUME PricingAssumption PROVE Spec => []LaterRefundsLess
<1>1. BookingsTell => LaterRefundsLess
  <2> SUFFICES ASSUME BookingsTell, NEW q \in Quotes, NEW policy \in Policies,
                      quote[q].pc = "priced", policy.penaltyBps <= policy.latePenaltyBps,
                      NEW refunded \in {0, Larger(0, quote[q].booking.totalPrice) \div 2,
                                        Larger(0, quote[q].booking.totalPrice)}
               PROVE  LET paid == Larger(0, quote[q].booking.totalPrice)
                          Hours == 0..(policy.freeWindowHours + 1)
                          Refund(hours) ==
                              SuggestedRefund("customer", hours, policy, NoOverride, paid, refunded)
                      IN /\ \A early, late \in Hours :
                               late <= early => Refund(late) <= Refund(early)
                         /\ \A hours \in Hours : Refund(hours) \in 0..(paid - refunded)
    BY DEF LaterRefundsLess
  <2> DEFINE paid == Larger(0, quote[q].booking.totalPrice)
             Refund(hours) == SuggestedRefund("customer", hours, policy, NoOverride, paid, refunded)
  <2>1. quote[q].booking.totalPrice \in Int
    <3>1. quote[q].booking \in Amounts
      BY BookingTyped DEF BookingsTell
    <3> QED BY <3>1 DEF Amounts
  <2>2. paid \in Nat
    BY <2>1 DEF Larger
  <2>3. refunded \in {0, paid \div 2, paid}
    OBVIOUS
  <2> HIDE DEF paid
  <2>4. refunded \in 0..paid
    BY <2>2, <2>3
  <2>5. policy.freeWindowHours \in Nat
    BY PolicyTyped
  <2>6. ASSUME NEW early \in 0..(policy.freeWindowHours + 1),
               NEW late \in 0..(policy.freeWindowHours + 1), late <= early
        PROVE  Refund(late) <= Refund(early) /\ Refund(late) \in 0..(paid - refunded)
    <3>1. early \in Nat /\ late \in Nat
      BY <2>5
    <3> QED BY <2>2, <2>4, <2>6, <3>1, RefundsFall
  <2>7. ASSUME NEW hours \in 0..(policy.freeWindowHours + 1)
        PROVE  Refund(hours) \in 0..(paid - refunded)
    <3>1. hours <= hours
      BY <2>5
    <3> QED BY <2>6, <3>1
  <2> HIDE DEF Refund
  <2>8. /\ \A early, late \in 0..(policy.freeWindowHours + 1) :
              late <= early => Refund(late) <= Refund(early)
        /\ \A hours \in 0..(policy.freeWindowHours + 1) : Refund(hours) \in 0..(paid - refunded)
    BY <2>6, <2>7
  <2> QED BY <2>8 DEF paid, Refund
<1> QED BY <1>1, BookingsAlways, PTL

------------------------------------------------------------------------------
(* Discount codes in use: the inductive invariants.                        *)

\* A transaction between its first look and its end claims a row that exists and
\* has recorded nothing; a row that is used exists.
Claiming == {"lock", "resolve", "customer", "commit"}

RowsExist ==
    /\ \A x \in Claims : claim[x].pc \in Claiming =>
          claim[x].row \in Codes /\ code[claim[x].row].name # None
    /\ \A x \in Claims : claim[x].pc # "done" => application[x].code = None
    /\ \A x \in Claims : application[x].code \in Codes => code[application[x].code].name # None

CountInv == UsageTypeOK /\ RowsExist /\ CountsAreExact

\* Past SELECT ... FOR UPDATE the transaction holds the lock of its row.
LockIsHeld ==
    \A x \in Claims : claim[x].pc \in {"resolve", "customer", "commit"} => lock[claim[x].row] = x

\* No two rows have one text, and the row a transaction claims has the text its
\* customer typed, so that the second look finds the row the first one found.
TextsIdentify ==
    /\ \A c, d \in Codes : code[c].name = code[d].name /\ code[c].name # None => c = d
    /\ \A x \in Claims : claim[x].pc \in Claiming => claim[x].name = code[claim[x].row].name

\* What transaction x has checked under the lock stays true until it commits.
CheckedBy(x) ==
    LET c == claim[x].row IN
    /\ claim[x].pc \in {"customer", "commit"} =>
          /\ claim[x].found = c
          /\ claim[x].perCustomer = code[c].perCustomerLimit
          /\ code[c].isActive
          /\ Below(code[c].usageCount, code[c].usageLimit)
    /\ claim[x].pc = "commit" =>
          Below(Cardinality(Applied(c, claim[x].customer)), code[c].perCustomerLimit)

ChecksHold == \A x \in Claims : CheckedBy(x)

LimitInv == UsageTypeOK /\ RowsExist /\ LockIsHeld /\ TextsIdentify /\ ChecksHold

------------------------------------------------------------------------------
(* Their types.                                                            *)

LEMMA TypeInit ==
    ASSUME PromotionAssumption, UsageInit
    PROVE  UsageTypeOK
BY DEF PromotionAssumption, UsageInit, UsageTypeOK, Absent, CodeRow, Application, ClaimState, ClaimPCs

LEMMA GotoType ==
    ASSUME claim \in [Claims -> ClaimState], NEW x \in Claims, NEW pc \in ClaimPCs,
           claim' = [claim EXCEPT ![x].pc = pc]
    PROVE  claim' \in [Claims -> ClaimState]
BY DEF ClaimState

LEMMA LookType ==
    ASSUME NEW r \in ClaimState, NEW c \in Codes, NEW limit \in Limits \cup {NoLimit}
    PROVE  [r EXCEPT !.pc = "customer", !.found = c, !.perCustomer = limit] \in ClaimState
<1>1. [r EXCEPT !.pc = "customer"] \in ClaimState
  BY DEF ClaimState, ClaimPCs
<1>2. ASSUME NEW s \in ClaimState
      PROVE  [s EXCEPT !.found = c] \in ClaimState
  BY DEF ClaimState
<1>3. ASSUME NEW s \in ClaimState
      PROVE  [s EXCEPT !.perCustomer = limit] \in ClaimState
  BY DEF ClaimState
<1> QED BY <1>1, <1>2, <1>3

LEMMA TypeNext ==
    ASSUME PromotionAssumption, UsageTypeOK, [UsageNext]_usageVars
    PROVE  UsageTypeOK'
<1> USE DEF UsageTypeOK
<1>1. ASSUME NEW c \in Codes, NEW name \in Names, NEW isActive \in BOOLEAN,
             NEW limit \in Limits, NEW perCustomer \in Limits,
             CreateCode(c, name, isActive, limit, perCustomer)
      PROVE  UsageTypeOK'
  BY <1>1 DEF CreateCode, Edit, CodeRow, PromotionAssumption
<1>2. ASSUME NEW c \in Codes, NEW name \in Names, NEW isActive \in BOOLEAN,
             NEW limit \in Limits, NEW perCustomer \in Limits,
             UpdateCode(c, name, isActive, limit, perCustomer)
      PROVE  UsageTypeOK'
  BY <1>2 DEF UpdateCode, Edit, CodeRow, PromotionAssumption
<1>3. ASSUME NEW c \in Codes, NEW isActive \in BOOLEAN, SetActive(c, isActive)
      PROVE  UsageTypeOK'
  BY <1>3 DEF SetActive, Edit, CodeRow, PromotionAssumption
<1>4. ASSUME NEW x \in Claims, NEW name \in Names, NEW customer \in Customers,
             FindCode(x, name, customer)
      PROVE  UsageTypeOK'
  <2>1. PICK c \in Codes :
           claim' = [claim EXCEPT ![x] = [pc |-> "lock", name |-> name, row |-> c,
                                          customer |-> customer, found |-> None,
                                          perCustomer |-> NoLimit]]
    BY <1>4 DEF FindCode
  <2>2. claim' \in [Claims -> ClaimState]
    BY <2>1 DEF ClaimState, ClaimPCs
  <2> QED BY <1>4, <2>2 DEF FindCode
<1>5. ASSUME NEW x \in Claims, LockCode(x)
      PROVE  UsageTypeOK'
  <2>1. claim' \in [Claims -> ClaimState]
    <3>1. "resolve" \in ClaimPCs
      BY DEF ClaimPCs
    <3> QED BY <1>5, <3>1, GotoType DEF LockCode
  <2>2. lock' \in [Codes -> Claims \cup {None}]
    BY <1>5 DEF LockCode, PromotionAssumption
  <2> QED BY <1>5, <2>1, <2>2 DEF LockCode
<1>6. ASSUME NEW x \in Claims, ResolveCode(x)
      PROVE  UsageTypeOK'
  <2>1. PICK c \in Codes :
           claim' = [claim EXCEPT ![x].pc = "customer", ![x].found = c,
                                  ![x].perCustomer = code[c].perCustomerLimit]
    BY <1>6 DEF ResolveCode
  <2> DEFINE limit == code[c].perCustomerLimit
  <2>2. limit \in Limits \cup {NoLimit}
    BY DEF CodeRow
  <2>3. claim' = [claim EXCEPT ![x].pc = "customer", ![x].found = c, ![x].perCustomer = limit]
    BY <2>1
  <2> HIDE DEF limit
  <2>4. claim' \in [Claims -> ClaimState]
    <3> DEFINE looked == [claim[x] EXCEPT !.pc = "customer", !.found = c, !.perCustomer = limit]
    <3>1. looked \in ClaimState
      BY <2>2, LookType
    <3>2. claim' = [claim EXCEPT ![x] = looked]
      BY <2>3
    <3> HIDE DEF looked
    <3> QED BY <3>1, <3>2
  <2> QED BY <1>6, <2>4 DEF ResolveCode
<1>7. ASSUME NEW x \in Claims, CheckCustomer(x)
      PROVE  UsageTypeOK'
  <2>1. claim' \in [Claims -> ClaimState]
    <3>1. "commit" \in ClaimPCs
      BY DEF ClaimPCs
    <3> QED BY <1>7, <3>1, GotoType DEF CheckCustomer
  <2> QED BY <1>7, <2>1 DEF CheckCustomer
<1>8. ASSUME NEW x \in Claims, CommitUsage(x)
      PROVE  UsageTypeOK'
  <2>1. claim' \in [Claims -> ClaimState]
    <3>1. "done" \in ClaimPCs
      BY DEF ClaimPCs
    <3> QED BY <1>8, <3>1, GotoType DEF CommitUsage
  <2>2. application' \in [Claims -> Application]
    <3>1. claim[x] \in ClaimState
      OBVIOUS
    <3>2. [code |-> claim[x].row, customer |-> claim[x].customer] \in Application
      BY <3>1 DEF ClaimState, Application
    <3> QED BY <1>8, <3>2 DEF CommitUsage
  <2>3. code' \in [Codes -> CodeRow]
    <3> DEFINE c == claim[x].row
    <3>1. code' = [code EXCEPT ![c] = [code[c] EXCEPT !.usageCount = code[c].usageCount + 1]]
      BY <1>8 DEF CommitUsage
    <3> HIDE DEF c
    <3>2. c \in Codes => [code[c] EXCEPT !.usageCount = code[c].usageCount + 1] \in CodeRow
      BY DEF CodeRow
    <3> QED BY <3>1, <3>2
  <2>4. lock' \in [Codes -> Claims \cup {None}]
    BY <1>8 DEF CommitUsage
  <2> QED BY <1>8, <2>1, <2>2, <2>3, <2>4 DEF CommitUsage
<1>9. ASSUME NEW x \in Claims, RollBack(x)
      PROVE  UsageTypeOK'
  BY <1>9 DEF RollBack, Release, ClaimState, ClaimPCs
<1>10. CASE UNCHANGED usageVars
  BY <1>10 DEF usageVars
<1> QED
  BY <1>1, <1>2, <1>3, <1>4, <1>5, <1>6, <1>7, <1>8, <1>9, <1>10 DEF UsageNext, ClaimStep

\* Every row, lock, application and transaction keeps its type: the counts are
\* natural numbers and the rows and holders exist.
THEOREM UsageTypeCorrect == ASSUME PromotionAssumption PROVE UsageSpec => []UsageTypeOK
<1>1. UsageInit => UsageTypeOK
  BY TypeInit
<1>2. UsageTypeOK /\ [UsageNext]_usageVars => UsageTypeOK'
  BY TypeNext
<1> QED BY <1>1, <1>2, PTL DEF UsageSpec

------------------------------------------------------------------------------
(* The usage counts.                                                       *)

LEMMA RowsInit ==
    ASSUME PromotionAssumption, UsageInit
    PROVE  RowsExist
BY DEF PromotionAssumption, UsageInit, RowsExist, Claiming

\* What every step leaves of the claims, rows and applications.
LEMMA RowsNext ==
    ASSUME PromotionAssumption, UsageTypeOK, RowsExist, [UsageNext]_usageVars
    PROVE  RowsExist'
<1> USE DEF UsageTypeOK, RowsExist, Claiming, PromotionAssumption
<1>1. ASSUME NEW c \in Codes, NEW name \in Names, NEW isActive \in BOOLEAN,
             NEW limit \in Limits, NEW perCustomer \in Limits,
             \/ CreateCode(c, name, isActive, limit, perCustomer)
             \/ UpdateCode(c, name, isActive, limit, perCustomer)
      PROVE  RowsExist'
  <2>1. \A d \in Codes : code[d].name # None => code'[d].name # None
    BY <1>1 DEF CreateCode, UpdateCode
  <2>2. UNCHANGED <<claim, application>>
    BY <1>1 DEF CreateCode, UpdateCode
  <2> QED BY <2>1, <2>2
<1>2. ASSUME NEW c \in Codes, NEW isActive \in BOOLEAN, SetActive(c, isActive)
      PROVE  RowsExist'
  <2>1. \A d \in Codes : code'[d].name = code[d].name
    BY <1>2 DEF SetActive, CodeRow
  <2> QED BY <1>2, <2>1 DEF SetActive
<1>3. ASSUME NEW x \in Claims, NEW name \in Names, NEW customer \in Customers,
             FindCode(x, name, customer)
      PROVE  RowsExist'
  BY <1>3 DEF FindCode, ClaimState
<1>4. ASSUME NEW x \in Claims, LockCode(x) \/ CheckCustomer(x)
      PROVE  RowsExist'
  BY <1>4 DEF LockCode, CheckCustomer, ClaimState
<1>5. ASSUME NEW x \in Claims, ResolveCode(x)
      PROVE  RowsExist'
  BY <1>5 DEF ResolveCode, ClaimState
<1>6. ASSUME NEW x \in Claims, CommitUsage(x)
      PROVE  RowsExist'
  <2>1. \A d \in Codes : code'[d].name = code[d].name
    BY <1>6 DEF CommitUsage, CodeRow
  <2>2. \A y \in Claims \ {x} : claim'[y] = claim[y] /\ application'[y] = application[y]
    BY <1>6 DEF CommitUsage
  <2>3. claim'[x].pc = "done" /\ application'[x].code = claim[x].row
    BY <1>6 DEF CommitUsage, ClaimState
  <2>4. claim[x].row \in Codes /\ code[claim[x].row].name # None
    BY <1>6 DEF CommitUsage
  <2> QED BY <2>1, <2>2, <2>3, <2>4
<1>7. ASSUME NEW x \in Claims, RollBack(x)
      PROVE  RowsExist'
  BY <1>7 DEF RollBack, ClaimState
<1>8. CASE UNCHANGED usageVars
  BY <1>8 DEF usageVars
<1> QED
  BY <1>1, <1>2, <1>3, <1>4, <1>5, <1>6, <1>7, <1>8 DEF UsageNext, ClaimStep

LEMMA CountsInit ==
    ASSUME PromotionAssumption, UsageInit
    PROVE  CountsAreExact
<1> SUFFICES ASSUME NEW c \in Codes
             PROVE  code[c].usageCount = Cardinality({x \in Claims : application[x].code = c})
  BY DEF CountsAreExact
<1>1. {x \in Claims : application[x].code = c} = {}
  BY DEF UsageInit, PromotionAssumption
<1> QED BY <1>1, FS_EmptySet DEF UsageInit, Absent

LEMMA CountsNext ==
    ASSUME PromotionAssumption, CountInv, [UsageNext]_usageVars
    PROVE  CountsAreExact'
<1> USE DEF CountInv, UsageTypeOK
<1> DEFINE Users(d) == {y \in Claims : application[y].code = d}
<1>1. ASSUME UNCHANGED application, \A d \in Codes : code'[d].usageCount = code[d].usageCount
      PROVE  CountsAreExact'
  BY <1>1 DEF CountsAreExact
<1>2. ASSUME NEW c \in Codes, NEW name \in Names, NEW isActive \in BOOLEAN,
             NEW limit \in Limits, NEW perCustomer \in Limits,
             CreateCode(c, name, isActive, limit, perCustomer)
      PROVE  CountsAreExact'
  <2>1. Users(c) = {}
    BY <1>2 DEF CreateCode, RowsExist
  <2>2. code[c].usageCount = 0
    BY <2>1, FS_EmptySet DEF CountsAreExact
  <2> QED BY <1>1, <1>2, <2>2 DEF CreateCode
<1>3. ASSUME NEW c \in Codes, NEW name \in Names, NEW isActive \in BOOLEAN,
             NEW limit \in Limits, NEW perCustomer \in Limits,
             UpdateCode(c, name, isActive, limit, perCustomer)
      PROVE  CountsAreExact'
  BY <1>1, <1>3 DEF UpdateCode
<1>4. ASSUME NEW c \in Codes, NEW isActive \in BOOLEAN, SetActive(c, isActive)
      PROVE  CountsAreExact'
  BY <1>1, <1>4 DEF SetActive, CodeRow
<1>5. ASSUME NEW x \in Claims, CommitUsage(x)
      PROVE  CountsAreExact'
  <2> SUFFICES ASSUME NEW d \in Codes
               PROVE  code'[d].usageCount = Cardinality(Users(d)')
    BY DEF CountsAreExact
  <2>1. claim[x].row \in Codes /\ application[x].code = None /\ None \notin Codes
    BY <1>5 DEF CommitUsage, RowsExist, Claiming, PromotionAssumption
  <2>2. \A y \in Claims : application'[y].code =
                          IF y = x THEN claim[x].row ELSE application[y].code
    BY <1>5 DEF CommitUsage
  <2>3. IsFiniteSet(Users(d))
    BY FS_Subset DEF PromotionAssumption
  <2>4. code[d].usageCount = Cardinality(Users(d))
    BY DEF CountsAreExact
  <2>5. CASE d = claim[x].row
    <3>1. Users(d)' = Users(d) \cup {x} /\ x \notin Users(d)
      BY <2>1, <2>2, <2>5
    <3>2. Cardinality(Users(d)') = Cardinality(Users(d)) + 1
      BY <2>3, <3>1, FS_AddElement
    <3>3. code'[d].usageCount = code[d].usageCount + 1
      BY <1>5, <2>5 DEF CommitUsage, CodeRow
    <3> QED BY <2>4, <3>2, <3>3
  <2>6. CASE d # claim[x].row
    <3>1. Users(d)' = Users(d)
      BY <2>1, <2>2, <2>6
    <3>2. code'[d].usageCount = code[d].usageCount
      BY <1>5, <2>6 DEF CommitUsage
    <3> QED BY <2>4, <3>1, <3>2
  <2> QED BY <2>5, <2>6
<1>6. ASSUME NEW x \in Claims, NEW name \in Names, NEW customer \in Customers,
             FindCode(x, name, customer)
      PROVE  CountsAreExact'
  BY <1>1, <1>6 DEF FindCode
<1>7. ASSUME NEW x \in Claims, LockCode(x) \/ ResolveCode(x) \/ CheckCustomer(x) \/ RollBack(x)
      PROVE  CountsAreExact'
  BY <1>1, <1>7 DEF LockCode, ResolveCode, CheckCustomer, RollBack
<1>8. CASE UNCHANGED usageVars
  BY <1>1, <1>8 DEF usageVars
<1> QED
  BY <1>2, <1>3, <1>4, <1>5, <1>6, <1>7, <1>8 DEF UsageNext, ClaimStep

\* The usage count of every code is the number of bookings that recorded it, however
\* many transactions commit and roll back and whatever the admins edit meanwhile.
THEOREM CountsExact == ASSUME PromotionAssumption PROVE UsageSpec => []CountsAreExact
<1>1. UsageInit => CountInv
  BY TypeInit, RowsInit, CountsInit DEF CountInv
<1>2. CountInv /\ [UsageNext]_usageVars => CountInv'
  BY TypeNext, RowsNext, CountsNext DEF CountInv
<1>3. CountInv => CountsAreExact
  BY DEF CountInv
<1> QED BY <1>1, <1>2, <1>3, PTL DEF UsageSpec

------------------------------------------------------------------------------
(* The limits, as long as no text is changed.                              *)

LEMMA LimitInit ==
    ASSUME PromotionAssumption, UsageInit
    PROVE  LockIsHeld /\ TextsIdentify /\ ChecksHold
BY DEF PromotionAssumption, UsageInit, Absent, LockIsHeld, TextsIdentify, ChecksHold, CheckedBy, Claiming

\* The holder of a lock is one transaction.
LEMMA OneHolder ==
    ASSUME LockIsHeld, NEW x \in Claims, NEW y \in Claims,
           claim[x].pc \in {"resolve", "customer", "commit"},
           claim[y].pc \in {"resolve", "customer", "commit"},
           claim[x].row = claim[y].row
    PROVE  x = y
BY DEF LockIsHeld

LEMMA LockNext ==
    ASSUME PromotionAssumption, LimitInv, [UsageNext]_usageVars
    PROVE  LockIsHeld'
<1> USE DEF LimitInv, UsageTypeOK, LockIsHeld
<1>1. ASSUME UNCHANGED <<lock, claim>>
      PROVE  LockIsHeld'
  BY <1>1
<1>2. ASSUME NEW x \in Claims, NEW name \in Names, NEW customer \in Customers,
             FindCode(x, name, customer)
      PROVE  LockIsHeld'
  BY <1>2 DEF FindCode
<1>3. ASSUME NEW x \in Claims, LockCode(x)
      PROVE  LockIsHeld'
  <2>1. \A y \in Claims : claim'[y].row = claim[y].row
    BY <1>3 DEF LockCode, ClaimState
  <2>2. claim[x].row \in Codes /\ lock'[claim[x].row] = x
    BY <1>3 DEF LockCode, RowsExist, Claiming
  <2>3. \A y \in Claims \ {x} : claim'[y] = claim[y]
    BY <1>3 DEF LockCode
  <2>4. \A y \in Claims : lock[claim[y].row] = y => lock'[claim[y].row] = y
    BY <1>3 DEF LockCode, PromotionAssumption
  <2> QED BY <2>1, <2>2, <2>3, <2>4
<1>4. ASSUME NEW x \in Claims, ResolveCode(x) \/ CheckCustomer(x)
      PROVE  LockIsHeld'
  <2>1. claim'[x].row = claim[x].row /\ claim[x].pc \in {"resolve", "customer"}
    <3>1. CASE ResolveCode(x)
      BY <3>1 DEF ResolveCode, ClaimState
    <3>2. CASE CheckCustomer(x)
      BY <3>2 DEF CheckCustomer, ClaimState
    <3> QED BY <1>4, <3>1, <3>2
  <2>2. lock' = lock /\ \A y \in Claims \ {x} : claim'[y] = claim[y]
    BY <1>4 DEF ResolveCode, CheckCustomer
  <2> QED BY <2>1, <2>2
<1>5. ASSUME NEW x \in Claims, CommitUsage(x)
      PROVE  LockIsHeld'
  <2>1. claim'[x].pc = "done" /\ \A y \in Claims \ {x} : claim'[y] = claim[y]
    BY <1>5 DEF CommitUsage, ClaimState
  <2>2. \A d : d # claim[x].row => lock'[d] = lock[d]
    BY <1>5 DEF CommitUsage
  <2>3. claim[x].pc = "commit"
    BY <1>5 DEF CommitUsage
  <2> QED BY <2>1, <2>2, <2>3
<1>6. ASSUME NEW x \in Claims, RollBack(x)
      PROVE  LockIsHeld'
  <2>1. claim'[x].pc = "done" /\ \A y \in Claims \ {x} : claim'[y] = claim[y]
    BY <1>6 DEF RollBack, ClaimState
  <2>2. \A y \in Claims \ {x} : claim[y].pc \in {"resolve", "customer", "commit"} =>
            lock'[claim[y].row] = y
    BY <1>6 DEF RollBack, Release, RowsExist, Claiming
  <2> QED BY <2>1, <2>2
<1> QED
  BY <1>1, <1>2, <1>3, <1>4, <1>5, <1>6
  DEF UsageNext, ClaimStep, CreateCode, UpdateCode, SetActive, usageVars

LEMMA TextsNext ==
    ASSUME PromotionAssumption, ~MayRename, LimitInv, [UsageNext]_usageVars
    PROVE  TextsIdentify'
<1> USE DEF LimitInv, UsageTypeOK, TextsIdentify
<1>1. ASSUME \A d \in Codes : code'[d].name = code[d].name,
             \A y \in Claims : claim'[y].pc \in Claiming =>
                 /\ claim[y].pc \in Claiming
                 /\ claim'[y].row = claim[y].row
                 /\ claim'[y].name = claim[y].name
      PROVE  TextsIdentify'
  BY <1>1 DEF RowsExist
<1>2. ASSUME NEW c \in Codes, NEW name \in Names, NEW isActive \in BOOLEAN,
             NEW limit \in Limits, NEW perCustomer \in Limits,
             CreateCode(c, name, isActive, limit, perCustomer)
      PROVE  TextsIdentify'
  <2>1. /\ code[c].name = None
        /\ code'[c].name = name
        /\ \A d \in Codes \ {c} : code'[d] = code[d] /\ code[d].name # name
    BY <1>2 DEF CreateCode, Taken
  <2>2. UNCHANGED claim
    BY <1>2 DEF CreateCode
  <2>3. \A y \in Claims : claim[y].pc \in Claiming => claim[y].row \in Codes \ {c}
    BY <2>1 DEF RowsExist
  <2> QED BY <2>1, <2>2, <2>3
<1>3. ASSUME NEW c \in Codes, NEW name \in Names, NEW isActive \in BOOLEAN,
             NEW limit \in Limits, NEW perCustomer \in Limits,
             UpdateCode(c, name, isActive, limit, perCustomer)
      PROVE  TextsIdentify'
  BY <1>1, <1>3 DEF UpdateCode
<1>4. ASSUME NEW c \in Codes, NEW isActive \in BOOLEAN, SetActive(c, isActive)
      PROVE  TextsIdentify'
  BY <1>1, <1>4 DEF SetActive, CodeRow
<1>5. ASSUME NEW x \in Claims, NEW name \in Names, NEW customer \in Customers,
             FindCode(x, name, customer)
      PROVE  TextsIdentify'
  BY <1>5 DEF FindCode
<1>6. ASSUME NEW x \in Claims, LockCode(x) \/ CheckCustomer(x) \/ RollBack(x)
      PROVE  TextsIdentify'
  BY <1>1, <1>6 DEF LockCode, CheckCustomer, RollBack, ClaimState, Claiming
<1>7. ASSUME NEW x \in Claims, ResolveCode(x)
      PROVE  TextsIdentify'
  BY <1>1, <1>7 DEF ResolveCode, ClaimState, Claiming
<1>8. ASSUME NEW x \in Claims, CommitUsage(x)
      PROVE  TextsIdentify'
  BY <1>1, <1>8 DEF CommitUsage, ClaimState, CodeRow, Claiming
<1>9. CASE UNCHANGED usageVars
  BY <1>9 DEF usageVars
<1> QED
  BY <1>2, <1>3, <1>4, <1>5, <1>6, <1>7, <1>8, <1>9 DEF UsageNext, ClaimStep

\* They stay so while x stays where it is, through every step that leaves its row
\* and its customer's applications alone.
LEMMA CheckedFrame ==
    ASSUME NEW x \in Claims, CheckedBy(x), claim'[x] = claim[x],
           claim[x].pc \in {"customer", "commit"} =>
               /\ code'[claim[x].row] = code[claim[x].row]
               /\ Applied(claim[x].row, claim[x].customer)' = Applied(claim[x].row, claim[x].customer)
    PROVE  CheckedBy(x)'
BY DEF CheckedBy, Below

LEMMA ChecksNext ==
    ASSUME PromotionAssumption, ~MayRename, LimitInv, [UsageNext]_usageVars
    PROVE  ChecksHold'
<1> USE DEF LimitInv, UsageTypeOK
<1>1. /\ ChecksHold <=> \A x \in Claims : CheckedBy(x)
      /\ ChecksHold' <=> \A x \in Claims : CheckedBy(x)'
  BY DEF ChecksHold
<1>2. \A x \in Claims : CheckedBy(x)
  BY <1>1
<1>3. \A y \in Claims : claim[y].pc \in {"customer", "commit"} =>
          /\ claim[y].row \in Codes
          /\ code[claim[y].row].name # None
          /\ lock[claim[y].row] = y
          /\ lock[claim[y].row] # None
  BY DEF RowsExist, Claiming, LockIsHeld, PromotionAssumption
<1>4. ASSUME NEW c, UNCHANGED <<claim, application>>, \A d \in Codes \ {c} : code'[d] = code[d],
             code[c].name = None \/ lock[c] = None
      PROVE  ChecksHold'
  <2> SUFFICES ASSUME NEW y \in Claims
               PROVE  CheckedBy(y)'
    BY <1>1
  <2>1. claim[y].pc \in {"customer", "commit"} => code'[claim[y].row] = code[claim[y].row]
    BY <1>3, <1>4
  <2>2. Applied(claim[y].row, claim[y].customer)' = Applied(claim[y].row, claim[y].customer)
    BY <1>4 DEF Applied
  <2> QED BY <1>2, <1>4, <2>1, <2>2, CheckedFrame
<1>5. ASSUME NEW c \in Codes, NEW name \in Names, NEW isActive \in BOOLEAN,
             NEW limit \in Limits, NEW perCustomer \in Limits,
             \/ CreateCode(c, name, isActive, limit, perCustomer)
             \/ UpdateCode(c, name, isActive, limit, perCustomer)
      PROVE  ChecksHold'
  BY <1>4, <1>5 DEF CreateCode, UpdateCode
<1>6. ASSUME NEW x \in Claims, UNCHANGED <<code, application>>,
             \A y \in Claims \ {x} : claim'[y] = claim[y], CheckedBy(x)'
      PROVE  ChecksHold'
  <2> SUFFICES ASSUME NEW y \in Claims \ {x}
               PROVE  CheckedBy(y)'
    BY <1>1, <1>6
  <2>1. Applied(claim[y].row, claim[y].customer)' = Applied(claim[y].row, claim[y].customer)
    BY <1>6 DEF Applied
  <2> QED BY <1>2, <1>6, <2>1, CheckedFrame
<1>7. ASSUME NEW x \in Claims, NEW name \in Names, NEW customer \in Customers,
             FindCode(x, name, customer)
      PROVE  ChecksHold'
  <2>1. CheckedBy(x)'
    BY <1>7 DEF FindCode, CheckedBy
  <2> QED BY <1>6, <1>7, <2>1 DEF FindCode
<1>8. ASSUME NEW x \in Claims, LockCode(x)
      PROVE  ChecksHold'
  <2>1. CheckedBy(x)'
    BY <1>8 DEF LockCode, CheckedBy
  <2> QED BY <1>6, <1>8, <2>1 DEF LockCode
<1>9. ASSUME NEW x \in Claims, ResolveCode(x)
      PROVE  ChecksHold'
  <2>1. PICK c \in Codes :
            /\ code[c].name = claim[x].name
            /\ code[c].isActive
            /\ Below(code[c].usageCount, code[c].usageLimit)
            /\ claim' = [claim EXCEPT ![x].pc = "customer", ![x].found = c,
                                      ![x].perCustomer = code[c].perCustomerLimit]
    BY <1>9 DEF ResolveCode
  <2>2. c = claim[x].row
    BY <1>9, <2>1 DEF ResolveCode, RowsExist, TextsIdentify, Claiming
  <2>3. /\ claim'[x].pc = "customer"
        /\ claim'[x].found = c
        /\ claim'[x].row = claim[x].row
        /\ claim'[x].perCustomer = code[c].perCustomerLimit
    BY <2>1 DEF ClaimState
  <2>4. UNCHANGED <<code, application>> /\ \A y \in Claims \ {x} : claim'[y] = claim[y]
    BY <1>9, <2>1 DEF ResolveCode
  <2>5. CheckedBy(x)'
    BY <2>1, <2>2, <2>3, <2>4 DEF CheckedBy, Below
  <2> QED BY <1>6, <2>4, <2>5
<1>10. ASSUME NEW x \in Claims, CheckCustomer(x)
       PROVE  ChecksHold'
  <2>1. /\ claim'[x].pc = "commit"
        /\ claim'[x].row = claim[x].row
        /\ claim'[x].found = claim[x].found
        /\ claim'[x].customer = claim[x].customer
        /\ claim'[x].perCustomer = claim[x].perCustomer
    BY <1>10 DEF CheckCustomer, ClaimState
  <2>2. UNCHANGED <<code, application>> /\ \A y \in Claims \ {x} : claim'[y] = claim[y]
    BY <1>10 DEF CheckCustomer
  <2>3. /\ claim[x].pc = "customer"
        /\ Below(Cardinality(Applied(claim[x].found, claim[x].customer)), claim[x].perCustomer)
    BY <1>10 DEF CheckCustomer
  <2>4. CheckedBy(x)
    BY <1>2
  <2>5. Applied(claim[x].row, claim[x].customer)' = Applied(claim[x].row, claim[x].customer)
    BY <2>1, <2>2 DEF Applied
  <2>6. CheckedBy(x)'
    BY <2>1, <2>2, <2>3, <2>4, <2>5 DEF CheckedBy, Below
  <2> QED BY <1>6, <2>2, <2>6
<1>11. ASSUME NEW x \in Claims, CommitUsage(x)
       PROVE  ChecksHold'
  <2> SUFFICES ASSUME NEW y \in Claims
               PROVE  CheckedBy(y)'
    BY <1>1
  <2>1. CASE y = x
    <3>1. claim'[x].pc = "done"
      BY <1>11 DEF CommitUsage, ClaimState
    <3> QED BY <2>1, <3>1 DEF CheckedBy
  <2>2. CASE y # x
    <3>1. claim'[y] = claim[y] /\ claim[x].pc = "commit"
      BY <1>11, <2>2 DEF CommitUsage
    <3>2. claim[y].pc \in {"customer", "commit"} => claim[y].row # claim[x].row
      BY <2>2, <3>1, OneHolder
    <3>3. claim[y].pc \in {"customer", "commit"} => code'[claim[y].row] = code[claim[y].row]
      BY <1>3, <1>11, <3>2 DEF CommitUsage
    <3>4. application[x].code = None /\ application'[x].code = claim[x].row
      BY <1>11, <3>1 DEF CommitUsage, RowsExist
    <3>5. claim[y].pc \in {"customer", "commit"} =>
              Applied(claim[y].row, claim[y].customer)' = Applied(claim[y].row, claim[y].customer)
      <4> SUFFICES ASSUME claim[y].pc \in {"customer", "commit"}
                   PROVE  Applied(claim[y].row, claim[y].customer)'
                              = Applied(claim[y].row, claim[y].customer)
        OBVIOUS
      <4>1. claim[y].row # None
        BY <1>3 DEF PromotionAssumption
      <4>2. \A z \in Claims : application'[z].code = claim[y].row
                <=> application[z].code = claim[y].row
        BY <1>11, <3>2, <3>4, <4>1 DEF CommitUsage
      <4>3. \A z \in Claims : application[z].code = claim[y].row
                => application'[z] = application[z]
        BY <1>11, <3>4, <4>1 DEF CommitUsage
      <4> QED BY <3>1, <4>2, <4>3 DEF Applied
    <3> QED BY <1>2, <3>1, <3>3, <3>5, CheckedFrame
  <2> QED BY <2>1, <2>2
<1>12. ASSUME NEW x \in Claims, RollBack(x)
       PROVE  ChecksHold'
  <2>1. CheckedBy(x)'
    BY <1>12 DEF RollBack, CheckedBy, ClaimState
  <2> QED BY <1>6, <1>12, <2>1 DEF RollBack
<1>13. CASE UNCHANGED usageVars
  <2> SUFFICES ASSUME NEW y \in Claims
               PROVE  CheckedBy(y)'
    BY <1>1
  <2>1. Applied(claim[y].row, claim[y].customer)' = Applied(claim[y].row, claim[y].customer)
    BY <1>13 DEF Applied, usageVars
  <2> QED BY <1>2, <1>13, <2>1, CheckedFrame DEF usageVars
<1>14. ASSUME NEW c \in Codes, NEW isActive \in BOOLEAN, SetActive(c, isActive)
       PROVE  ChecksHold'
  BY <1>4, <1>14 DEF SetActive
<1> QED
  BY <1>5, <1>7, <1>8, <1>9, <1>10, <1>11, <1>12, <1>13, <1>14 DEF UsageNext, ClaimStep

LEMMA CommitWithinLimits ==
    ASSUME ChecksHold
    PROVE  \A x \in Claims : CommitUsage(x) => ChargeWithinLimits(x)
BY DEF ChecksHold, CheckedBy, CommitUsage, ChargeWithinLimits

\* As long as the text of a code is never changed, no booking is charged to a code
\* that is inactive or at its usage limit or at its limit for that customer: the row
\* lock carries the checks of resolvePromotion over to the commit.
THEOREM WithinLimits ==
    ASSUME PromotionAssumption, ~MayRename
    PROVE  UsageSpec => UsageWithinLimits
<1>1. UsageInit => LimitInv
  BY TypeInit, RowsInit, LimitInit DEF LimitInv
<1>2. LimitInv /\ [UsageNext]_usageVars => LimitInv'
  BY TypeNext, RowsNext, LockNext, TextsNext, ChecksNext DEF LimitInv
<1>3. LimitInv => [\A x \in Claims : CommitUsage(x) => ChargeWithinLimits(x)]_usageVars
  BY CommitWithinLimits DEF LimitInv
<1> QED BY <1>1, <1>2, <1>3, PTL DEF UsageSpec, UsageWithinLimits
==============================================================================
