-------------------------------- MODULE Quote --------------------------------
(***************************************************************************)
(* The arithmetic of a quote in whole cents: the base price of a window,   *)
(* the pricing rules that apply to it, fee and tax, and the discount.      *)
(*                                                                         *)
(* A pricing rule is a record with its row id, type, priority, adjustment  *)
(* (percent or flat) and condition; a condition that a rule does not state *)
(* is one that always holds (every day, no passengers, any duration). An   *)
(* occasion is a window to be priced: its minutes, passengers and day. A   *)
(* window may end before it starts, which nothing refuses.                 *)
(***************************************************************************)
EXTENDS Integers

\* Basis points of a whole.
Whole == 10000

\* Math.round of a / b, for b > 0: halves are rounded up, also negative ones.
RoundDiv(a, b) == (2 * a + b) \div (2 * b)

Smaller(a, b) == IF a <= b THEN a ELSE b
Larger(a, b) == IF a <= b THEN b ELSE a

------------------------------------------------------------------------------
ConflictMode(type) ==
    CASE type = "dateRange" -> "explicitExclusive"
      [] type \in {"dayHourRange", "hourRange", "dayOfWeek"} -> "explicit"
      [] OTHER -> "stackable"

Category(type) == IF type \in {"passengerCount", "duration"} THEN "bookingAttribute" ELSE "other"

Applies(rule, occasion) ==
    /\ occasion.day \in rule.days
    /\ occasion.passengers >= rule.passengers
    /\ occasion.minutes >= rule.minutes

\* Stands where no rule is picked.
NoRule == [percent |-> FALSE, value |-> 0]

\* A rule of highest priority, or none. Rules of one priority come in any order:
\* the query has no ORDER BY and the sort is stable.
Picks(rules) ==
    IF rules = {} THEN {NoRule}
    ELSE {r \in rules : \A q \in rules : q.priority <= r.priority}

\* What may be picked from the applicable rules: an exclusive rule, or else an
\* explicit one, and a stackable rule of each category.
Selections(applicable) ==
    LET OfMode(mode) == {r \in applicable : ConflictMode(r.type) = mode}
        Stacked(category) == {r \in OfMode("stackable") : Category(r.type) = category}
        Leading == IF OfMode("explicitExclusive") = {} THEN OfMode("explicit")
                                                      ELSE OfMode("explicitExclusive")
    IN [leading : Picks(Leading), attribute : Picks(Stacked("bookingAttribute")),
        other : Picks(Stacked("other"))]

------------------------------------------------------------------------------
BasePrice(terms, occasion) == RoundDiv(terms.price * occasion.minutes, 60)

Amount(rule, base) == IF rule.percent THEN RoundDiv(base * rule.value, 100) ELSE rule.value

Subtotal(terms, occasion, picked) ==
    LET base == BasePrice(terms, occasion)
    IN base + Amount(picked.leading, base) + Amount(picked.attribute, base)
            + Amount(picked.other, base)

Fee(terms, subtotal) == RoundDiv(subtotal * terms.fee, Whole)
Tax(terms, subtotal) == RoundDiv((subtotal + Fee(terms, subtotal)) * terms.tax, Whole)
Total(terms, subtotal) == subtotal + Fee(terms, subtotal) + Tax(terms, subtotal)

------------------------------------------------------------------------------
\* Fault: the subtotal does not bound the discount.
AppliedAmountUnbounded(code, subtotal) ==
    Smaller(IF code.percent THEN RoundDiv(subtotal * code.value, 100) ELSE code.value, code.cap)

\* The amount a discount code is worth on a subtotal.
AppliedAmount(code, subtotal) ==
    LET raw == IF code.percent THEN RoundDiv(subtotal * code.value, 100) ELSE code.value
    IN Smaller(Smaller(raw, code.cap), subtotal)

\* applyDiscountToQuote: fee and tax are those of what is left.
DiscountedTotal(terms, subtotal, amount) ==
    Total(terms, Larger(0, subtotal - Larger(0, Smaller(amount, subtotal))))
==============================================================================
