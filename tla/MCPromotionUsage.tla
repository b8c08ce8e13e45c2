--------------------------- MODULE MCPromotionUsage ---------------------------
(* Rows, texts, customers and transactions are interchangeable. *)
EXTENDS PromotionUsage, TLC

MCSymmetry ==
    Permutations(Codes) \cup Permutations(Names) \cup Permutations(Customers)
        \cup Permutations(Claims)
==============================================================================
