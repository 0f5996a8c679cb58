----------------------------- MODULE MCAnalysis -----------------------------
(* Instances of Analysis for TLC. *)
EXTENDS Analysis

\* A webhook that says nothing, and one that praises the token and omits its holders.
Bare   == [age |-> 0, concentration |-> 0, burned |-> FALSE, funding |-> FALSE,
           renounced |-> FALSE, socials |-> FALSE, gold |-> FALSE, reputation |-> "",
           insider |-> "", erred |-> FALSE]
Praise == [age |-> 30, concentration |-> 0, burned |-> TRUE, funding |-> TRUE,
           renounced |-> TRUE, socials |-> TRUE, gold |-> TRUE, reputation |-> "Safe",
           insider |-> "", erred |-> FALSE]
BareClaim   == {Bare}
PraiseClaim == {Praise}

\* A token still in its creator's hands; the creator has made many.
Fresh == [authority |-> "mint", socials |-> TRUE, age |-> 30, funding |-> FALSE,
          items |-> 6, gold |-> TRUE, key |-> TRUE]
Tokens == {Fresh, [Fresh EXCEPT !.key = FALSE],
           [Fresh EXCEPT !.authority = "other", !.gold = FALSE, !.items = 0, !.age = 1]}
OneToken == {Fresh}
=============================================================================
