----------------------------- MODULE MCGateway ------------------------------
(* Instances of Gateway for TLC. *)
EXTENDS Gateway

CONSTANTS p1, p2

\* Prices are interchangeable, so the market may as well open at p1.
MCInit == Init /\ market = p1
MCSpec == MCInit /\ [][Next]_vars /\ Fairness
=============================================================================
