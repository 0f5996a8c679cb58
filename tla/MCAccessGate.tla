---------------------------- MODULE MCAccessGate ----------------------------
(* Instances of AccessGate for TLC. *)
EXTENDS AccessGate, TLC

CONSTANTS FreeUI, FreeAPI

MCFreeLimit == [k \in Kinds |-> IF k = "ui" THEN FreeUI ELSE FreeAPI]
MCPayable == Users \X Mints
Symmetry == Permutations(Requests)
=============================================================================
