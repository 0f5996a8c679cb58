--------------------------- MODULE MCVerdictStore ---------------------------
(* Instances of VerdictStore for TLC. *)
EXTENDS VerdictStore, TLC

CONSTANTS a1, a2, c1, c2

\* Two messages about the token that name different creators.
MCCreators == (a1 :> c1 @@ a2 :> c2)
=============================================================================
