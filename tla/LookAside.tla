------------------------------ MODULE LookAside ------------------------------
(***************************************************************************)
(* What a look-aside cache promises its readers.  A reader is told a value *)
(* that is current, or that was and is still held by a cache or by a       *)
(* reader on its way to one.  A value that nobody holds any more is not    *)
(* told again unless it becomes current again, and "nothing" is only told  *)
(* while nothing is current: refusals are never cached.                    *)
(***************************************************************************)
CONSTANTS
    Readers,
    Values,
    Fallbacks   \* answers that stand for no value: an error, a default

VARIABLES
    current,    \* the values the source of truth would answer
    held,       \* the values that may still be told
    told        \* told[r]: the answer reader r has, or "unasked"

vars == <<current, held, told>>

Init ==
    /\ current \subseteq Values
    /\ held = current
    /\ told = [r \in Readers |-> "unasked"]

\* The truth changes; what no cache and no reader holds of the old one is gone.
Change ==
    /\ current' \subseteq Values
    /\ current' \subseteq held' /\ held' \subseteq held \cup current'
    /\ UNCHANGED told

\* Entries expire, readers finish or die.
Forget ==
    /\ current \subseteq held' /\ held' \subseteq held
    /\ UNCHANGED current

Tell(r, a) ==
    /\ a \in held \cup Fallbacks \cup (IF current = {} THEN {"nothing"} ELSE {})
    /\ told' = [told EXCEPT ![r] = a]
    /\ Forget

\* The readers of S are done with their answers.
Leave(S) ==
    /\ told' = [r \in Readers |-> IF r \in S THEN "unasked" ELSE told[r]]
    /\ Forget

Next ==
    \/ Change
    \/ \E S \in SUBSET Readers : Leave(S)
    \/ \E r \in Readers, a \in Values \cup Fallbacks \cup {"nothing"} : Tell(r, a)

Spec == Init /\ [][Next]_vars
=============================================================================
