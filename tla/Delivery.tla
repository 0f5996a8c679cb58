------------------------------ MODULE Delivery ------------------------------
(***************************************************************************)
(* What the ingestion pipeline promises about a webhook event: an event    *)
(* answered 200 is held in memory until Pub/Sub has it, and may be lost    *)
(* until then; once Pub/Sub has it, it leaves only by being analysed or,   *)
(* when it holds no token, by being discarded.                             *)
(***************************************************************************)
CONSTANTS
    Events,     \* webhook payloads
    Unusable    \* those that do not decode, or name no mint

VARIABLE status

Statuses == {"offered", "accepted", "durable", "analysed", "discarded", "lost"}

Init == status = [e \in Events |-> "offered"]

Move(e, from, to) == status[e] = from /\ status' = [status EXCEPT ![e] = to]

Accept(e)  == Move(e, "offered", "accepted")
Persist(e) == Move(e, "accepted", "durable")
Analyse(e) == e \notin Unusable /\ Move(e, "durable", "analysed")
Discard(e) == e \in Unusable /\ Move(e, "durable", "discarded")
\* The process holding them dies.
Lose(S) ==
    /\ \A e \in S : status[e] = "accepted"
    /\ status' = [e \in Events |-> IF e \in S THEN "lost" ELSE status[e]]

Next ==
    \/ \E e \in Events : Accept(e) \/ Persist(e) \/ Analyse(e) \/ Discard(e)
    \/ \E S \in SUBSET Events : Lose(S)

Spec == Init /\ [][Next]_status
=============================================================================
