------------------------------ MODULE Gateway -------------------------------
(***************************************************************************)
(* The user's side of the router: requests pass DualAuthMiddleware (Auth)  *)
(* and those to /pay/subscribe are handed to the price oracle (Oracle) by  *)
(* CreateSubscriptionPaymentHandler (internal/ingestor/pay_handler.go) and *)
(* GenerateSubscriptionPaymentURL (internal/pay/service.go).  The pending  *)
(* payment that such a request leaves behind is in Fulfilment.             *)
(***************************************************************************)
EXTENDS Auth, Oracle

vars == <<authVars, oracleVars>>

Init == AuthInit /\ OracleInit

\* Whoever has a user id may subscribe, guest_teaser too.
Subscribe(r) ==
    /\ pos[r] \in {"bot", "member", "guest"} /\ Goto(r, "quoting")
    /\ Ask(r)
    /\ UNCHANGED <<keyVars, roleVars>>

\* The price goes into the payment's URL, which is answered, saved or not.
Reply(r) ==
    /\ pos[r] = "quoting" /\ Goto(r, "idle")
    /\ Quoted(r)
    /\ UNCHANGED <<keyVars, roleVars>>

Crash == AuthCrash /\ OracleCrash

Next ==
    \/ AuthStep /\ UNCHANGED oracleVars
    \/ OracleStep /\ UNCHANGED authVars
    \/ \E r \in Requests : Subscribe(r) \/ Reply(r)
    \/ Crash

Safety == Init /\ [][Next]_vars

Fairness == AuthFairness /\ OracleFairness /\ \A r \in Requests : WF_vars(Reply(r))

Spec == Safety /\ Fairness

\* A request has its price looked up exactly while it waits for its quote.
TypeOK ==
    /\ AuthTypeOK /\ OracleTypeOK
    /\ \A r \in Requests : pos[r] = "quoting" <=> step[r] # "idle"
=============================================================================
