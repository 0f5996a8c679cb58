----------------------------- MODULE Fulfilment -----------------------------
(***************************************************************************)
(* A user buys subscriptions: CreateSubscriptionPaymentHandler and         *)
(* VerifyPaymentHandler (internal/ingestor/pay_handler.go), the on-chain   *)
(* check VerifyTransaction (internal/pay/service.go) and the fulfilment    *)
(* UpdatePaymentStatus / ActivateSubscription (internal/repository/        *)
(* payment.go).  One user; each verification is a process that takes one   *)
(* RPC, statement or Redis call per step, and the client may verify any    *)
(* reference it was given any number of times, also twice at once.         *)
(*                                                                         *)
(* ActivateSubscription reads the row and writes it in one transaction,    *)
(* but at READ COMMITTED without FOR UPDATE: the branch and the carry-over *)
(* come from the snapshot, while the UPDATE's own expressions see the row  *)
(* as it is.  now() is fixed for the transaction.                          *)
(*                                                                         *)
(* Abstractions.  Amounts, URLs and memos are left out.  The "access"      *)
(* cached for the plan's name at the end of UpdatePaymentStatus is a key   *)
(* no token look-up reads and is left out; the one for single payments is  *)
(* in AccessGate.  Status is always 'active': no code writes another.      *)
(***************************************************************************)
EXTENDS Integers, Sequences

CONSTANTS
    Refs,       \* payment references (uuids)
    PlanOf,     \* [Refs -> Plans]: the plan each was created for
    Verifiers,  \* goroutines inside VerifyPaymentHandler
    Days,       \* [Fulfilled -> Nat]: 7, 30, 30
    PlanQuota,  \* [Fulfilled -> Nat]: QuotaProWeekly, QuotaProMonthly, QuotaUltraMonthly
    Faults,     \* TRUE: RPCs, statements and Redis calls may fail, the process may crash
    MaxTime,    \* bound on now
    MaxTxs,     \* bound on transactions per reference
    MaxCommits, \* bound on committed activations
    MaxUsage    \* bound on the usage counter

\* The plans UpdatePaymentStatus fulfils; the plan of a payment is any query string.
Fulfilled == {"SUB_WEEKLY_PRO", "SUB_MONTHLY_PRO", "SUB_ULTRA_PRO"}
Plans == Fulfilled \cup {"SUB_ENTERPRISE"}
None == "none"

getTier(p) == CASE p = "SUB_WEEKLY_PRO"  -> 1
                [] p = "SUB_MONTHLY_PRO" -> 2
                [] p = "SUB_ULTRA_PRO"   -> 3
                [] p = "SUB_ENTERPRISE"  -> 4
                [] OTHER                 -> 0

ASSUME PlanAssumption == PlanOf \in [Refs -> Plans]
\* "invalid subscription duration" is unreachable: every call passes 7 or 30.
ASSUME DaysAssumption == Days \in [Fulfilled -> Nat \ {0}]
ASSUME QuotaAssumption == PlanQuota \in [Fulfilled -> Nat]
ASSUME BoundAssumption ==
    Faults \in BOOLEAN /\ {MaxTime, MaxTxs, MaxCommits, MaxUsage} \subseteq Nat

VARIABLES
    now,        \* the time, in days
    txs,        \* txs[f]: the transactions carrying reference f, oldest first
    given,      \* references the client was given
    pay,        \* payments.status: "none" (no row), "pending" or "success"
    sub,        \* the user_subscriptions row
    usage,      \* Redis usage:user:<user>
    vpc, vref, vtx, vold, vnow,     \* verifier: position, reference, transaction found,
                                    \* row fetched, time of the transaction
    \* history, read by properties only
    activations,    \* number of committed activations
    bought,         \* the sum of their plans' quotas
    activated,      \* references with a committed activation
    accepted        \* references whose verification was answered "success"

verVars   == <<vpc, vref, vtx, vold, vnow>>
countVars == <<activations, bought, activated>>
histVars  == <<countVars, accepted>>
vars == <<now, txs, given, pay, sub, usage, verVars, histVars>>

TxStates == {"seen", "final", "failed"}
NoSub == [plan |-> None, tier |-> 0, expires |-> 0, limit |-> 0, carry |-> 0, used |-> 0,
          pending |-> None]
VerifierLocations == {"idle", "signature", "transaction", "update", "fetch", "apply", "reset"}

Init ==
    /\ now = 0
    /\ txs = [f \in Refs |-> <<>>]
    /\ given = {}
    /\ pay = [f \in Refs |-> "none"]
    /\ sub = NoSub
    /\ usage = 0
    /\ vpc = [v \in Verifiers |-> "idle"]
    /\ vref \in [Verifiers -> Refs]
    /\ vtx = [v \in Verifiers |-> 0]
    /\ vold = [v \in Verifiers |-> NoSub]
    /\ vnow = [v \in Verifiers |-> 0]
    /\ activations = 0 /\ bought = 0 /\ activated = {}
    /\ accepted = {}
-----------------------------------------------------------------------------
\* GenerateSubscriptionPaymentURL draws a reference and SavePayment inserts its row;
\* a failed insert is logged and the client is given the reference all the same.
CreateSubscriptionPayment(f) ==
    /\ f \notin given
    /\ given' = given \cup {f}
    /\ \/ pay' = [pay EXCEPT ![f] = "pending"]
       \/ Faults /\ UNCHANGED pay
    /\ UNCHANGED <<now, txs, sub, usage, verVars, histVars>>

\* The chain (external): the client sends a transaction, again if it likes; each is
\* finalized or fails.
Send(f) ==
    /\ f \in given /\ Len(txs[f]) < MaxTxs
    /\ txs' = [txs EXCEPT ![f] = Append(@, "seen")]
    /\ UNCHANGED <<now, given, pay, sub, usage, verVars, histVars>>

Settle(f, i, s) ==
    /\ i \in DOMAIN txs[f] /\ txs[f][i] = "seen"
    /\ txs' = [txs EXCEPT ![f][i] = s]
    /\ UNCHANGED <<now, given, pay, sub, usage, verVars, histVars>>
-----------------------------------------------------------------------------
Goto(v, l) == vpc' = [vpc EXCEPT ![v] = l]
\* The handler answers: 202 pending and 500 leave nothing behind, 200 is recorded.
Answer(v) ==
    /\ Goto(v, "idle")
    /\ vtx' = [vtx EXCEPT ![v] = 0]
    /\ vold' = [vold EXCEPT ![v] = NoSub]
    /\ vnow' = [vnow EXCEPT ![v] = 0]
    /\ UNCHANGED vref

VerifyPayment(v, f) ==
    /\ vpc[v] = "idle" /\ f \in given
    /\ Goto(v, "signature")
    /\ vref' = [vref EXCEPT ![v] = f]
    /\ UNCHANGED <<now, txs, given, pay, sub, usage, vtx, vold, vnow, histVars>>

\* getSignaturesForAddress with limit 1: the newest transaction.  None found, or the
\* RPC failed: "pending".
FindSignature(v) ==
    /\ vpc[v] = "signature"
    /\ \/ /\ txs[vref[v]] # <<>>
          /\ vtx' = [vtx EXCEPT ![v] = Len(txs[vref[v]])]
          /\ Goto(v, "transaction")
          /\ UNCHANGED <<vref, vold, vnow>>
       \/ /\ txs[vref[v]] = <<>> \/ Faults
          /\ Answer(v)
    /\ UNCHANGED <<now, txs, given, pay, sub, usage, histVars>>

\* Mutant: a transaction that was only seen is taken for a payment.
CheckTransactionAnyCommitment(v) ==
    LET s == txs[vref[v]][vtx[v]]  IN
    /\ vpc[v] = "transaction"
    /\ \/ /\ s # "failed"
          /\ Goto(v, "update")
          /\ UNCHANGED <<vref, vtx, vold, vnow>>
       \/ /\ s = "failed" \/ Faults
          /\ Answer(v)
    /\ UNCHANGED <<now, txs, given, pay, sub, usage, histVars>>

\* getTransaction at commitment "finalized": only a finalized, successful one counts.
CheckTransaction(v) ==
    LET s == txs[vref[v]][vtx[v]]  IN
    /\ vpc[v] = "transaction"
    /\ \/ /\ s = "final"
          /\ Goto(v, "update")
          /\ UNCHANGED <<vref, vtx, vold, vnow>>
       \/ /\ s # "final" \/ Faults
          /\ Answer(v)
    /\ UNCHANGED <<now, txs, given, pay, sub, usage, histVars>>

\* Mutant: a payment that is 'success' already is answered without fulfilling it.
UpdateStatusOnce(v) ==
    LET f == vref[v]  IN
    /\ vpc[v] = "update"
    /\ \/ /\ pay[f] # "none"
          /\ pay' = [pay EXCEPT ![f] = "success"]
          /\ IF PlanOf[f] \in Fulfilled /\ pay[f] = "pending"
             THEN /\ Goto(v, "fetch")
                  /\ UNCHANGED <<vref, vtx, vold, vnow, accepted>>
             ELSE Answer(v) /\ accepted' = accepted \cup {f}
       \/ /\ pay[f] = "none" \/ Faults
          /\ Answer(v)
          /\ UNCHANGED <<pay, accepted>>
    /\ UNCHANGED <<now, txs, given, sub, usage, countVars>>

\* UPDATE payments SET status: no row (or a failure) is an error; a row that is
\* already 'success' is updated again.  A plan without a branch is not fulfilled.
UpdateStatus(v) ==
    LET f == vref[v]  IN
    /\ vpc[v] = "update"
    /\ \/ /\ pay[f] # "none"
          /\ pay' = [pay EXCEPT ![f] = "success"]
          /\ IF PlanOf[f] \in Fulfilled
             THEN /\ Goto(v, "fetch")
                  /\ UNCHANGED <<vref, vtx, vold, vnow, accepted>>
             ELSE Answer(v) /\ accepted' = accepted \cup {f}
       \/ /\ pay[f] = "none" \/ Faults
          /\ Answer(v)
          /\ UNCHANGED <<pay, accepted>>
    /\ UNCHANGED <<now, txs, given, sub, usage, countVars>>

\* An error of ActivateSubscription: logged and swallowed for the Ultra plan only.
ActivationFails(v) ==
    /\ Faults
    /\ vpc[v] \in {"fetch", "apply"}
    /\ Answer(v)
    /\ accepted' = IF PlanOf[vref[v]] = "SUB_ULTRA_PRO" THEN accepted \cup {vref[v]}
                                                        ELSE accepted
    /\ UNCHANGED <<now, txs, given, pay, sub, usage, countVars>>

\* Mutant: the usage key is deleted when the activation begins.
FetchSubscriptionResets(v) ==
    /\ vpc[v] = "fetch"
    /\ vold' = [vold EXCEPT ![v] = sub]
    /\ vnow' = [vnow EXCEPT ![v] = now]
    /\ usage' = 0
    /\ Goto(v, "apply")
    /\ UNCHANGED <<now, txs, given, pay, sub, vref, vtx, histVars>>

\* BEGIN and SELECT: the row as the branch will see it, and the time.
FetchSubscription(v) ==
    /\ vpc[v] = "fetch"
    /\ vold' = [vold EXCEPT ![v] = sub]
    /\ vnow' = [vnow EXCEPT ![v] = now]
    /\ Goto(v, "apply")
    /\ UNCHANGED <<now, txs, given, pay, sub, usage, vref, vtx, histVars>>
-----------------------------------------------------------------------------
Active(row, t) == row.expires > t
Plan(v) == PlanOf[vref[v]]
Minus(a, b) == IF a > b THEN a - b ELSE 0

\* The transaction commits with the row as left by s; the usage key comes next, or,
\* when the reply to COMMIT is lost, the handler takes it for an error.
Commit(v) ==
    /\ activations < MaxCommits
    /\ activations' = activations + 1
    /\ bought' = bought + PlanQuota[Plan(v)]
    /\ activated' = activated \cup {vref[v]}
    /\ \/ Goto(v, "reset") /\ UNCHANGED <<vref, vtx, vold, vnow, accepted>>
       \/ /\ Faults
          /\ Answer(v)
          /\ accepted' = IF Plan(v) = "SUB_ULTRA_PRO" THEN accepted \cup {vref[v]}
                                                      ELSE accepted
    /\ UNCHANGED <<now, txs, given, pay, usage>>

\* INSERT; user_id is UNIQUE, so the loser of a race gets an error (500).
InsertRow(v) ==
    /\ sub = NoSub
    /\ sub' = [NoSub EXCEPT !.plan = Plan(v), !.tier = getTier(Plan(v)),
                            !.expires = vnow[v] + Days[Plan(v)],
                            !.limit = PlanQuota[Plan(v)]]
    /\ Commit(v)

NewSubscription(v) ==
    /\ vpc[v] = "apply" /\ vold[v] = NoSub
    /\ \/ InsertRow(v)
       \/ /\ sub # NoSub
          /\ Answer(v)
          /\ accepted' = IF Plan(v) = "SUB_ULTRA_PRO" THEN accepted \cup {vref[v]}
                                                      ELSE accepted
          /\ UNCHANGED <<now, txs, given, pay, sub, usage, countVars>>

IsUpgrade(v)   == getTier(Plan(v)) > vold[v].tier /\ Active(vold[v], vnow[v])
IsDowngrade(v) == getTier(Plan(v)) < vold[v].tier /\ Active(vold[v], vnow[v])

\* Mutant: the carry-over is added to what the row holds by now.
UpgradeOnTop(v) ==
    LET leftover == Minus(vold[v].limit, vold[v].used)  IN
    /\ vpc[v] = "apply" /\ vold[v] # NoSub /\ IsUpgrade(v)
    /\ sub' = [sub EXCEPT !.plan = Plan(v), !.tier = getTier(Plan(v)),
                          !.expires = vnow[v] + Days[Plan(v)],
                          !.limit = @ + PlanQuota[Plan(v)] + leftover, !.carry = leftover,
                          !.used = 0]
    /\ Commit(v)

\* The paid time left is dropped, the quota left (limit minus current_usage, which no
\* code ever raises) is carried over.
Upgrade(v) ==
    LET leftover == Minus(vold[v].limit, vold[v].used)  IN
    /\ vpc[v] = "apply" /\ vold[v] # NoSub /\ IsUpgrade(v)
    /\ sub' = [sub EXCEPT !.plan = Plan(v), !.tier = getTier(Plan(v)),
                          !.expires = vnow[v] + Days[Plan(v)],
                          !.limit = PlanQuota[Plan(v)] + leftover, !.carry = leftover,
                          !.used = 0]
    /\ Commit(v)

\* Mutant: a downgrade takes effect at once.
QueueDowngradeNow(v) ==
    /\ vpc[v] = "apply" /\ vold[v] # NoSub /\ IsDowngrade(v)
    /\ sub' = [sub EXCEPT !.plan = Plan(v), !.tier = getTier(Plan(v)),
                          !.expires = vnow[v] + Days[Plan(v)],
                          !.limit = PlanQuota[Plan(v)]]
    /\ Commit(v)

QueueDowngrade(v) ==
    /\ vpc[v] = "apply" /\ vold[v] # NoSub /\ IsDowngrade(v)
    /\ sub' = [sub EXCEPT !.pending = Plan(v)]
    /\ Commit(v)

\* Mutant: the new expiry is computed from the row that was fetched.
RenewFromSnapshot(v) ==
    /\ vpc[v] = "apply" /\ vold[v] # NoSub /\ ~IsUpgrade(v) /\ ~IsDowngrade(v)
    /\ sub' = [sub EXCEPT !.plan = Plan(v), !.tier = getTier(Plan(v)),
                          !.expires = Days[Plan(v)] +
                              (IF Active(vold[v], vnow[v]) THEN vold[v].expires ELSE vnow[v]),
                          !.limit = PlanQuota[Plan(v)], !.used = 0]
    /\ Commit(v)

\* The CASE of the UPDATE reads expires_at of the row as it is, not as it was fetched.
Renew(v) ==
    /\ vpc[v] = "apply" /\ vold[v] # NoSub /\ ~IsUpgrade(v) /\ ~IsDowngrade(v)
    /\ sub' = [sub EXCEPT !.plan = Plan(v), !.tier = getTier(Plan(v)),
                          !.expires = Days[Plan(v)] +
                              (IF Active(sub, vnow[v]) THEN @ ELSE vnow[v]),
                          !.limit = PlanQuota[Plan(v)], !.used = 0]
    /\ Commit(v)

\* Mutant: the old limit is taken off the counter instead of deleting it.
ResetUsageByLimit(v) ==
    /\ vpc[v] = "reset"
    /\ usage' = usage - vold[v].limit
    /\ Answer(v)
    /\ accepted' = accepted \cup {vref[v]}
    /\ UNCHANGED <<now, txs, given, pay, sub, countVars>>

\* DEL usage:user:<user>, after every commit, a queued downgrade's too.  A failed DEL
\* is not noticed.
ResetUsage(v) ==
    /\ vpc[v] = "reset"
    /\ usage' = 0 \/ (Faults /\ usage' = usage)
    /\ Answer(v)
    /\ accepted' = accepted \cup {vref[v]}
    /\ UNCHANGED <<now, txs, given, pay, sub, countVars>>

ActivateSubscription(v) ==
    \/ FetchSubscription(v) \/ NewSubscription(v) \/ Upgrade(v) \/ QueueDowngrade(v)
    \/ Renew(v) \/ ResetUsage(v) \/ ActivationFails(v)

Verification(v) ==
    \/ FindSignature(v) \/ CheckTransaction(v) \/ UpdateStatus(v) \/ ActivateSubscription(v)
-----------------------------------------------------------------------------
\* IncrementUsage: the user scans on the subscription.
Scan ==
    /\ Active(sub, now) /\ usage < sub.limit /\ usage < MaxUsage
    /\ usage' = usage + 1
    /\ UNCHANGED <<now, txs, given, pay, sub, verVars, histVars>>

Tick ==
    /\ now < MaxTime
    /\ now' = now + 1
    /\ UNCHANGED <<txs, given, pay, sub, usage, verVars, histVars>>

\* The process dies: open transactions roll back, rows and keys stay.
Crash ==
    /\ Faults
    /\ vpc' = [v \in Verifiers |-> "idle"]
    /\ vtx' = [v \in Verifiers |-> 0]
    /\ vold' = [v \in Verifiers |-> NoSub]
    /\ vnow' = [v \in Verifiers |-> 0]
    /\ UNCHANGED <<now, txs, given, pay, sub, usage, vref, histVars>>

Next ==
    \/ \E f \in Refs : CreateSubscriptionPayment(f) \/ Send(f)
    \/ \E f \in Refs, i \in 1 .. MaxTxs, s \in {"final", "failed"} : Settle(f, i, s)
    \/ \E v \in Verifiers, f \in Refs : VerifyPayment(v, f)
    \/ \E v \in Verifiers : Verification(v)
    \/ Scan \/ Tick \/ Crash

Spec == Init /\ [][Next]_vars
-----------------------------------------------------------------------------
(***************************************************************************)
(* Properties                                                              *)
(***************************************************************************)
Rows == [plan : Plans \cup {None}, tier : 0 .. 4, expires : Nat, limit : Nat, carry : Nat,
         used : Nat, pending : Plans \cup {None}]

TypeOK ==
    /\ now \in Nat
    /\ txs \in [Refs -> Seq(TxStates)]
    /\ given \subseteq Refs
    /\ pay \in [Refs -> {"none", "pending", "success"}]
    /\ sub \in Rows
    /\ usage \in Nat
    /\ vpc \in [Verifiers -> VerifierLocations]
    /\ vref \in [Verifiers -> Refs]
    /\ vtx \in [Verifiers -> Nat]
    /\ vold \in [Verifiers -> Rows]
    /\ vnow \in [Verifiers -> Nat]
    /\ activations \in Nat /\ bought \in Nat
    /\ activated \subseteq Refs /\ accepted \subseteq Refs

Settled(f) == \E i \in DOMAIN txs[f] : txs[f][i] = "final"

\* Nothing is given away, in whatever order transactions, verifications and crashes come:
\* a payment marked 'success' has a finalized, successful transaction behind it, an
\* activation and a 200 have such a payment, and "Payment verified" is only answered once
\* the plan was activated.  Ultra, whose activation errors are swallowed, and plans nobody
\* fulfils are the exceptions to the last.
FulfilledInOrder == \A f \in Refs :
    /\ pay[f] = "success" => Settled(f)
    /\ f \in activated \cup accepted => pay[f] = "success"
    /\ f \in accepted /\ PlanOf[f] \in Fulfilled \ {"SUB_ULTRA_PRO"} => f \in activated

\* While a user buys one plan only, no renewal is ever lost: the expiry covers every
\* activation that was committed, however they overlap.
NoPaidTimeLost ==
    \A f \in Refs : PlanOf[f] \in Fulfilled => sub.expires >= activations * Days[PlanOf[f]]

\* The quota of a row is never more than the activations so far pay for: a carry-over
\* computed from an overtaken snapshot does not count a quota twice.
QuotaWasBought == sub.limit <= bought

TierDrop == sub'.tier < sub.tier /\ Active(sub, now)
Overtaken == \E v \in Verifiers : vpc[v] = "apply" /\ vpc'[v] # "apply" /\ vold[v] # sub

\* "QUEUED DOWNGRADE: Protect current high-tier status": a subscription that has not
\* expired never loses its tier.
TierProtected == [][~TierDrop]_vars

\* What does hold of it: the tier only drops in a transaction whose snapshot another
\* activation has overtaken.
TierProtectedAlone == [][TierDrop => Overtaken]_vars

\* Paid time only shrinks by an upgrade, which trades it for quota, or, again, by a
\* transaction that was overtaken.
PaidTimeProtected ==
    [][sub'.expires < sub.expires => sub'.tier > sub.tier \/ Overtaken]_vars

\* To the gate that spends subscriptions the seller keeps its side of Subscription: the
\* row never goes away, it is active only after a commit, and the counter is cleared
\* only after one, so that an activation that rolls back gives no quota away.
RowState == IF sub = NoSub THEN "none" ELSE IF Active(sub, now) THEN "active" ELSE "lapsed"
Owing == \E v \in Verifiers : vpc[v] = "reset"
Subscribed == INSTANCE Subscription WITH
    Users <- {"user"},
    state <- [u \in {"user"} |-> RowState],
    owed <- IF Owing THEN {"user"} ELSE {},
    usage <- [u \in {"user"} |-> usage]
FollowsSubscription == Subscribed!Spec
=============================================================================
