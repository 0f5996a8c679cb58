-------------------------- MODULE Fulfilment_proofs --------------------------
(***************************************************************************)
(* Theorems about Fulfilment, for any set of references, plans, durations, *)
(* quotas and concurrent verifications, with or without faults.            *)
(***************************************************************************)
EXTENDS Fulfilment, SequenceTheorems, TLAPS

\* The plan being activated is one with a duration and a quota.
PlanInv == \A v \in Verifiers : vpc[v] \in {"fetch", "apply"} => Plan(v) \in Fulfilled

Inv == TypeOK /\ PlanInv

\* getTier is a level from 0 to 4.
LEMMA TierType == \A p \in Plans : getTier(p) \in 0 .. 4
  BY DEF getTier, Plans, Fulfilled

\* No subscription is a row as well.
LEMMA RowType == NoSub \in Rows
  BY DEF NoSub, Rows

\* Overwriting fields of a row leaves a row.
LEMMA RowUpdate ==
    ASSUME NEW r \in Rows, NEW p \in Plans, NEW t \in 0 .. 4, NEW e \in Nat, NEW l \in Nat
    PROVE  /\ [r EXCEPT !.plan = p, !.tier = t, !.expires = e, !.limit = l] \in Rows
           /\ [r EXCEPT !.pending = p] \in Rows
  BY DEF Rows

\* Every verification step either moves one verifier or answers it.
LEMMA AnswerType ==
    ASSUME Inv, NEW v \in Verifiers, Answer(v)
    PROVE  /\ vpc' \in [Verifiers -> VerifierLocations]
           /\ vref' \in [Verifiers -> Refs] /\ vtx' \in [Verifiers -> Nat]
           /\ vold' \in [Verifiers -> Rows] /\ vnow' \in [Verifiers -> Nat]
           /\ PlanInv'
<1>1. /\ vpc' \in [Verifiers -> VerifierLocations]
      /\ vref' \in [Verifiers -> Refs] /\ vtx' \in [Verifiers -> Nat]
      /\ vold' \in [Verifiers -> Rows] /\ vnow' \in [Verifiers -> Nat]
  BY RowType DEF Inv, TypeOK, Answer, Goto, VerifierLocations
<1>2. PlanInv'
  BY DEF Inv, TypeOK, PlanInv, Plan, Answer, Goto
<1> QED
  BY <1>1, <1>2

\* A commit keeps the verifiers' types and touches nothing but the row and the history.
LEMMA CommitType ==
    ASSUME Inv, NEW v \in Verifiers, vpc[v] = "apply", Commit(v)
    PROVE  /\ vpc' \in [Verifiers -> VerifierLocations]
           /\ vref' \in [Verifiers -> Refs] /\ vtx' \in [Verifiers -> Nat]
           /\ vold' \in [Verifiers -> Rows] /\ vnow' \in [Verifiers -> Nat]
           /\ PlanInv'
           /\ UNCHANGED <<now, txs, given, pay, usage>>
           /\ activations' \in Nat /\ bought' \in Nat
           /\ activated' \subseteq Refs /\ accepted' \subseteq Refs
<1> USE DEF Inv
<1>1. /\ UNCHANGED <<now, txs, given, pay, usage>>
      /\ activations' = activations + 1 /\ bought' = bought + PlanQuota[Plan(v)]
      /\ activated' = activated \cup {vref[v]}
      /\ accepted' = accepted \/ accepted' = accepted \cup {vref[v]}
  BY DEF Commit
<1>2. Plan(v) \in Fulfilled /\ vref[v] \in Refs
  BY DEF PlanInv, TypeOK
<1>3. /\ activations' \in Nat /\ bought' \in Nat
      /\ activated' \subseteq Refs /\ accepted' \subseteq Refs
  BY <1>1, <1>2, QuotaAssumption DEF TypeOK
<1>4. CASE Answer(v)
  BY <1>1, <1>3, <1>4, AnswerType
<1>5. CASE Goto(v, "reset") /\ UNCHANGED <<vref, vtx, vold, vnow>>
  <2>1. vpc' \in [Verifiers -> VerifierLocations]
    BY <1>5 DEF TypeOK, Goto, VerifierLocations
  <2>2. PlanInv'
    BY <1>5 DEF TypeOK, Goto, PlanInv, Plan
  <2> QED
    BY <1>1, <1>3, <1>5, <2>1, <2>2 DEF TypeOK
<1> QED
  BY <1>4, <1>5 DEF Commit

\* The rows the statements of ActivateSubscription leave behind.
LEMMA AppliedRows ==
    ASSUME Inv, NEW v \in Verifiers,
           NewSubscription(v) \/ Upgrade(v) \/ QueueDowngrade(v) \/ Renew(v)
    PROVE  sub' \in Rows
<1> USE DEF Inv
<1>1. vpc[v] = "apply"
  BY DEF NewSubscription, Upgrade, QueueDowngrade, Renew
<1>2. Plan(v) \in Fulfilled /\ Plan(v) \in Plans
  BY <1>1 DEF PlanInv, Plans
<1>3. /\ getTier(Plan(v)) \in 0 .. 4 /\ Days[Plan(v)] \in Nat /\ PlanQuota[Plan(v)] \in Nat
      /\ sub \in Rows /\ vold[v] \in Rows /\ vnow[v] \in Nat
  BY <1>2, TierType, DaysAssumption, QuotaAssumption DEF TypeOK
<1>4. CASE NewSubscription(v)
  <2>1. CASE InsertRow(v)
    <3>1. vnow[v] + Days[Plan(v)] \in Nat
      BY <1>3
    <3> QED
      BY <1>2, <1>3, <2>1, <3>1, RowType, RowUpdate DEF InsertRow
  <2>2. CASE sub' = sub
    BY <1>3, <2>2
  <2> QED
    BY <1>4, <2>1, <2>2 DEF NewSubscription
<1>5. CASE Upgrade(v)
  <2> DEFINE c == Minus(vold[v].limit, vold[v].used)
             l == PlanQuota[Plan(v)] + c
             e == vnow[v] + Days[Plan(v)]
             t == getTier(Plan(v))
             p == Plan(v)
  <2>1. c \in Nat /\ l \in Nat /\ e \in Nat /\ t \in 0 .. 4 /\ p \in Plans
    BY <1>2, <1>3 DEF Minus, Rows
  <2>2. sub' = [sub EXCEPT !.plan = p, !.tier = t, !.expires = e, !.limit = l, !.carry = c,
                           !.used = 0]
    BY <1>5 DEF Upgrade
  <2> HIDE DEF c, l, e, t, p
  <2>3. [sub EXCEPT !.plan = p, !.tier = t, !.expires = e, !.limit = l, !.carry = c,
                    !.used = 0] \in Rows
    BY <1>3, <2>1 DEF Rows
  <2> QED
    BY <2>2, <2>3
<1>6. CASE QueueDowngrade(v)
  <2>1. sub' = [sub EXCEPT !.pending = Plan(v)]
    BY <1>6 DEF QueueDowngrade
  <2> QED
    BY <1>2, <1>3, <2>1, RowUpdate
<1>7. CASE Renew(v)
  <2> DEFINE l == PlanQuota[Plan(v)]
             e == Days[Plan(v)] + (IF Active(sub, vnow[v]) THEN sub.expires ELSE vnow[v])
             t == getTier(Plan(v))
             p == Plan(v)
  <2>1. l \in Nat /\ e \in Nat /\ t \in 0 .. 4 /\ p \in Plans
    <3>1. sub.expires \in Nat
      BY <1>3 DEF Rows
    <3> QED
      BY <1>2, <1>3, <3>1
  <2>2. sub' = [sub EXCEPT !.plan = p, !.tier = t, !.expires = e, !.limit = l, !.used = 0]
    BY <1>7 DEF Renew
  <2> HIDE DEF l, e, t, p
  <2>3. [sub EXCEPT !.plan = p, !.tier = t, !.expires = e, !.limit = l, !.used = 0] \in Rows
    BY <1>3, <2>1 DEF Rows
  <2> QED
    BY <2>2, <2>3
<1> QED
  BY <1>4, <1>5, <1>6, <1>7

\* Every step preserves types and plans.
LEMMA TypeStep == Inv /\ [Next]_vars => Inv'
<1> SUFFICES ASSUME Inv, [Next]_vars PROVE Inv'
  OBVIOUS
<1> USE DEF Inv
<1>0. CASE UNCHANGED vars
  BY <1>0 DEF vars, verVars, histVars, countVars, TypeOK, PlanInv, Plan
<1>1. ASSUME NEW f \in Refs, CreateSubscriptionPayment(f) PROVE Inv'
  <2>1. pay' = [pay EXCEPT ![f] = "pending"] \/ pay' = pay
    BY <1>1 DEF CreateSubscriptionPayment
  <2>2. /\ given' = given \cup {f}
        /\ UNCHANGED <<now, txs, sub, usage, verVars, histVars>>
    BY <1>1 DEF CreateSubscriptionPayment
  <2> QED
    BY <2>1, <2>2 DEF verVars, histVars, countVars, TypeOK, PlanInv, Plan
<1>2. ASSUME NEW f \in Refs, Send(f) PROVE Inv'
  <2>1. txs' \in [Refs -> Seq(TxStates)]
    BY <1>2 DEF Send, TypeOK, TxStates
  <2> QED
    BY <1>2, <2>1 DEF Send, verVars, histVars, countVars, TypeOK, PlanInv, Plan
<1>3. ASSUME NEW f \in Refs, NEW i \in 1 .. MaxTxs, NEW s \in {"final", "failed"},
             Settle(f, i, s)
      PROVE  Inv'
  <2>1. txs[f] \in Seq(TxStates) /\ i \in DOMAIN txs[f] /\ s \in TxStates
    BY <1>3 DEF Settle, TypeOK, TxStates
  <2>2. [txs[f] EXCEPT ![i] = s] \in Seq(TxStates)
    BY <2>1
  <2>3. txs' \in [Refs -> Seq(TxStates)]
    BY <1>3, <2>2 DEF Settle, TypeOK
  <2> QED
    BY <1>3, <2>3 DEF Settle, verVars, histVars, countVars, TypeOK, PlanInv, Plan
<1>4. ASSUME NEW v \in Verifiers, NEW f \in Refs, VerifyPayment(v, f) PROVE Inv'
  <2>1. vpc' \in [Verifiers -> VerifierLocations] /\ vref' \in [Verifiers -> Refs]
    BY <1>4 DEF VerifyPayment, Goto, TypeOK, VerifierLocations
  <2>2. PlanInv'
    BY <1>4 DEF VerifyPayment, Goto, TypeOK, PlanInv, Plan
  <2> QED
    BY <1>4, <2>1, <2>2 DEF VerifyPayment, histVars, countVars, TypeOK
<1>5. ASSUME NEW v \in Verifiers, FindSignature(v) PROVE Inv'
  <2>1. UNCHANGED <<now, txs, given, pay, sub, usage, histVars>>
    BY <1>5 DEF FindSignature
  <2>2. CASE Answer(v)
    BY <2>1, <2>2, AnswerType DEF histVars, countVars, TypeOK
  <2>3. CASE /\ vtx' = [vtx EXCEPT ![v] = Len(txs[vref[v]])]
             /\ Goto(v, "transaction")
             /\ UNCHANGED <<vref, vold, vnow>>
    <3>1. Len(txs[vref[v]]) \in Nat
      BY DEF TypeOK
    <3>2. vtx' \in [Verifiers -> Nat] /\ vpc' \in [Verifiers -> VerifierLocations]
      BY <2>3, <3>1 DEF Goto, TypeOK, VerifierLocations
    <3>3. PlanInv'
      BY <2>3 DEF Goto, TypeOK, PlanInv, Plan
    <3> QED
      BY <2>1, <2>3, <3>2, <3>3 DEF histVars, countVars, TypeOK
  <2> QED
    BY <1>5, <2>2, <2>3 DEF FindSignature
<1>6. ASSUME NEW v \in Verifiers, CheckTransaction(v) PROVE Inv'
  <2>1. UNCHANGED <<now, txs, given, pay, sub, usage, histVars>>
    BY <1>6 DEF CheckTransaction
  <2>2. CASE Answer(v)
    BY <2>1, <2>2, AnswerType DEF histVars, countVars, TypeOK
  <2>3. CASE Goto(v, "update") /\ UNCHANGED <<vref, vtx, vold, vnow>>
    <3>1. vpc' \in [Verifiers -> VerifierLocations]
      BY <2>3 DEF Goto, TypeOK, VerifierLocations
    <3>2. PlanInv'
      BY <2>3 DEF Goto, TypeOK, PlanInv, Plan
    <3> QED
      BY <2>1, <2>3, <3>1, <3>2 DEF histVars, countVars, TypeOK
  <2> QED
    BY <1>6, <2>2, <2>3 DEF CheckTransaction
<1>7. ASSUME NEW v \in Verifiers, UpdateStatus(v) PROVE Inv'
  <2>1. /\ UNCHANGED <<now, txs, given, sub, usage, countVars>>
        /\ pay' = [pay EXCEPT ![vref[v]] = "success"] \/ pay' = pay
        /\ accepted' = accepted \/ accepted' = accepted \cup {vref[v]}
    BY <1>7 DEF UpdateStatus
  <2>2. /\ pay' \in [Refs -> {"none", "pending", "success"}]
        /\ accepted' \subseteq Refs
    BY <2>1 DEF TypeOK
  <2>3. CASE Answer(v)
    BY <2>1, <2>2, <2>3, AnswerType DEF countVars, TypeOK
  <2>4. CASE /\ Plan(v) \in Fulfilled
             /\ Goto(v, "fetch")
             /\ UNCHANGED <<vref, vtx, vold, vnow>>
    <3>1. vpc' \in [Verifiers -> VerifierLocations]
      BY <2>4 DEF Goto, TypeOK, VerifierLocations
    <3>2. PlanInv'
      BY <2>4 DEF Goto, TypeOK, PlanInv, Plan
    <3> QED
      BY <2>1, <2>2, <2>4, <3>1, <3>2 DEF countVars, TypeOK
  <2> QED
    BY <1>7, <2>3, <2>4 DEF UpdateStatus, Plan
<1>8. ASSUME NEW v \in Verifiers, ActivationFails(v) PROVE Inv'
  <2>1. /\ UNCHANGED <<now, txs, given, pay, sub, usage, countVars>> /\ Answer(v)
        /\ accepted' = accepted \/ accepted' = accepted \cup {vref[v]}
    BY <1>8 DEF ActivationFails
  <2> QED
    BY <2>1, AnswerType DEF countVars, TypeOK
<1>9. ASSUME NEW v \in Verifiers, FetchSubscription(v) PROVE Inv'
  <2>1. /\ vpc' \in [Verifiers -> VerifierLocations] /\ vold' \in [Verifiers -> Rows]
        /\ vnow' \in [Verifiers -> Nat]
    BY <1>9 DEF FetchSubscription, Goto, TypeOK, VerifierLocations
  <2>2. PlanInv'
    BY <1>9 DEF FetchSubscription, Goto, TypeOK, PlanInv, Plan
  <2> QED
    BY <1>9, <2>1, <2>2 DEF FetchSubscription, histVars, countVars, TypeOK
<1>10. ASSUME NEW v \in Verifiers,
              \/ InsertRow(v) /\ vpc[v] = "apply"
              \/ Upgrade(v) \/ QueueDowngrade(v) \/ Renew(v),
              sub' \in Rows
       PROVE  Inv'
  <2>1. vpc[v] = "apply" /\ Commit(v)
    BY <1>10 DEF InsertRow, Upgrade, QueueDowngrade, Renew
  <2> QED
    BY <1>10, <2>1, CommitType DEF TypeOK
<1>11. ASSUME NEW v \in Verifiers, NewSubscription(v) PROVE Inv'
  <2>1. CASE InsertRow(v)
    BY <1>10, <1>11, <2>1, AppliedRows DEF NewSubscription
  <2>2. CASE ~InsertRow(v)
    <3>1. /\ UNCHANGED <<now, txs, given, pay, sub, usage, countVars>> /\ Answer(v)
          /\ accepted' = accepted \/ accepted' = accepted \cup {vref[v]}
      BY <1>11, <2>2 DEF NewSubscription
    <3> QED
      BY <3>1, AnswerType DEF countVars, TypeOK
  <2> QED
    BY <2>1, <2>2
<1>12. ASSUME NEW v \in Verifiers, ResetUsage(v) PROVE Inv'
  <2>1. /\ UNCHANGED <<now, txs, given, pay, sub, countVars>> /\ Answer(v)
        /\ accepted' = accepted \cup {vref[v]} /\ usage' \in Nat
    BY <1>12 DEF ResetUsage, TypeOK
  <2> QED
    BY <2>1, AnswerType DEF countVars, TypeOK
<1>13. CASE Scan \/ Tick
  <2>1. now' \in Nat /\ usage' \in Nat
    BY <1>13 DEF Scan, Tick, TypeOK
  <2> QED
    BY <1>13, <2>1 DEF Scan, Tick, verVars, histVars, countVars, TypeOK, PlanInv, Plan
<1>14. CASE Crash
  <2>1. /\ vpc' \in [Verifiers -> VerifierLocations] /\ vtx' \in [Verifiers -> Nat]
        /\ vold' \in [Verifiers -> Rows] /\ vnow' \in [Verifiers -> Nat]
    BY <1>14, RowType DEF Crash, VerifierLocations
  <2>2. PlanInv'
    BY <1>14 DEF Crash, PlanInv
  <2> QED
    BY <1>14, <2>1, <2>2 DEF Crash, histVars, countVars, TypeOK
<1> QED
  BY <1>0, <1>1, <1>2, <1>3, <1>4, <1>5, <1>6, <1>7, <1>8, <1>9, <1>10, <1>11, <1>12, <1>13,
     <1>14, AppliedRows
  DEF Next, Verification, ActivateSubscription

\* Types, and that only plans with a duration and a quota are activated.
LEMMA InvHolds == Spec => []Inv
<1>1. Init => Inv
  BY RowType DEF Init, Inv, TypeOK, PlanInv, TxStates, VerifierLocations
<1> QED
  BY <1>1, TypeStep, PTL DEF Spec

\* For any number of references and verifications: rows, snapshots and counts keep their
\* types, and the plan and tier of a row are ones getTier knows.
THEOREM TypeCorrect == Spec => []TypeOK
<1>1. Inv => TypeOK
  BY DEF Inv
<1> QED
  BY <1>1, InvHolds, PTL
-----------------------------------------------------------------------------
(***************************************************************************)
(* What a step does to the row.  Either a verification commits one of the  *)
(* four statements, or the row and the counts stay and a snapshot is at    *)
(* most taken or dropped.                                                  *)
(***************************************************************************)
Applied(v) ==
    /\ vpc[v] = "apply" /\ Plan(v) \in Fulfilled
    /\ \/ InsertRow(v) /\ vold[v] = NoSub
       \/ Upgrade(v) \/ QueueDowngrade(v) \/ Renew(v)

Quiet ==
    /\ UNCHANGED <<sub, activations, bought>>
    /\ now' >= now
    /\ \A w \in Verifiers : \/ vold'[w] = vold[w] /\ vnow'[w] = vnow[w]
                            \/ vold'[w] = NoSub /\ vnow'[w] = 0
                            \/ vold'[w] = sub /\ vnow'[w] = now

\* An answer without a commit is quiet.
LEMMA AnswerQuiet ==
    ASSUME Inv, NEW v \in Verifiers, Answer(v), UNCHANGED <<sub, activations, bought, now>>
    PROVE  Quiet
  BY DEF Inv, TypeOK, Answer, Quiet

\* A step commits an activation or is quiet.
LEMMA StepKinds ==
    ASSUME Inv, [Next]_vars
    PROVE  Quiet \/ \E v \in Verifiers : Applied(v)
<1> USE DEF Inv
<1>n. now \in Nat
  BY DEF TypeOK
<1>a. ASSUME UNCHANGED <<sub, activations, bought, vold, vnow>>, now' >= now PROVE Quiet
  BY <1>a DEF Quiet
<1>1. CASE UNCHANGED vars
  BY <1>1, <1>a, <1>n DEF vars, verVars, histVars, countVars
<1>2. CASE \E f \in Refs : CreateSubscriptionPayment(f) \/ Send(f)
  BY <1>2, <1>a, <1>n DEF CreateSubscriptionPayment, Send, verVars, histVars, countVars
<1>3. CASE \E f \in Refs, i \in 1 .. MaxTxs, s \in {"final", "failed"} : Settle(f, i, s)
  BY <1>3, <1>a, <1>n DEF Settle, verVars, histVars, countVars
<1>4. CASE \E v \in Verifiers, f \in Refs : VerifyPayment(v, f)
  BY <1>4, <1>a, <1>n DEF VerifyPayment, histVars, countVars
<1>5. ASSUME NEW v \in Verifiers, FindSignature(v) PROVE Quiet
  <2>1. UNCHANGED <<sub, activations, bought, now>>
    BY <1>5 DEF FindSignature, histVars, countVars
  <2>2. Answer(v) \/ UNCHANGED <<vold, vnow>>
    BY <1>5 DEF FindSignature
  <2> QED
    BY <1>a, <1>n, <2>1, <2>2, AnswerQuiet
<1>6. ASSUME NEW v \in Verifiers, CheckTransaction(v) PROVE Quiet
  <2>1. UNCHANGED <<sub, activations, bought, now>>
    BY <1>6 DEF CheckTransaction, histVars, countVars
  <2>2. Answer(v) \/ UNCHANGED <<vold, vnow>>
    BY <1>6 DEF CheckTransaction
  <2> QED
    BY <1>a, <1>n, <2>1, <2>2, AnswerQuiet
<1>7. ASSUME NEW v \in Verifiers, UpdateStatus(v) PROVE Quiet
  <2>1. UNCHANGED <<sub, activations, bought, now>>
    BY <1>7 DEF UpdateStatus, countVars
  <2>2. Answer(v) \/ UNCHANGED <<vold, vnow>>
    BY <1>7 DEF UpdateStatus
  <2> QED
    BY <1>a, <1>n, <2>1, <2>2, AnswerQuiet
<1>8. ASSUME NEW v \in Verifiers, ActivationFails(v) \/ ResetUsage(v) PROVE Quiet
  <2>1. UNCHANGED <<sub, activations, bought, now>> /\ Answer(v)
    BY <1>8 DEF ActivationFails, ResetUsage, countVars
  <2> QED
    BY <2>1, AnswerQuiet
<1>9. ASSUME NEW v \in Verifiers, FetchSubscription(v) PROVE Quiet
  <2>1. /\ UNCHANGED <<sub, activations, bought, now>>
        /\ vold' = [vold EXCEPT ![v] = sub] /\ vnow' = [vnow EXCEPT ![v] = now]
    BY <1>9 DEF FetchSubscription, histVars, countVars
  <2> QED
    BY <1>n, <2>1 DEF Quiet, TypeOK
<1>10. ASSUME NEW v \in Verifiers, Upgrade(v) \/ QueueDowngrade(v) \/ Renew(v)
       PROVE  Applied(v)
  BY <1>10 DEF Applied, Upgrade, QueueDowngrade, Renew, PlanInv
<1>11. ASSUME NEW v \in Verifiers, NewSubscription(v) PROVE Quiet \/ Applied(v)
  <2>1. CASE InsertRow(v)
    BY <1>11, <2>1 DEF NewSubscription, Applied, PlanInv
  <2>2. CASE ~InsertRow(v)
    <3>1. UNCHANGED <<sub, activations, bought, now>> /\ Answer(v)
      BY <1>11, <2>2 DEF NewSubscription, countVars
    <3> QED
      BY <3>1, AnswerQuiet
  <2> QED
    BY <2>1, <2>2
<1>12. CASE Scan \/ Tick
  <2>1. UNCHANGED <<sub, activations, bought, vold, vnow>> /\ now' >= now
    BY <1>12, <1>n DEF Scan, Tick, verVars, histVars, countVars
  <2> QED
    BY <1>a, <2>1
<1>13. CASE Crash
  BY <1>13, <1>n DEF Crash, histVars, countVars, Quiet
<1> QED
  BY <1>1, <1>2, <1>3, <1>4, <1>5, <1>6, <1>7, <1>8, <1>9, <1>10, <1>11, <1>12, <1>13
  DEF Next, Verification, ActivateSubscription

\* The fields a committed statement leaves, by branch.
LEMMA AppliedFields ==
    ASSUME Inv, NEW v \in Verifiers, Applied(v)
    PROVE  \/ /\ sub = NoSub
              /\ sub'.tier = getTier(Plan(v)) /\ sub'.limit = PlanQuota[Plan(v)]
              /\ sub'.expires = vnow[v] + Days[Plan(v)]
           \/ /\ IsUpgrade(v)
              /\ sub'.tier = getTier(Plan(v))
              /\ sub'.limit = PlanQuota[Plan(v)] + Minus(vold[v].limit, vold[v].used)
              /\ sub'.expires = vnow[v] + Days[Plan(v)]
           \/ /\ IsDowngrade(v)
              /\ sub'.tier = sub.tier /\ sub'.limit = sub.limit /\ sub'.expires = sub.expires
           \/ /\ vold[v] # NoSub /\ ~IsUpgrade(v) /\ ~IsDowngrade(v)
              /\ sub'.tier = getTier(Plan(v)) /\ sub'.limit = PlanQuota[Plan(v)]
              /\ sub'.expires = Days[Plan(v)] +
                                  (IF Active(sub, vnow[v]) THEN sub.expires ELSE vnow[v])
<1> USE DEF Inv
<1>1. sub \in Rows
  BY DEF TypeOK
<1>2. CASE InsertRow(v)
  BY <1>2 DEF InsertRow, NoSub
<1>3. CASE Upgrade(v)
  BY <1>1, <1>3 DEF Upgrade, Rows
<1>4. CASE QueueDowngrade(v)
  BY <1>1, <1>4 DEF QueueDowngrade, Rows
<1>5. CASE Renew(v)
  BY <1>1, <1>5 DEF Renew, Rows
<1> QED
  BY <1>2, <1>3, <1>4, <1>5 DEF Applied

\* What every commit does besides the row.
LEMMA AppliedFrame ==
    ASSUME Inv, NEW v \in Verifiers, Applied(v)
    PROVE  /\ activations' = activations + 1
           /\ bought' = bought + PlanQuota[Plan(v)]
           /\ now' = now
           /\ vpc'[v] # "apply"
           /\ \A w \in Verifiers : \/ vold'[w] = vold[w] /\ vnow'[w] = vnow[w]
                                   \/ vold'[w] = NoSub /\ vnow'[w] = 0
<1> USE DEF Inv
<1>1. Commit(v)
  BY DEF Applied, InsertRow, Upgrade, QueueDowngrade, Renew
<1>2. /\ activations' = activations + 1
      /\ bought' = bought + PlanQuota[Plan(v)]
      /\ now' = now
  BY <1>1 DEF Commit
<1>3. CASE Goto(v, "reset") /\ UNCHANGED <<vref, vtx, vold, vnow>>
  BY <1>2, <1>3 DEF Goto, TypeOK
<1>4. CASE Answer(v)
  BY <1>2, <1>4 DEF Answer, Goto, TypeOK
<1> QED
  BY <1>1, <1>2, <1>3, <1>4 DEF Commit
-----------------------------------------------------------------------------
(***************************************************************************)
(* Quota.  The carry-over comes from a snapshot, so the snapshots' limits  *)
(* are bounded as the row's is.                                            *)
(***************************************************************************)
QuotaInv == sub.limit <= bought /\ \A v \in Verifiers : vold[v].limit <= bought

\* QuotaInv is inductive.
LEMMA QuotaStep == Inv /\ QuotaInv /\ [Next]_vars => QuotaInv'
<1> SUFFICES ASSUME Inv, QuotaInv, [Next]_vars PROVE QuotaInv'
  OBVIOUS
<1>t. /\ bought \in Nat /\ sub.limit \in Nat /\ NoSub.limit = 0
      /\ \A v \in Verifiers : vold[v].limit \in Nat /\ vold[v].used \in Nat
  BY DEF Inv, TypeOK, Rows, NoSub
<1>1. CASE Quiet
  BY <1>t, <1>1 DEF Quiet, QuotaInv
<1>2. ASSUME NEW v \in Verifiers, Applied(v) PROVE QuotaInv'
  <2>1. PlanQuota[Plan(v)] \in Nat
    BY <1>2, QuotaAssumption DEF Applied
  <2>2. bought' = bought + PlanQuota[Plan(v)]
    BY <1>2, AppliedFrame
  <2>3. /\ Minus(vold[v].limit, vold[v].used) \in Nat
        /\ Minus(vold[v].limit, vold[v].used) <= bought
    BY <1>t DEF Minus, QuotaInv
  <2>4. sub'.limit <= bought'
    <3>1. sub'.limit \in {PlanQuota[Plan(v)], sub.limit,
                          PlanQuota[Plan(v)] + Minus(vold[v].limit, vold[v].used)}
      BY <1>2, AppliedFields
    <3> QED
      BY <1>t, <2>1, <2>2, <2>3, <3>1 DEF QuotaInv
  <2>5. \A w \in Verifiers : vold'[w].limit <= bought'
    <3>1. \A w \in Verifiers : vold'[w] = vold[w] \/ vold'[w] = NoSub
      BY <1>2, AppliedFrame
    <3> QED
      BY <1>t, <2>1, <2>2, <3>1 DEF QuotaInv
  <2> QED
    BY <2>4, <2>5 DEF QuotaInv
<1> QED
  BY <1>1, <1>2, StepKinds

\* Whatever plans a user buys and however the verifications overlap, fail or repeat, the
\* quota of the row was bought: carry-overs from stale snapshots count nothing twice.
THEOREM QuotaSafe == Spec => []QuotaWasBought
<1>1. Init => QuotaInv
  BY DEF Init, QuotaInv, NoSub
<1>2. QuotaInv => QuotaWasBought
  BY DEF QuotaInv, QuotaWasBought
<1> QED
  BY <1>1, <1>2, QuotaStep, InvHolds, PTL DEF Spec
-----------------------------------------------------------------------------
(***************************************************************************)
(* The carry-over.  Scans count in the key usage:user, and the column      *)
(* current_usage that an upgrade subtracts is zero in every row and        *)
(* snapshot.                                                               *)
(***************************************************************************)
UnusedInv == sub.used = 0 /\ \A v \in Verifiers : vold[v].used = 0

\* UnusedInv is inductive.
LEMMA UnusedStep == Inv /\ UnusedInv /\ [Next]_vars => UnusedInv'
<1> SUFFICES ASSUME Inv, UnusedInv, [Next]_vars PROVE UnusedInv'
  OBVIOUS
<1>t. sub \in Rows /\ NoSub.used = 0
  BY DEF Inv, TypeOK, NoSub
<1>1. CASE Quiet
  BY <1>t, <1>1 DEF Quiet, UnusedInv
<1>2. ASSUME NEW v \in Verifiers, Applied(v) PROVE UnusedInv'
  <2>1. sub'.used = 0
    BY <1>2, <1>t DEF Applied, InsertRow, Upgrade, QueueDowngrade, Renew, UnusedInv, Rows,
                      NoSub
  <2>2. \A w \in Verifiers : vold'[w].used = 0
    <3>1. \A w \in Verifiers : vold'[w] = vold[w] \/ vold'[w] = NoSub
      BY <1>2, AppliedFrame
    <3> QED
      BY <1>t, <3>1 DEF UnusedInv
  <2> QED
    BY <2>1, <2>2 DEF UnusedInv
<1> QED
  BY <1>1, <1>2, StepKinds

\* "New Plan Quota + Leftover" carries over the whole quota of the row an upgrade read,
\* however much of it was used.
CarriesWholeQuota == [][\A v \in Verifiers : Upgrade(v) => sub'.carry = vold[v].limit]_vars

\* Every upgrade carries over all it found, for all plans, quotas and interleavings.
THEOREM CarryOverIgnoresUsage == Spec => CarriesWholeQuota
<1>1. Init => UnusedInv
  BY DEF Init, UnusedInv, NoSub
<1>2. ASSUME Inv, UnusedInv, NEW v \in Verifiers, Upgrade(v)
      PROVE  sub'.carry = vold[v].limit
  <2>1. sub \in Rows /\ vold[v].limit \in Nat /\ vold[v].used = 0
    BY <1>2 DEF Inv, TypeOK, UnusedInv, Rows
  <2>2. sub'.carry = Minus(vold[v].limit, vold[v].used)
    BY <1>2, <2>1 DEF Upgrade, Rows
  <2> QED
    BY <2>1, <2>2 DEF Minus
<1>3. Inv /\ UnusedInv /\ [Next]_vars
        => [\A v \in Verifiers : Upgrade(v) => sub'.carry = vold[v].limit]_vars
  BY <1>2
<1> QED
  BY <1>1, <1>3, UnusedStep, InvHolds, PTL DEF Spec, CarriesWholeQuota
-----------------------------------------------------------------------------
(***************************************************************************)
(* Paid time, for a user of one plan p: every row and snapshot has p's     *)
(* tier, so that no branch but insert and renew is ever taken.             *)
(***************************************************************************)
TimeInv(p) ==
    /\ sub.expires >= activations * Days[p]
    /\ sub # NoSub => sub.tier = getTier(p)
    /\ \A v \in Verifiers : vold[v] # NoSub => vold[v].tier = getTier(p)

\* For every plan, any number of references and concurrent verifications: no committed
\* renewal is lost, although the row is read without a lock.
THEOREM PaidTimeSafe ==
    ASSUME NEW p \in Fulfilled, \A f \in Refs : PlanOf[f] = p
    PROVE  Spec => []NoPaidTimeLost
<1>d. Days[p] \in Nat \ {0}
  BY DaysAssumption
<1>1. Init => TimeInv(p)
  BY <1>d DEF Init, TimeInv, NoSub
<1>2. Inv /\ TimeInv(p) /\ [Next]_vars => TimeInv(p)'
  <2> SUFFICES ASSUME Inv, TimeInv(p), [Next]_vars PROVE TimeInv(p)'
    OBVIOUS
  <2>t. /\ activations \in Nat /\ sub.expires \in Nat
        /\ \A v \in Verifiers : vnow[v] \in Nat /\ Plan(v) = p
    BY DEF Inv, TypeOK, Rows, Plan
  <2>1. CASE Quiet
    BY <2>1 DEF Quiet, TimeInv
  <2>2. ASSUME NEW v \in Verifiers, Applied(v) PROVE TimeInv(p)'
    <3>1. /\ activations' = activations + 1
          /\ \A w \in Verifiers : vold'[w] = vold[w] \/ vold'[w] = NoSub
      BY <2>2, AppliedFrame
    <3>2. ~IsUpgrade(v) /\ ~IsDowngrade(v)
      <4>1. CASE vold[v] = NoSub
        BY <4>1, <2>t DEF IsUpgrade, IsDowngrade, Active, NoSub
      <4>2. CASE vold[v] # NoSub
        <5>1. vold[v].tier = getTier(p) /\ getTier(p) \in Nat
          BY <4>2, TierType DEF TimeInv, Plans
        <5> QED
          BY <5>1, <2>t DEF IsUpgrade, IsDowngrade
      <4> QED
        BY <4>1, <4>2
    <3>3. sub'.tier = getTier(p)
      BY <2>2, <2>t, <3>2, AppliedFields
    <3>4. sub'.expires >= sub.expires + Days[p]
      <4>1. CASE /\ sub = NoSub
                 /\ sub'.expires = vnow[v] + Days[p]
        BY <1>d, <2>t, <4>1 DEF NoSub
      <4>2. CASE sub'.expires = Days[p] +
                                  (IF Active(sub, vnow[v]) THEN sub.expires ELSE vnow[v])
        BY <1>d, <2>t, <4>2 DEF Active
      <4> QED
        BY <2>2, <2>t, <3>2, <4>1, <4>2, AppliedFields
    <3>5. (activations + 1) * Days[p] = activations * Days[p] + Days[p]
      BY <1>d, <2>t
    <3>6. sub'.expires >= activations' * Days[p]
      <4>1. sub' \in Rows
        BY TypeStep DEF Inv, TypeOK
      <4>2. sub'.expires \in Nat
        BY <4>1 DEF Rows
      <4>3. activations * Days[p] \in Nat
        BY <1>d, <2>t
      <4> QED
        BY <1>d, <2>t, <3>1, <3>4, <3>5, <4>2, <4>3 DEF TimeInv
    <3> QED
      BY <3>1, <3>3, <3>6 DEF TimeInv
  <2> QED
    BY <2>1, <2>2, StepKinds
<1>3. TimeInv(p) => NoPaidTimeLost
  BY DEF TimeInv, NoPaidTimeLost
<1> QED
  BY <1>1, <1>2, <1>3, InvHolds, PTL DEF Spec
-----------------------------------------------------------------------------
(***************************************************************************)
(* Tier and paid time.  A transaction's now() is never ahead of the clock, *)
(* so a row active now was active in the snapshot.                         *)
(***************************************************************************)
NowInv == \A v \in Verifiers : vnow[v] <= now

\* NowInv is inductive: time only advances.
LEMMA NowStep == Inv /\ NowInv /\ [Next]_vars => NowInv'
<1> SUFFICES ASSUME Inv, NowInv, [Next]_vars PROVE NowInv'
  OBVIOUS
<1>1. now \in Nat /\ now' \in Nat /\ \A v \in Verifiers : vnow[v] \in Nat
  BY TypeStep DEF Inv, TypeOK
<1>2. CASE Quiet
  BY <1>1, <1>2 DEF Quiet, NowInv
<1>3. ASSUME NEW v \in Verifiers, Applied(v) PROVE NowInv'
  BY <1>1, <1>3, AppliedFrame DEF NowInv
<1> QED
  BY <1>2, <1>3, StepKinds

\* A commit that saw the row as it is takes no tier away, and shortens paid time only for
\* an upgrade.
LEMMA ProtectedStep ==
    ASSUME Inv, NowInv, [Next]_vars, ~Overtaken
    PROVE  ~TierDrop /\ (sub'.expires < sub.expires => sub'.tier > sub.tier)
<1> USE DEF Inv
<1>t. /\ now \in Nat /\ sub.tier \in Nat /\ sub.expires \in Nat
      /\ \A v \in Verifiers : vnow[v] \in Nat
  BY DEF TypeOK, Rows
<1>1. CASE Quiet
  BY <1>1, <1>t DEF Quiet, TierDrop
<1>2. ASSUME NEW v \in Verifiers, Applied(v)
      PROVE  ~TierDrop /\ (sub'.expires < sub.expires => sub'.tier > sub.tier)
  <2>1. vold[v] = sub
    BY <1>2, AppliedFrame DEF Applied, Overtaken
  <2>2. /\ getTier(Plan(v)) \in Nat /\ Days[Plan(v)] \in Nat
        /\ Plan(v) \in Fulfilled
    BY <1>2, TierType, DaysAssumption DEF Applied, Plans
  <2>3. vnow[v] <= now
    BY DEF NowInv
  <2>4. CASE /\ sub = NoSub
             /\ sub'.tier = getTier(Plan(v))
             /\ sub'.expires = vnow[v] + Days[Plan(v)]
    BY <1>t, <2>2, <2>4 DEF TierDrop, NoSub
  <2>5. CASE IsUpgrade(v) /\ sub'.tier = getTier(Plan(v))
    BY <1>t, <2>1, <2>2, <2>5 DEF TierDrop, IsUpgrade
  <2>6. CASE sub'.tier = sub.tier /\ sub'.expires = sub.expires
    BY <1>t, <2>6 DEF TierDrop
  <2>7. CASE /\ ~IsDowngrade(v)
             /\ sub'.tier = getTier(Plan(v))
             /\ sub'.expires = Days[Plan(v)] +
                                 (IF Active(sub, vnow[v]) THEN sub.expires ELSE vnow[v])
    <3>1. sub'.expires >= sub.expires
      BY <1>t, <2>2, <2>7 DEF Active
    <3>2. ~TierDrop
      BY <1>t, <2>1, <2>2, <2>3, <2>7 DEF TierDrop, IsDowngrade, Active
    <3>3. sub'.expires \in Nat
      BY <1>t, <2>2, <2>7
    <3> QED
      BY <1>t, <3>1, <3>2, <3>3
  <2> QED
    BY <1>2, <2>4, <2>5, <2>6, <2>7, AppliedFields
<1> QED
  BY <1>1, <1>2, StepKinds

\* NowInv holds of every behaviour.
LEMMA NowHolds == Spec => []NowInv
<1>1. Init => NowInv
  BY DEF Init, NowInv
<1> QED
  BY <1>1, NowStep, InvHolds, PTL DEF Spec

\* Unless two activations overlap, an unexpired subscription keeps its tier, whatever is
\* bought, verified again or left half done.
THEOREM TierSafe == Spec => TierProtectedAlone
<1>1. Inv /\ NowInv /\ [Next]_vars => [TierDrop => Overtaken]_vars
  BY ProtectedStep
<1> QED
  BY <1>1, NowHolds, InvHolds, PTL DEF Spec, TierProtectedAlone

\* And unless two activations overlap, only an upgrade shortens the time paid for: every
\* other branch of ActivateSubscription extends the expiry or leaves it.
THEOREM PaidTimeKept == Spec => PaidTimeProtected
<1>1. Inv /\ NowInv /\ [Next]_vars
        => [sub'.expires < sub.expires => sub'.tier > sub.tier \/ Overtaken]_vars
  BY ProtectedStep
<1> QED
  BY <1>1, NowHolds, InvHolds, PTL DEF Spec, PaidTimeProtected
-----------------------------------------------------------------------------
(***************************************************************************)
(* Settlement.  A verification past the chain has found a finalized        *)
(* transaction, and transactions are never unmade.                         *)
(***************************************************************************)
Past == {"update", "fetch", "apply", "reset"}

Verified(v) ==
    /\ vpc[v] = "transaction" => vtx[v] \in DOMAIN txs[vref[v]]
    /\ vpc[v] \in Past => Settled(vref[v])
    /\ vpc[v] = "reset" => vref[v] \in activated

\* What is marked, activated or accepted is settled, and what is accepted was activated,
\* but for Ultra and the plans nobody fulfils.
OnlySettledIsFulfilled ==
    \A f \in Refs : pay[f] = "success" \/ f \in activated \cup accepted => Settled(f)

AcceptedWasActivated ==
    \A f \in accepted : PlanOf[f] \in Fulfilled \ {"SUB_ULTRA_PRO"} => f \in activated

SettledInv ==
    /\ \A v \in Verifiers : Verified(v)
    /\ OnlySettledIsFulfilled
    /\ AcceptedWasActivated

\* The chain only grows, and what is final stays final.
LEMMA ChainGrows ==
    ASSUME Inv, NEW g \in Refs, NEW f \in Refs,
           \/ Send(g)
           \/ \E i \in 1 .. MaxTxs, s \in {"final", "failed"} : Settle(g, i, s)
    PROVE  DOMAIN txs[f] \subseteq DOMAIN txs'[f] /\ (Settled(f) => Settled(f)')
<1>t. txs \in [Refs -> Seq(TxStates)] /\ txs[g] \in Seq(TxStates)
  BY DEF Inv, TypeOK
<1>1. CASE Send(g)
  <2>1. txs' = [txs EXCEPT ![g] = Append(@, "seen")]
    BY <1>1 DEF Send
  <2>2. /\ DOMAIN txs[g] \subseteq DOMAIN Append(txs[g], "seen")
        /\ \A i \in DOMAIN txs[g] : Append(txs[g], "seen")[i] = txs[g][i]
    BY <1>t DEF TxStates
  <2> QED
    BY <1>t, <2>1, <2>2 DEF Settled
<1>2. ASSUME NEW i \in 1 .. MaxTxs, NEW s \in {"final", "failed"}, Settle(g, i, s)
      PROVE  DOMAIN txs[f] \subseteq DOMAIN txs'[f] /\ (Settled(f) => Settled(f)')
  <2>1. txs' = [txs EXCEPT ![g][i] = s] /\ txs[g][i] # "final"
    BY <1>2 DEF Settle
  <2> QED
    BY <1>t, <2>1 DEF Settled
<1> QED
  BY <1>1, <1>2

\* The frame of SettledInv: a step of verifier v that leaves the chain alone.
LEMMA SettledFrame ==
    ASSUME Inv, SettledInv, NEW v \in Verifiers, txs' = txs,
           \A w \in Verifiers \ {v} : UNCHANGED <<vpc[w], vref[w], vtx[w]>>,
           activated \subseteq activated', Verified(v)',
           \A f \in Refs : /\ pay'[f] = "success" => pay[f] = "success" \/ Settled(f)
                           /\ f \in activated' => f \in activated \/ Settled(f)
                           /\ f \in accepted' =>
                                \/ f \in accepted
                                \/ /\ Settled(f)
                                   /\ \/ f \in activated'
                                      \/ PlanOf[f] \notin Fulfilled \ {"SUB_ULTRA_PRO"},
           accepted' \subseteq Refs
    PROVE  SettledInv'
<1>1. \A f \in Refs : Settled(f)' <=> Settled(f)
  BY DEF Settled
<1>2. \A w \in Verifiers : Verified(w)'
  BY <1>1 DEF SettledInv, Verified, Inv, TypeOK
<1>3. OnlySettledIsFulfilled'
  BY <1>1 DEF SettledInv, OnlySettledIsFulfilled
<1>4. AcceptedWasActivated'
  BY DEF SettledInv, AcceptedWasActivated
<1> QED
  BY <1>2, <1>3, <1>4 DEF SettledInv

\* An answer keeps SettledInv if what it records is settled.
LEMMA AnswerSettled ==
    ASSUME Inv, SettledInv, NEW v \in Verifiers, Answer(v), txs' = txs,
           activated' = activated \/ activated' = activated \cup {vref[v]},
           accepted' = accepted \/ accepted' = accepted \cup {vref[v]},
           \A f \in Refs : pay'[f] = "success" => pay[f] = "success" \/ Settled(f),
           activated' # activated => Settled(vref[v]),
           accepted' # accepted =>
               /\ Settled(vref[v])
               /\ \/ vref[v] \in activated'
                  \/ PlanOf[vref[v]] \notin Fulfilled \ {"SUB_ULTRA_PRO"}
    PROVE  SettledInv'
<1>1. vref[v] \in Refs /\ accepted' \subseteq Refs
  BY DEF Inv, TypeOK
<1>2. \A w \in Verifiers \ {v} : UNCHANGED <<vpc[w], vref[w], vtx[w]>>
  BY DEF Answer, Goto, Inv, TypeOK
<1>3. Verified(v)'
  BY DEF Answer, Goto, Inv, TypeOK, Verified, Past
<1> QED
  BY <1>1, <1>2, <1>3, SettledFrame

\* SettledInv is inductive.
LEMMA SettledStep == Inv /\ SettledInv /\ [Next]_vars => SettledInv'
<1> SUFFICES ASSUME Inv, SettledInv, [Next]_vars PROVE SettledInv'
  OBVIOUS
<1>t. /\ vpc \in [Verifiers -> VerifierLocations] /\ vref \in [Verifiers -> Refs]
      /\ vtx \in [Verifiers -> Nat] /\ pay \in [Refs -> {"none", "pending", "success"}]
      /\ txs \in [Refs -> Seq(TxStates)] /\ accepted \subseteq Refs
  BY DEF Inv, TypeOK
<1>v. \A v \in Verifiers : Verified(v)
  BY DEF SettledInv
<1>a. ASSUME UNCHANGED <<vpc, vref, vtx, txs, activated, accepted>>,
             \A f \in Refs : pay'[f] = "success" => pay[f] = "success"
      PROVE  SettledInv'
  BY <1>a DEF SettledInv, Verified, OnlySettledIsFulfilled, AcceptedWasActivated, Settled
<1>0. CASE UNCHANGED vars
  BY <1>0, <1>a DEF vars, verVars, histVars, countVars
<1>1. ASSUME NEW f \in Refs, CreateSubscriptionPayment(f) PROVE SettledInv'
  <2>1. pay' = [pay EXCEPT ![f] = "pending"] \/ pay' = pay
    BY <1>1 DEF CreateSubscriptionPayment
  <2>2. UNCHANGED <<vpc, vref, vtx, txs, activated, accepted>>
    BY <1>1 DEF CreateSubscriptionPayment, verVars, histVars, countVars
  <2> QED
    BY <1>a, <1>t, <2>1, <2>2
<1>2. ASSUME NEW g \in Refs,
             \/ Send(g)
             \/ \E i \in 1 .. MaxTxs, s \in {"final", "failed"} : Settle(g, i, s)
      PROVE  SettledInv'
  <2>1. UNCHANGED <<vpc, vref, vtx, pay, activated, accepted>>
    BY <1>2 DEF Send, Settle, verVars, histVars, countVars
  <2>2. \A f \in Refs : DOMAIN txs[f] \subseteq DOMAIN txs'[f] /\ (Settled(f) => Settled(f)')
    BY <1>2, ChainGrows
  <2> QED
    BY <1>t, <2>1, <2>2
    DEF SettledInv, Verified, OnlySettledIsFulfilled, AcceptedWasActivated
<1>3. ASSUME NEW v \in Verifiers, NEW f \in Refs, VerifyPayment(v, f) PROVE SettledInv'
  <2>1. /\ vpc' = [vpc EXCEPT ![v] = "signature"] /\ vref' = [vref EXCEPT ![v] = f]
        /\ UNCHANGED <<vtx, txs, pay, activated, accepted>>
    BY <1>3 DEF VerifyPayment, Goto, histVars, countVars
  <2>2. /\ \A w \in Verifiers \ {v} : UNCHANGED <<vpc[w], vref[w], vtx[w]>>
        /\ Verified(v)'
    BY <1>t, <2>1 DEF Verified, Past
  <2> QED
    BY <1>t, <2>1, <2>2, SettledFrame
<1>4. ASSUME NEW v \in Verifiers, FindSignature(v) PROVE SettledInv'
  <2>1. UNCHANGED <<txs, pay, activated, accepted>>
    BY <1>4 DEF FindSignature, histVars, countVars
  <2>2. CASE Answer(v)
    BY <2>1, <2>2, AnswerSettled
  <2>3. CASE /\ txs[vref[v]] # <<>>
             /\ vtx' = [vtx EXCEPT ![v] = Len(txs[vref[v]])]
             /\ vpc' = [vpc EXCEPT ![v] = "transaction"] /\ vref' = vref
    <3>1. Len(txs[vref[v]]) \in DOMAIN txs[vref[v]]
      BY <1>t, <2>3
    <3>2. /\ \A w \in Verifiers \ {v} : UNCHANGED <<vpc[w], vref[w], vtx[w]>>
          /\ Verified(v)'
      BY <1>t, <2>1, <2>3, <3>1 DEF Verified, Past
    <3> QED
      BY <1>t, <2>1, <3>2, SettledFrame
  <2> QED
    BY <1>4, <2>2, <2>3 DEF FindSignature, Goto
<1>5. ASSUME NEW v \in Verifiers, CheckTransaction(v) PROVE SettledInv'
  <2>1. UNCHANGED <<txs, pay, activated, accepted>>
    BY <1>5 DEF CheckTransaction, histVars, countVars
  <2>2. CASE Answer(v)
    BY <2>1, <2>2, AnswerSettled
  <2>3. CASE /\ vpc[v] = "transaction" /\ txs[vref[v]][vtx[v]] = "final"
             /\ vpc' = [vpc EXCEPT ![v] = "update"] /\ UNCHANGED <<vref, vtx>>
    <3>1. Settled(vref[v])
      BY <1>v, <2>3 DEF Verified, Settled
    <3>2. /\ \A w \in Verifiers \ {v} : UNCHANGED <<vpc[w], vref[w], vtx[w]>>
          /\ Verified(v)'
      BY <1>t, <2>1, <2>3, <3>1 DEF Verified, Settled, Past
    <3> QED
      BY <1>t, <2>1, <3>2, SettledFrame
  <2> QED
    BY <1>5, <2>2, <2>3 DEF CheckTransaction, Goto
<1>6. ASSUME NEW v \in Verifiers, UpdateStatus(v) PROVE SettledInv'
  <2>1. /\ UNCHANGED <<txs, activated>> /\ vpc[v] = "update"
        /\ pay' = [pay EXCEPT ![vref[v]] = "success"] \/ pay' = pay
        /\ \/ accepted' = accepted
           \/ accepted' = accepted \cup {vref[v]} /\ PlanOf[vref[v]] \notin Fulfilled
    BY <1>6 DEF UpdateStatus, countVars
  <2>2. Settled(vref[v])
    BY <1>v, <2>1 DEF Verified, Past
  <2>3. \A f \in Refs : pay'[f] = "success" => pay[f] = "success" \/ Settled(f)
    BY <1>t, <2>1, <2>2
  <2>4. CASE Answer(v)
    BY <2>1, <2>2, <2>3, <2>4, AnswerSettled
  <2>5. CASE /\ vpc' = [vpc EXCEPT ![v] = "fetch"] /\ UNCHANGED <<vref, vtx, accepted>>
    <3>1. /\ \A w \in Verifiers \ {v} : UNCHANGED <<vpc[w], vref[w], vtx[w]>>
          /\ Verified(v)'
      BY <1>t, <2>1, <2>2, <2>5 DEF Verified, Settled, Past
    <3> QED
      BY <1>t, <2>1, <2>3, <2>5, <3>1, SettledFrame
  <2> QED
    BY <1>6, <2>4, <2>5 DEF UpdateStatus, Goto
<1>7. ASSUME NEW v \in Verifiers, Answer(v), vpc[v] \in Past,
             UNCHANGED <<txs, pay, activated>>,
             \/ accepted' = accepted
             \/ accepted' = accepted \cup {vref[v]} /\ PlanOf[vref[v]] = "SUB_ULTRA_PRO"
             \/ accepted' = accepted \cup {vref[v]} /\ vpc[v] = "reset"
      PROVE  SettledInv'
  <2>1. Settled(vref[v]) /\ (vpc[v] = "reset" => vref[v] \in activated)
    BY <1>v, <1>7 DEF Verified
  <2> QED
    BY <1>7, <2>1, AnswerSettled
<1>8. ASSUME NEW v \in Verifiers, ActivationFails(v) \/ ResetUsage(v) PROVE SettledInv'
  BY <1>7, <1>8 DEF ActivationFails, ResetUsage, countVars, Past
<1>9. ASSUME NEW v \in Verifiers, FetchSubscription(v) PROVE SettledInv'
  <2>1. /\ vpc[v] = "fetch" /\ vpc' = [vpc EXCEPT ![v] = "apply"]
        /\ UNCHANGED <<vref, vtx, txs, pay, activated, accepted>>
    BY <1>9 DEF FetchSubscription, Goto, histVars, countVars
  <2>2. Settled(vref[v])
    BY <1>v, <2>1 DEF Verified, Past
  <2>3. /\ \A w \in Verifiers \ {v} : UNCHANGED <<vpc[w], vref[w], vtx[w]>>
        /\ Verified(v)'
    BY <1>t, <2>1, <2>2 DEF Verified, Settled, Past
  <2> QED
    BY <1>t, <2>1, <2>3, SettledFrame
<1>10. ASSUME NEW v \in Verifiers, Applied(v) PROVE SettledInv'
  <2>1. Commit(v) /\ vpc[v] = "apply"
    BY <1>10 DEF Applied, InsertRow, Upgrade, QueueDowngrade, Renew
  <2>2. /\ UNCHANGED <<txs, pay>> /\ activated' = activated \cup {vref[v]}
        /\ accepted' = accepted \/ accepted' = accepted \cup {vref[v]}
    BY <2>1 DEF Commit
  <2>3. Settled(vref[v])
    BY <1>v, <2>1 DEF Verified, Past
  <2>4. CASE Answer(v)
    BY <2>2, <2>3, <2>4, AnswerSettled
  <2>5. CASE vpc' = [vpc EXCEPT ![v] = "reset"] /\ UNCHANGED <<vref, vtx, accepted>>
    <3>1. /\ \A w \in Verifiers \ {v} : UNCHANGED <<vpc[w], vref[w], vtx[w]>>
          /\ Verified(v)'
      BY <1>t, <2>2, <2>3, <2>5 DEF Verified, Settled, Past
    <3> QED
      BY <1>t, <2>2, <2>3, <2>5, <3>1, SettledFrame
  <2> QED
    BY <2>1, <2>4, <2>5 DEF Commit, Goto
<1>11. ASSUME NEW v \in Verifiers, NewSubscription(v) PROVE SettledInv'
  <2>1. CASE InsertRow(v)
    BY <1>10, <1>11, <2>1 DEF NewSubscription, Applied, Inv, PlanInv
  <2>2. CASE ~InsertRow(v)
    <3>1. /\ vpc[v] = "apply" /\ Answer(v) /\ UNCHANGED <<txs, pay, activated>>
          /\ \/ accepted' = accepted
             \/ accepted' = accepted \cup {vref[v]} /\ PlanOf[vref[v]] = "SUB_ULTRA_PRO"
      BY <1>11, <2>2 DEF NewSubscription, Plan, countVars
    <3> QED
      BY <1>7, <3>1 DEF Past
  <2> QED
    BY <2>1, <2>2
<1>12. ASSUME NEW v \in Verifiers, Upgrade(v) \/ QueueDowngrade(v) \/ Renew(v)
       PROVE  SettledInv'
  BY <1>10, <1>12 DEF Applied, Upgrade, QueueDowngrade, Renew, Inv, PlanInv
<1>13. CASE Scan \/ Tick
  BY <1>13, <1>a DEF Scan, Tick, verVars, histVars, countVars
<1>14. CASE Crash
  BY <1>14 DEF Crash, histVars, countVars, SettledInv, Verified, Past,
               OnlySettledIsFulfilled, AcceptedWasActivated, Settled
<1> QED
  BY <1>0, <1>1, <1>2, <1>3, <1>4, <1>5, <1>6, <1>8, <1>9, <1>11, <1>12, <1>13, <1>14
  DEF Next, Verification, ActivateSubscription

\* SettledInv holds, for any number of references, transactions and verifications.
LEMMA SettledHolds == Spec => []SettledInv
<1>1. Init => SettledInv
  BY DEF Init, SettledInv, Verified, Past, OnlySettledIsFulfilled, AcceptedWasActivated
<1> QED
  BY <1>1, SettledStep, InvHolds, PTL DEF Spec
-----------------------------------------------------------------------------
(***************************************************************************)
(* Payment.  An activation starts from a payment that is 'success', and no *)
(* reference is given out twice, so the payment stays that way.            *)
(***************************************************************************)
Paying == {"fetch", "apply", "reset"}

PaidInv ==
    /\ \A v \in Verifiers : vpc[v] # "idle" => vref[v] \in given
    /\ \A v \in Verifiers : vpc[v] \in Paying => pay[vref[v]] = "success"
    /\ \A f \in activated \cup accepted : f \in given /\ pay[f] = "success"

\* A step of a verification keeps PaidInv if what it goes on with, or records, is paid.
LEMMA PaidFrame ==
    ASSUME Inv, PaidInv, NEW v \in Verifiers, vpc[v] # "idle", given' = given, vref' = vref,
           pay' = pay \/ pay' = [pay EXCEPT ![vref[v]] = "success"],
           \A w \in Verifiers \ {v} : vpc'[w] = vpc[w],
           vpc'[v] \in Paying => pay'[vref[v]] = "success",
           \/ activated' \cup accepted' \subseteq activated \cup accepted
           \/ /\ activated' \cup accepted' \subseteq activated \cup accepted \cup {vref[v]}
              /\ pay'[vref[v]] = "success"
    PROVE  PaidInv'
<1>1. vref[v] \in given /\ \A f \in Refs : pay[f] = "success" => pay'[f] = "success"
  BY DEF PaidInv, Inv, TypeOK
<1>2. \A w \in Verifiers : vpc'[w] # "idle" => vref'[w] \in given'
  BY <1>1 DEF PaidInv
<1>3. \A w \in Verifiers : vpc'[w] \in Paying => pay'[vref'[w]] = "success"
  BY <1>1 DEF PaidInv, Inv, TypeOK
<1>4. \A f \in activated' \cup accepted' : f \in given' /\ pay'[f] = "success"
  BY <1>1 DEF PaidInv, Inv, TypeOK
<1> QED
  BY <1>2, <1>3, <1>4 DEF PaidInv

\* Each step of a verification keeps PaidInv.
LEMMA VerificationPaid ==
    ASSUME Inv, PaidInv, NEW v \in Verifiers, Verification(v)
    PROVE  PaidInv'
<1>t. /\ vpc \in [Verifiers -> VerifierLocations] /\ vref[v] \in Refs
      /\ pay \in [Refs -> {"none", "pending", "success"}]
      /\ vpc[v] \in Paying => pay[vref[v]] = "success"
  BY DEF Inv, TypeOK, PaidInv
<1>g. ASSUME NEW l, Goto(v, l)
      PROVE  vpc'[v] = l /\ \A w \in Verifiers \ {v} : vpc'[w] = vpc[w]
  BY <1>t, <1>g DEF Goto
<1> USE DEF Answer, Paying
<1>1. CASE FindSignature(v) \/ CheckTransaction(v)
  <2>1. /\ vpc[v] # "idle" /\ UNCHANGED <<given, vref, pay, activated, accepted>>
        /\ \E l \in {"idle", "transaction", "update"} : Goto(v, l)
    BY <1>1 DEF FindSignature, CheckTransaction, histVars, countVars
  <2> QED
    BY <1>g, <2>1, PaidFrame
<1>2. CASE UpdateStatus(v)
  <2>1. vpc[v] = "update" /\ UNCHANGED <<given, vref, activated>>
    BY <1>2 DEF UpdateStatus, countVars
  <2>2. CASE pay' = [pay EXCEPT ![vref[v]] = "success"]
    <3>1. pay'[vref[v]] = "success"
      BY <1>t, <2>2
    <3>2. /\ accepted' = accepted \/ accepted' = accepted \cup {vref[v]}
          /\ Goto(v, "fetch") \/ Goto(v, "idle")
      BY <1>2 DEF UpdateStatus
    <3> QED
      BY <1>g, <2>1, <2>2, <3>1, <3>2, PaidFrame
  <2>3. CASE pay' = pay /\ accepted' = accepted /\ Goto(v, "idle")
    BY <1>g, <2>1, <2>3, PaidFrame
  <2> QED
    BY <1>2, <2>2, <2>3 DEF UpdateStatus
<1>3. ASSUME vpc[v] \in Paying, UNCHANGED <<given, vref, pay>>, \E l : Goto(v, l),
             activated' = activated \/ activated' = activated \cup {vref[v]},
             accepted' = accepted \/ accepted' = accepted \cup {vref[v]}
      PROVE  PaidInv'
  <2>1. pay'[vref[v]] = "success" /\ vpc[v] # "idle"
    BY <1>t, <1>3
  <2>2. \A w \in Verifiers \ {v} : vpc'[w] = vpc[w]
    BY <1>g, <1>3
  <2>3. activated' \cup accepted' \subseteq activated \cup accepted \cup {vref[v]}
    BY <1>3
  <2> QED
    BY <1>3, <2>1, <2>2, <2>3, PaidFrame
<1>4. CASE ActivationFails(v) \/ ResetUsage(v) \/ FetchSubscription(v)
  BY <1>3, <1>4 DEF ActivationFails, ResetUsage, FetchSubscription, histVars, countVars
<1>5. ASSUME vpc[v] = "apply", Commit(v) PROVE PaidInv'
  BY <1>3, <1>5 DEF Commit
<1>6. CASE NewSubscription(v)
  <2>1. CASE InsertRow(v)
    BY <1>5, <1>6, <2>1 DEF NewSubscription, InsertRow
  <2>2. CASE ~InsertRow(v)
    BY <1>3, <1>6, <2>2 DEF NewSubscription, countVars
  <2> QED
    BY <2>1, <2>2
<1>7. CASE Upgrade(v) \/ QueueDowngrade(v) \/ Renew(v)
  BY <1>5, <1>7 DEF Upgrade, QueueDowngrade, Renew
<1> QED
  BY <1>1, <1>2, <1>4, <1>6, <1>7 DEF Verification, ActivateSubscription

\* PaidInv is inductive.
LEMMA PaidStep == Inv /\ PaidInv /\ [Next]_vars => PaidInv'
<1> SUFFICES ASSUME Inv, PaidInv, [Next]_vars PROVE PaidInv'
  OBVIOUS
<1>a. ASSUME UNCHANGED <<vpc, vref, given, pay, activated, accepted>> PROVE PaidInv'
  BY <1>a DEF PaidInv
<1>1. ASSUME NEW f \in Refs, CreateSubscriptionPayment(f) PROVE PaidInv'
  <2>1. /\ f \notin given /\ given' = given \cup {f}
        /\ UNCHANGED <<vpc, vref, activated, accepted>>
        /\ \A g \in Refs \ {f} : pay'[g] = pay[g]
    BY <1>1 DEF CreateSubscriptionPayment, verVars, histVars, countVars, Inv, TypeOK
  <2>2. \A v \in Verifiers : vpc[v] \in Paying => vref[v] \in given
    BY DEF PaidInv, Paying
  <2> QED
    BY <2>1, <2>2 DEF PaidInv, Inv, TypeOK
<1>2. ASSUME NEW v \in Verifiers, NEW f \in Refs, VerifyPayment(v, f) PROVE PaidInv'
  BY <1>2 DEF VerifyPayment, Goto, PaidInv, Paying, Inv, TypeOK, histVars, countVars
<1>3. ASSUME NEW f \in Refs,
             Send(f) \/ \E i \in 1 .. MaxTxs, s \in {"final", "failed"} : Settle(f, i, s)
      PROVE  PaidInv'
  BY <1>a, <1>3 DEF Send, Settle, verVars, histVars, countVars
<1>4. CASE Scan \/ Tick \/ UNCHANGED vars
  BY <1>a, <1>4 DEF Scan, Tick, vars, verVars, histVars, countVars
<1>5. CASE Crash
  BY <1>5 DEF Crash, PaidInv, Paying, histVars, countVars
<1> QED
  BY <1>1, <1>2, <1>3, <1>4, <1>5, VerificationPaid DEF Next

\* Nothing is fulfilled that was not paid, and nothing is paid that was not settled on
\* the chain; nothing but Ultra and the plans nobody fulfils is accepted without having
\* been activated.
THEOREM OrderSafe == Spec => []FulfilledInOrder
<1>1. Init => PaidInv
  BY DEF Init, PaidInv, Paying
<1>2. SettledInv /\ PaidInv => FulfilledInOrder
  BY DEF SettledInv, OnlySettledIsFulfilled, AcceptedWasActivated, PaidInv, FulfilledInOrder
<1> QED
  BY <1>1, <1>2, PaidStep, SettledHolds, InvHolds, PTL DEF Spec
-----------------------------------------------------------------------------
(***************************************************************************)
(* The seller implements Subscription.                                     *)
(***************************************************************************)
\* A committed statement leaves a row, its usage, and a reset to do unless its reply is
\* lost.
LEMMA AppliedCommits ==
    ASSUME Inv, NEW v \in Verifiers, Applied(v)
    PROVE  Subscribed!Next
<1> USE DEF Inv
<1>1. Commit(v) /\ vpc[v] = "apply" /\ Plan(v) # None
  BY DEF Applied, InsertRow, Upgrade, QueueDowngrade, Renew, Fulfilled, None
<1>2. usage' = usage
  BY <1>1 DEF Commit
<1>3. sub' # NoSub
  <2>1. sub \in Rows
    BY DEF TypeOK
  <2>2. sub'.plan = Plan(v) \/ sub'.pending = Plan(v)
    BY <2>1 DEF Applied, InsertRow, Upgrade, QueueDowngrade, Renew, Rows, NoSub
  <2> QED
    BY <1>1, <2>2 DEF NoSub
<1>4. Owing => Owing'
  <2>1. CASE Goto(v, "reset")
    BY <2>1 DEF Goto, TypeOK, Owing
  <2>2. CASE Answer(v)
    <3>1. vpc'[v] = "idle" /\ \A w \in Verifiers \ {v} : vpc'[w] = vpc[w]
      BY <2>2 DEF Answer, Goto, TypeOK
    <3> QED
      BY <1>1, <3>1 DEF Owing
  <2> QED
    BY <1>1, <2>1, <2>2 DEF Commit
<1>5. RowState' \in {"active", "lapsed"}
  BY <1>3 DEF RowState
<1>6. Subscribed!Commit("user")
  <2>1. [u \in {"user"} |-> RowState']
          = [[u \in {"user"} |-> RowState] EXCEPT !["user"] = RowState']
    OBVIOUS
  <2>2. (IF Owing' THEN {"user"} ELSE {})
          \in {IF Owing THEN {"user"} ELSE {}, (IF Owing THEN {"user"} ELSE {}) \cup {"user"}}
    BY <1>4
  <2> QED
    BY <1>2, <1>5, <2>1, <2>2 DEF Subscribed!Commit
<1> QED
  BY <1>6 DEF Subscribed!Next

\* Steps that are no commits, resets, uses or ticks do not show.
LEMMA SubscribedFrame ==
    ASSUME Inv, [Next]_vars
    PROVE  \/ UNCHANGED <<sub, now, usage, Owing>>
           \/ \E v \in Verifiers : Applied(v) \/ ResetUsage(v)
           \/ Scan \/ Tick \/ Crash
<1> USE DEF Inv
<1>1. ASSUME NEW v \in Verifiers, NEW l, Goto(v, l), l # "reset", vpc[v] # "reset"
      PROVE  Owing' = Owing
  <2>1. vpc'[v] = l /\ \A w \in Verifiers \ {v} : vpc'[w] = vpc[w]
    BY <1>1 DEF Goto, TypeOK
  <2> QED
    BY <1>1, <2>1 DEF Owing
<1>2. ASSUME NEW v \in Verifiers,
             FindSignature(v) \/ CheckTransaction(v) \/ UpdateStatus(v)
      PROVE  UNCHANGED <<sub, now, usage, Owing>>
  <2>1. /\ vpc[v] # "reset" /\ UNCHANGED <<sub, now, usage>>
        /\ \E l \in {"idle", "transaction", "update", "fetch"} : Goto(v, l)
    BY <1>2 DEF FindSignature, CheckTransaction, UpdateStatus, Answer
  <2> QED
    BY <1>1, <2>1
<1>3. ASSUME NEW v \in Verifiers, ActivationFails(v) \/ FetchSubscription(v)
      PROVE  UNCHANGED <<sub, now, usage, Owing>>
  <2>1. /\ vpc[v] # "reset" /\ UNCHANGED <<sub, now, usage>>
        /\ \E l \in {"idle", "apply"} : Goto(v, l)
    BY <1>3 DEF ActivationFails, FetchSubscription, Answer
  <2> QED
    BY <1>1, <2>1
<1>4. ASSUME NEW v \in Verifiers, NewSubscription(v), ~Applied(v)
      PROVE  UNCHANGED <<sub, now, usage, Owing>>
  <2>1. ~InsertRow(v)
    BY <1>4 DEF NewSubscription, Applied, PlanInv
  <2>2. vpc[v] # "reset" /\ UNCHANGED <<sub, now, usage>> /\ Goto(v, "idle")
    BY <1>4, <2>1 DEF NewSubscription, Answer
  <2> QED
    BY <1>1, <2>2
<1>5. ASSUME NEW v \in Verifiers, Upgrade(v) \/ QueueDowngrade(v) \/ Renew(v)
      PROVE  Applied(v)
  BY <1>5 DEF Applied, Upgrade, QueueDowngrade, Renew, PlanInv
<1>6. ASSUME NEW v \in Verifiers, NEW f \in Refs, VerifyPayment(v, f)
      PROVE  UNCHANGED <<sub, now, usage, Owing>>
  BY <1>1, <1>6 DEF VerifyPayment
<1>7. ASSUME NEW f \in Refs,
             CreateSubscriptionPayment(f) \/ Send(f)
               \/ \E i \in 1 .. MaxTxs, s \in {"final", "failed"} : Settle(f, i, s)
      PROVE  UNCHANGED <<sub, now, usage, Owing>>
  BY <1>7 DEF CreateSubscriptionPayment, Send, Settle, verVars, Owing
<1>8. CASE UNCHANGED vars
  BY <1>8 DEF vars, verVars, Owing
<1> QED
  BY <1>2, <1>3, <1>4, <1>5, <1>6, <1>7, <1>8 DEF Next, Verification, ActivateSubscription

\* Every step of the seller is one of Subscription.
LEMMA SubscribedStep == Inv /\ [Next]_vars => [Subscribed!Next]_(Subscribed!vars)
<1> SUFFICES ASSUME Inv, [Next]_vars PROVE [Subscribed!Next]_(Subscribed!vars)
  OBVIOUS
<1>t. now \in Nat /\ sub.expires \in Nat /\ usage \in Nat
  BY DEF Inv, TypeOK, Rows
<1>1. CASE UNCHANGED <<sub, now, usage, Owing>>
  <2>1. RowState' = RowState
    BY <1>1 DEF RowState, Active
  <2> QED
    BY <1>1, <2>1 DEF Subscribed!vars
<1>2. ASSUME NEW v \in Verifiers, ResetUsage(v) PROVE Subscribed!Next
  <2>1. Owing /\ Owing' \in BOOLEAN
    BY <1>2 DEF ResetUsage, Owing
  <2>2. RowState' = RowState
    BY <1>2 DEF ResetUsage, RowState, Active
  <2>3. CASE usage' = 0
    <3>1. Subscribed!Reset("user")
      BY <2>1, <2>2, <2>3 DEF Subscribed!Reset
    <3> QED
      BY <3>1 DEF Subscribed!Next
  <2>4. CASE usage' = usage
    BY <2>1, <2>2, <2>4 DEF Subscribed!Next, Subscribed!Forget
  <2> QED
    BY <1>2, <2>3, <2>4 DEF ResetUsage
<1>3. CASE Scan
  <2>1. RowState' = RowState /\ Owing' = Owing /\ usage' = usage + 1
    BY <1>3 DEF Scan, RowState, Active, verVars, Owing
  <2>2. RowState # "none"
    BY <1>3, <1>t DEF Scan, RowState, Active, NoSub
  <2>3. Subscribed!Use("user")
    BY <2>1, <2>2 DEF Subscribed!Use
  <2> QED
    BY <2>3 DEF Subscribed!Next
<1>4. CASE Tick
  <2>1. Owing' = Owing /\ usage' = usage /\ sub' = sub /\ now' = now + 1
    BY <1>4 DEF Tick, verVars, Owing
  <2>2. RowState' = RowState \/ (RowState = "active" /\ RowState' = "lapsed")
    BY <1>t, <2>1 DEF RowState, Active
  <2>3. CASE RowState' = RowState
    BY <2>1, <2>3 DEF Subscribed!vars
  <2>4. CASE RowState = "active" /\ RowState' = "lapsed"
    <3>1. Subscribed!Lapse("user")
      BY <2>1, <2>4 DEF Subscribed!Lapse
    <3> QED
      BY <3>1 DEF Subscribed!Next
  <2> QED
    BY <2>2, <2>3, <2>4
<1>5. CASE Crash
  <2>1. RowState' = RowState /\ usage' = usage /\ ~Owing'
    BY <1>5 DEF Crash, RowState, Active, Owing
  <2> QED
    BY <2>1 DEF Subscribed!Next, Subscribed!Forget
<1> QED
  BY <1>1, <1>2, <1>3, <1>4, <1>5, SubscribedFrame, AppliedCommits

\* The seller implements Subscription: a row stays, only a commit makes it active, and the
\* counter is cleared only after one, for any overlap of verifications and crashes.
THEOREM SubscriptionFollowed == Spec => FollowsSubscription
<1>1. Init => Subscribed!Init
  BY DEF Init, Subscribed!Init, RowState, Owing
<1> QED
  BY <1>1, SubscribedStep, InvHolds, PTL DEF Spec, FollowsSubscription, Subscribed!Spec
=============================================================================
