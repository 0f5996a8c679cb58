-------------------------- MODULE AccessGate_proofs --------------------------
(* Theorems about AccessGate, for every value of its constants. *)
EXTENDS AccessGate, FiniteSetTheorems, TLAPS

USE DEF vars, dbVars, freeVars, cacheVars, reqVars, bgVars, dashVars, histVars
-----------------------------------------------------------------------------
(***************************************************************************)
(* Type correctness: one lemma for the initial states, one for each group  *)
(* of actions, then the theorem.                                           *)
(***************************************************************************)
LEMMA InitType == Init => TypeOK
<1> SUFFICES ASSUME Init PROVE TypeOK
  OBVIOUS
<1>1. credits \in [Users -> Nat] /\ creditServed \in [Users -> Nat]
  BY NatAssumption DEF Init
<1>2. allowance \in [Users -> [Kinds -> Nat]]
  BY LimitAssumption DEF Init
<1>3. spent \in [Requests -> SUBSET Charges]
  BY DEF Init
<1>4. /\ freeUsed \in [Users -> [Kinds -> Nat]]
      /\ freeCnt \in [Users -> [Kinds -> Nat]]
      /\ freeGrants \in [Users -> [Kinds -> Nat]]
      /\ syncs \in [Users -> [Kinds -> Nat]]
  BY DEF Init
<1>5. sub \in [Users -> {"none", "active", "lapsed"}]
  BY DEF Init
<1>6. pc \in [Requests -> Locations] /\ kind \in [Requests -> GrantKinds]
  BY DEF Init, Locations, GrantKinds
<1>7. freeKey \in [Users -> [Kinds -> {"absent", "persistent", "expiring"}]]
  BY DEF Init
<1> QED
  BY <1>1, <1>2, <1>3, <1>4, <1>5, <1>6, <1>7 DEF Init, TypeOK

\* Charging adds one of the accounts.
LEMMA ChargeType ==
    ASSUME TypeOK, NEW r \in Requests, NEW c \in Charges, Charge(r, c)
    PROVE  spent' \in [Requests -> SUBSET Charges]
BY DEF Charge, TypeOK

\* CheckAccess preserves the types.
LEMMA CheckType ==
    ASSUME TypeOK, NEW r \in Requests,
           CacheHit(r) \/ CacheMiss(r) \/ CheckFree(r) \/ CheckSubscription(r)
             \/ CheckCredits(r)
    PROVE  TypeOK'
<1> USE DEF GoTo, Grant
<1>t. /\ Locations = {"idle", "cache", "free", "subCache", "subDB", "subFill", "limit",
                      "limitFill", "usage", "credit", "single", "bridge", "work", "commit",
                      "cacheSet", "served", "failed", "denied"}
      /\ GrantKinds = {"", "cache", "free", "subscription", "credit", "single_pay", "bridge"}
  BY DEF Locations, Checking, Granted, Answered, GrantKinds
<1>k. FreeKind(r) \in Kinds /\ user[r] \in Users /\ mint[r] \in Mints
  BY DEF TypeOK, FreeKind, KindOf, Kinds
<1>s. AfterSubscription(r) \in Locations
  BY <1>t DEF AfterSubscription
<1>1. CASE CacheHit(r)
  BY <1>1, <1>t DEF CacheHit, TypeOK
<1>2. CASE CacheMiss(r)
  BY <1>2, <1>t DEF CacheMiss, TypeOK
<1>i. ASSUME FreeIncr(user[r], FreeKind(r))
      PROVE  /\ freeCnt' \in [Users -> [Kinds -> Nat]]
             /\ freeKey' \in [Users -> [Kinds -> {"absent", "persistent", "expiring"}]]
  BY <1>i, <1>k DEF FreeIncr, TypeOK
<1>3. CASE FreeTake(r)
  <2>1. /\ syncs' \in [Users -> [Kinds -> Nat]]
        /\ freeGrants' \in [Users -> [Kinds -> Nat]]
    BY <1>3, <1>k DEF FreeTake, TypeOK
  <2>2. pc' \in [Requests -> Locations] /\ kind' \in [Requests -> GrantKinds]
    BY <1>3, <1>t DEF FreeTake, TypeOK
  <2> QED
    BY <1>3, <1>i, <2>1, <2>2, ChargeType DEF FreeTake, Charges, TypeOK
<1>4. CASE FreeReplyLost(r)
  BY <1>4, <1>t, <1>i, ChargeType DEF FreeReplyLost, Charges, TypeOK
<1>5. CASE FreeRefuse(r)
  BY <1>5, <1>t DEF FreeRefuse, TypeOK
<1>6. CASE SubCacheHit(r)
  BY <1>6, <1>t, <1>s DEF SubCacheHit, TypeOK
<1>7. CASE SubCacheMiss(r)
  BY <1>7, <1>t DEF SubCacheMiss, TypeOK
<1>8. CASE SubRead(r)
  BY <1>8, <1>t DEF SubRead, TypeOK
<1>9. CASE SubReadFails(r)
  BY <1>9, <1>s DEF SubReadFails, TypeOK
<1>10. CASE SubFill(r)
  BY <1>10, <1>t, <1>s, <1>k DEF SubFill, TypeOK
<1>11. CASE LimitCached(r)
  BY <1>11, <1>t DEF LimitCached, TypeOK
<1>15. CASE LimitRead(r)
  <2>1. \/ GoTo(r, "limitFill")
        \/ GoTo(r, AfterSubscription(r))
    BY <1>15 DEF LimitRead
  <2>2. pc' \in [Requests -> Locations]
    BY <2>1, <1>t, <1>s DEF TypeOK
  <2> QED
    BY <1>15, <2>2 DEF LimitRead, TypeOK
<1>12. CASE LimitFill(r)
  BY <1>12, <1>t, <1>k DEF LimitFill, TypeOK
<1>13. CASE UsageLeft(r)
  BY <1>13, <1>t DEF UsageLeft, TypeOK
<1>16. CASE UsageSpent(r)
  BY <1>16, <1>t, <1>s DEF UsageSpent, TypeOK
<1>14. CASE CheckCredits(r)
  <2>1. CASE CreditLeft(r)
    BY <2>1, <1>t DEF CreditLeft, TypeOK
  <2>2. CASE CreditSpent(r)
    BY <2>2, <1>t DEF CreditSpent, TypeOK
  <2>3. CASE SinglePaid(r)
    BY <2>3, <1>t DEF SinglePaid, TypeOK
  <2>4. CASE SingleUnpaid(r)
    BY <2>4, <1>t DEF SingleUnpaid, TypeOK
  <2>5. CASE BridgePaid(r)
    BY <2>5, <1>t DEF BridgePaid, TypeOK
  <2>6. CASE BridgeUnpaid(r)
    BY <2>6, <1>t DEF BridgeUnpaid, TypeOK
  <2> QED
    BY <1>14, <2>1, <2>2, <2>3, <2>4, <2>5, <2>6 DEF CheckCredits
<1> QED
  BY <1>1, <1>2, <1>3, <1>4, <1>5, <1>6, <1>7, <1>8, <1>9, <1>10, <1>11, <1>12, <1>13,
     <1>14, <1>15, <1>16 DEF CheckFree, CheckSubscription

\* So do the work and CommitUsage, whose deduction needs a credit.
LEMMA CommitType ==
    ASSUME TypeOK, NEW r \in Requests,
           WorkSucceeds(r) \/ WorkFails(r) \/ CommitUsage(r) \/ Finish(r)
    PROVE  TypeOK'
<1> USE DEF GoTo
<1>t. {"idle", "commit", "cacheSet", "served", "failed"} \subseteq Locations
  BY DEF Locations, Granted, Answered
<1>k. user[r] \in Users /\ mint[r] \in Mints /\ kind[r] \in GrantKinds
  BY DEF TypeOK
<1>1. CASE WorkSucceeds(r)
  <2>1. AfterWork(r) \in Locations
    BY <1>t DEF AfterWork
  <2>2. delivered' \subseteq Users \X Mints
    BY <1>1, <1>k DEF WorkSucceeds, TypeOK
  <2> QED
    BY <1>1, <2>1, <2>2 DEF WorkSucceeds, TypeOK
<1>2. CASE WorkFails(r)
  BY <1>2, <1>t DEF WorkFails, TypeOK
<1>3. CASE IncrementUsage(r)
  <2>1. usage' \in [Users -> Nat]
    <3>1. \/ usage' = [usage EXCEPT ![user[r]] = @ + 1]
          \/ usage' = usage
      BY <1>3 DEF IncrementUsage
    <3>2. usage \in [Users -> Nat]
      BY DEF TypeOK
    <3>3. CASE usage' = [usage EXCEPT ![user[r]] = @ + 1]
      BY <3>2, <3>3, <1>k
    <3> QED
      BY <3>1, <3>2, <3>3
  <2>2. spent' \in [Requests -> SUBSET Charges]
    BY <1>3, ChargeType DEF IncrementUsage, Charges, TypeOK
  <2>3. /\ pc' \in [Requests -> Locations]
        /\ UNCHANGED <<dbVars, verified, freeVars, cacheVars, user, mint, api, kind, seen,
                       bgVars, dashVars, freeGrants, allowance, creditServed, delivered>>
    BY <1>3, <1>t DEF IncrementUsage, TypeOK
  <2> QED
    BY <2>1, <2>2, <2>3 DEF TypeOK
<1>4. CASE DeductCredit(r)
  <2>1. credits' \in [Users -> Nat] /\ creditServed' \in [Users -> Nat]
    <3>1. \/ credits[user[r]] > 0 /\ credits' = [credits EXCEPT ![user[r]] = @ - 1]
          \/ credits' = credits
      BY <1>4 DEF DeductCredit
    <3>2. creditServed' = [creditServed EXCEPT ![user[r]] = @ + 1]
      BY <1>4 DEF DeductCredit
    <3>3. credits \in [Users -> Nat] /\ creditServed \in [Users -> Nat]
      BY DEF TypeOK
    <3>4. credits' \in [Users -> Nat]
      BY <3>1, <3>3, <1>k
    <3> QED
      BY <3>2, <3>3, <3>4, <1>k
  <2>2. spent' \in [Requests -> SUBSET Charges]
    BY <1>4, ChargeType DEF DeductCredit, Charges, TypeOK
  <2>3. /\ pc' \in [Requests -> Locations]
        /\ UNCHANGED <<paid, sub, freeUsed, verified, freeVars, usage, cacheVars, user,
                       mint, api, kind, seen, bgVars, dashVars, freeGrants, allowance,
                       delivered>>
    BY <1>4, <1>t DEF DeductCredit, TypeOK
  <2> QED
    BY <2>1, <2>2, <2>3 DEF TypeOK
<1>5. CASE CacheAccess(r)
  BY <1>5, <1>t, <1>k DEF CacheAccess, TypeOK
<1>6. CASE Finish(r)
  BY <1>6, <1>t DEF Finish, GrantKinds, Charges, TypeOK
<1> QED
  BY <1>1, <1>2, <1>3, <1>4, <1>5, <1>6 DEF CommitUsage

\* The nested counters, which most background actions move by one.
LEMMA CounterUpdate ==
    ASSUME NEW f \in [Users -> [Kinds -> Nat]], NEW u \in Users, NEW k \in Kinds,
           NEW n \in Nat
    PROVE  [f EXCEPT ![u][k] = n] \in [Users -> [Kinds -> Nat]]
OBVIOUS

\* So does the loss of a counter.
LEMMA LoseCounterType ==
    ASSUME TypeOK, NEW u \in Users, NEW k \in Kinds,
           LoseCounter(u, k) \/ UNCHANGED allowance
    PROVE  allowance' \in [Users -> [Kinds -> Nat]]
<1>1. allowance \in [Users -> [Kinds -> Nat]] /\ FreeLimit[k] \in Nat
  BY LimitAssumption DEF TypeOK
<1>2. allowance[u][k] + FreeLimit[k] \in Nat
  BY <1>1
<1>3. CASE LoseCounter(u, k)
  BY <1>1, <1>2, <1>3, CounterUpdate DEF LoseCounter
<1> QED
  BY <1>1, <1>3

\* So do the persisting goroutine and an expiry.
LEMMA CounterType ==
    ASSUME TypeOK, NEW u \in Users, NEW k \in Kinds,
           SyncFreeUsage(u, k) \/ ExpireFree(u, k)
    PROVE  TypeOK'
<1>1. CASE SyncFreeUsage(u, k)
  <2>1. /\ freeUsed \in [Users -> [Kinds -> Nat]]
        /\ syncs \in [Users -> [Kinds -> Nat]]
    BY DEF TypeOK
  <2>2. \/ freeUsed' = [freeUsed EXCEPT ![u][k] = @ + 1]
        \/ freeUsed' = freeUsed
    BY <1>1 DEF SyncFreeUsage
  <2>3. freeUsed' \in [Users -> [Kinds -> Nat]]
    BY <2>1, <2>2
  <2>4. syncs' \in [Users -> [Kinds -> Nat]]
    BY <1>1, <2>1 DEF SyncFreeUsage
  <2> QED
    BY <1>1, <2>3, <2>4 DEF SyncFreeUsage, TypeOK
<1>2. CASE ExpireFree(u, k)
  <2>1. allowance' \in [Users -> [Kinds -> Nat]]
    BY <1>2, LoseCounterType DEF ExpireFree
  <2>2. /\ freeCnt' \in [Users -> [Kinds -> Nat]]
        /\ freeKey' \in [Users -> [Kinds -> {"absent", "persistent", "expiring"}]]
    BY <1>2 DEF ExpireFree, TypeOK
  <2> QED
    BY <1>2, <2>1, <2>2 DEF ExpireFree, TypeOK
<1> QED
  BY <1>1, <1>2

\* So do the steps on a subscription.
LEMMA UserType ==
    ASSUME TypeOK, NEW u \in Users,
           ProbeQuota(u) \/ Activate(u) \/ ResetUsage(u) \/ Lapse(u) \/ ExpireSub(u)
    PROVE  TypeOK'
<1>1. CASE ProbeQuota(u)
  BY <1>1 DEF ProbeQuota, TypeOK
<1>2. CASE Activate(u)
  BY <1>2 DEF Activate, TypeOK
<1>3. CASE ResetUsage(u)
  BY <1>3 DEF ResetUsage, TypeOK
<1>4. CASE Lapse(u)
  BY <1>4 DEF Lapse, TypeOK
<1>5. CASE ExpireSub(u)
  <2>1. /\ \/ subActive' = [subActive EXCEPT ![u] = "absent"]
           \/ subActive' = subActive
        /\ \/ subLimit' = [subLimit EXCEPT ![u] = FALSE]
           \/ subLimit' = subLimit
    BY <1>5 DEF ExpireSub
  <2>2. subActive \in [Users -> {"absent", "true", "false"}] /\ subLimit \in [Users -> BOOLEAN]
    BY DEF TypeOK
  <2>3. subActive' \in [Users -> {"absent", "true", "false"}]
    BY <2>1, <2>2
  <2>4. subLimit' \in [Users -> BOOLEAN]
    BY <2>1, <2>2
  <2>5. UNCHANGED <<dbVars, verified, freeVars, usage, reqVars, bgVars, dashVars, histVars>>
    BY <1>5 DEF ExpireSub
  <2> QED
    BY <2>3, <2>4, <2>5 DEF TypeOK
<1> QED
  BY <1>1, <1>2, <1>3, <1>4, <1>5

\* So do the steps on a single payment.
LEMMA PairType ==
    ASSUME TypeOK, NEW u \in Users, NEW m \in Mints,
           MarkPaid(u, m) \/ CachePaid(u, m) \/ ExpireVerified(u, m)
    PROVE  TypeOK'
<1>1. CASE MarkPaid(u, m)
  BY <1>1 DEF MarkPaid, TypeOK
<1>2. CASE CachePaid(u, m)
  BY <1>2 DEF CachePaid, TypeOK
<1>3. CASE ExpireVerified(u, m)
  BY <1>3 DEF ExpireVerified, TypeOK
<1> QED
  BY <1>1, <1>2, <1>3

\* So does the quota page.
LEMMA DashboardType ==
    ASSUME TypeOK, NEW d \in Dashboards,
           \/ \E u \in Users, a \in Handlers : DashMiss(d, u, KindOf(a))
           \/ DashRead(d) \/ DashSet(d)
    PROVE  TypeOK'
<1>k. duser[d] \in Users /\ dkind[d] \in Kinds
  BY DEF TypeOK
<1>1. ASSUME NEW u \in Users, NEW a \in Handlers, DashMiss(d, u, KindOf(a)) PROVE TypeOK'
  <2>1. KindOf(a) \in Kinds
    BY DEF KindOf, Kinds
  <2> QED
    BY <1>1, <2>1 DEF DashMiss, TypeOK
<1>2. CASE DashRead(d)
  <2>1. freeUsed[duser[d]][dkind[d]] \in Nat
    BY <1>k DEF TypeOK
  <2>2. \/ dval' = [dval EXCEPT ![d] = freeUsed[duser[d]][dkind[d]]]
        \/ dval' = dval
    BY <1>2 DEF DashRead
  <2>3. dval \in [Dashboards -> Nat] /\ dpc \in [Dashboards -> {"idle", "read", "set"}]
    BY DEF TypeOK
  <2>4. dval' \in [Dashboards -> Nat]
    BY <2>1, <2>2, <2>3
  <2>5. dpc' = [dpc EXCEPT ![d] = "set"] \/ dpc' = [dpc EXCEPT ![d] = "idle"]
    BY <1>2 DEF DashRead
  <2>6. dpc' \in [Dashboards -> {"idle", "read", "set"}]
    BY <2>3, <2>5
  <2>7. UNCHANGED <<dbVars, verified, freeVars, usage, cacheVars, reqVars, bgVars, duser,
                    dkind, histVars>>
    BY <1>2 DEF DashRead
  <2> QED
    BY <2>4, <2>6, <2>7 DEF TypeOK
<1>3. CASE DashSet(d)
  <2>1. allowance' \in [Users -> [Kinds -> Nat]]
    BY <1>3, <1>k, LoseCounterType DEF DashSet
  <2>2. /\ freeCnt' \in [Users -> [Kinds -> Nat]]
        /\ freeKey' \in [Users -> [Kinds -> {"absent", "persistent", "expiring"}]]
    BY <1>3, <1>k DEF DashSet, TypeOK
  <2> QED
    BY <1>3, <2>1, <2>2 DEF DashSet, TypeOK
<1> QED
  BY <1>1, <1>2, <1>3

\* Every step preserves the types.
LEMMA StepType == TypeOK /\ [Next]_vars => TypeOK'
<1> SUFFICES ASSUME TypeOK, [Next]_vars PROVE TypeOK'
  OBVIOUS
<1>1. CASE UNCHANGED vars
  BY <1>1 DEF TypeOK
<1>2. ASSUME NEW r \in Requests, RequestStep(r) PROVE TypeOK'
  BY <1>2, CheckType, CommitType DEF RequestStep
<1>3. ASSUME NEW r \in Requests, NEW u \in Users, NEW m \in Mints, NEW a \in Handlers,
             Start(r, u, m, a)
      PROVE  TypeOK'
  <2>1. a \in BOOLEAN /\ "cache" \in Locations
    BY FaultAssumption DEF Locations, Checking
  <2> QED
    BY <1>3, <2>1 DEF Start, GoTo, TypeOK
<1>4. CASE Crash
  BY <1>4 DEF Crash, Locations, GrantKinds, TypeOK
<1>5. CASE Environment
  BY <1>4, <1>5, CounterType, UserType, PairType, DashboardType DEF Environment
<1> QED
  BY <1>1, <1>2, <1>3, <1>5 DEF Next

\* Rows, keys, requests and goroutines keep their types in every reachable state; in
\* particular balances and counters never go below zero.
THEOREM TypeCorrect == Spec => []TypeOK
<1>1. Init => TypeOK
  BY InitType
<1>2. TypeOK /\ [Next]_vars => TypeOK'
  BY StepType
<1> QED
  BY <1>1, <1>2, PTL DEF Spec
-----------------------------------------------------------------------------
(***************************************************************************)
(* The free tier.  The counter is lost (overwritten by a smaller value, or *)
(* expired) only together with a fresh allowance, and every grant moves    *)
(* counter and grants together; so what was granted stays below what the   *)
(* counter can still refuse.                                               *)
(***************************************************************************)
FreeInv ==
    \A u \in Users, k \in Kinds :
        /\ freeGrants[u][k] <= allowance[u][k]
        /\ freeGrants[u][k] + FreeLimit[k] <= allowance[u][k] + freeCnt[u][k]
        /\ freeUsed[u][k] + syncs[u][k] <= freeGrants[u][k]

freeState == <<freeCnt, freeGrants, allowance, freeUsed, syncs>>

\* The few actions that move any of the five counters.
LEMMA FreeFrame ==
    ASSUME [Next]_vars
    PROVE  \/ UNCHANGED freeState
           \/ \E r \in Requests : FreeTake(r) \/ FreeReplyLost(r)
           \/ \E d \in Dashboards : DashSet(d)
           \/ \E u \in Users, k \in Kinds : SyncFreeUsage(u, k) \/ ExpireFree(u, k)
           \/ Crash
<1> USE DEF freeState
<1>1. CASE UNCHANGED vars
  BY <1>1
<1>2. ASSUME NEW r \in Requests, RequestStep(r), ~FreeTake(r), ~FreeReplyLost(r)
      PROVE  UNCHANGED freeState
  <2>1. CASE CacheHit(r) \/ CacheMiss(r) \/ FreeRefuse(r)
    BY <2>1 DEF CacheHit, CacheMiss, FreeRefuse
  <2>2. CASE CheckSubscription(r)
    BY <2>2 DEF CheckSubscription, SubCacheHit, SubCacheMiss, SubRead, SubReadFails,
                SubFill, LimitCached, LimitRead, LimitFill, UsageLeft, UsageSpent
  <2>3. CASE CheckCredits(r)
    BY <2>3 DEF CheckCredits, CreditLeft, CreditSpent, SinglePaid, SingleUnpaid,
                BridgePaid, BridgeUnpaid
  <2>4. CASE WorkSucceeds(r) \/ WorkFails(r) \/ Finish(r)
    BY <2>4 DEF WorkSucceeds, WorkFails, Finish
  <2>5. CASE CommitUsage(r)
    BY <2>5 DEF CommitUsage, IncrementUsage, DeductCredit, CacheAccess
  <2> QED
    BY <1>2, <2>1, <2>2, <2>3, <2>4, <2>5 DEF RequestStep, CheckFree
<1>3. ASSUME NEW r \in Requests, NEW u \in Users, NEW m \in Mints, NEW a \in Handlers,
             Start(r, u, m, a)
      PROVE  UNCHANGED freeState
  BY <1>3 DEF Start
<1>4. ASSUME NEW u \in Users, ProbeQuota(u) \/ Activate(u) \/ ResetUsage(u) \/ Lapse(u)
                                 \/ ExpireSub(u)
      PROVE  UNCHANGED freeState
  BY <1>4 DEF ProbeQuota, Activate, ResetUsage, Lapse, ExpireSub
<1>5. ASSUME NEW u \in Users, NEW m \in Mints,
             MarkPaid(u, m) \/ CachePaid(u, m) \/ ExpireVerified(u, m)
      PROVE  UNCHANGED freeState
  BY <1>5 DEF MarkPaid, CachePaid, ExpireVerified
<1>6. ASSUME NEW d \in Dashboards, NEW u \in Users, NEW a \in Handlers,
             DashRead(d) \/ DashMiss(d, u, KindOf(a))
      PROVE  UNCHANGED freeState
  BY <1>6 DEF DashRead, DashMiss
<1>7. ASSUME NEW d \in Dashboards, DashRead(d) PROVE UNCHANGED freeState
  BY <1>7 DEF DashRead
<1> QED
  BY <1>1, <1>2, <1>3, <1>4, <1>5, <1>6, <1>7 DEF Next, Environment

\* FreeInv is inductive.
LEMMA FreeStep == TypeOK /\ FreeInv /\ [Next]_vars => FreeInv'
<1> SUFFICES ASSUME TypeOK, FreeInv, [Next]_vars,
                    NEW u \in Users, NEW k \in Kinds
             PROVE  /\ freeGrants'[u][k] <= allowance'[u][k]
                    /\ freeGrants'[u][k] + FreeLimit[k] <= allowance'[u][k] + freeCnt'[u][k]
                    /\ freeUsed'[u][k] + syncs'[u][k] <= freeGrants'[u][k]
  BY DEF FreeInv
<1>n. /\ freeCnt \in [Users -> [Kinds -> Nat]] /\ freeGrants \in [Users -> [Kinds -> Nat]]
      /\ allowance \in [Users -> [Kinds -> Nat]] /\ freeUsed \in [Users -> [Kinds -> Nat]]
      /\ syncs \in [Users -> [Kinds -> Nat]] /\ dval \in [Dashboards -> Nat]
      /\ FreeLimit \in [Kinds -> Nat]
  BY LimitAssumption DEF TypeOK
<1>i. /\ freeGrants[u][k] <= allowance[u][k]
      /\ freeGrants[u][k] + FreeLimit[k] <= allowance[u][k] + freeCnt[u][k]
      /\ freeUsed[u][k] + syncs[u][k] <= freeGrants[u][k]
  BY DEF FreeInv
<1>1. CASE UNCHANGED freeState
  BY <1>1, <1>i DEF freeState
<1> DEFINE Goal ==
        /\ freeGrants'[u][k] <= allowance'[u][k]
        /\ freeGrants'[u][k] + FreeLimit[k] <= allowance'[u][k] + freeCnt'[u][k]
        /\ freeUsed'[u][k] + syncs'[u][k] <= freeGrants'[u][k]
<1>2. ASSUME NEW r \in Requests, FreeTake(r) PROVE Goal
  <2> DEFINE v == user[r]  l == FreeKind(r)
  <2>1. v \in Users /\ l \in Kinds
    BY DEF TypeOK, FreeKind, KindOf, Kinds
  <2>2. /\ freeCnt[v][l] < FreeLimit[l]
        /\ freeCnt' = [freeCnt EXCEPT ![v][l] = @ + 1]
        /\ freeGrants' = [freeGrants EXCEPT ![v][l] = @ + 1]
        /\ syncs' = [syncs EXCEPT ![v][l] = @ + 1]
        /\ UNCHANGED <<allowance, freeUsed>>
    BY <1>2 DEF FreeTake, FreeIncr
  <2> HIDE DEF v, l
  <2>3. CASE v = u /\ l = k
    BY <1>n, <1>i, <2>1, <2>2, <2>3
  <2>4. CASE ~(v = u /\ l = k)
    <3>1. /\ freeCnt'[u][k] = freeCnt[u][k] /\ freeGrants'[u][k] = freeGrants[u][k]
          /\ syncs'[u][k] = syncs[u][k]
      BY <1>n, <2>1, <2>2, <2>4
    <3> QED
      BY <1>i, <2>2, <3>1
  <2> QED
    BY <2>3, <2>4
<1>3. ASSUME NEW r \in Requests, FreeReplyLost(r) PROVE Goal
  <2> DEFINE v == user[r]  l == FreeKind(r)
  <2>1. v \in Users /\ l \in Kinds
    BY DEF TypeOK, FreeKind, KindOf, Kinds
  <2>2. /\ freeCnt' = [freeCnt EXCEPT ![v][l] = @ + 1]
        /\ UNCHANGED <<allowance, freeGrants, freeUsed, syncs>>
    BY <1>3 DEF FreeReplyLost, FreeIncr
  <2> HIDE DEF v, l
  <2>3. freeCnt'[u][k] \in Nat /\ freeCnt'[u][k] >= freeCnt[u][k]
    BY <1>n, <2>1, <2>2
  <2> QED
    BY <1>n, <1>i, <2>2, <2>3
<1>4. ASSUME NEW v \in Users, NEW l \in Kinds, NEW n \in Nat,
             freeCnt' = [freeCnt EXCEPT ![v][l] = n],
             n < freeCnt[v][l] =>
               allowance' = [allowance EXCEPT ![v][l] = allowance[v][l] + FreeLimit[l]],
             n >= freeCnt[v][l] => allowance' = allowance,
             freeGrants' = freeGrants, freeUsed' = freeUsed, syncs' = syncs
      PROVE  Goal
  <2>1. CASE v = u /\ l = k /\ n < freeCnt[v][l]
    <3>1. allowance'[u][k] = allowance[u][k] + FreeLimit[k] /\ freeCnt'[u][k] = n
      BY <1>4, <1>n, <2>1
    <3> QED
      BY <1>4, <1>n, <1>i, <3>1
  <2>2. CASE v = u /\ l = k /\ n >= freeCnt[v][l]
    <3>1. freeCnt'[u][k] = n /\ allowance' = allowance
      BY <1>4, <1>n, <2>2
    <3> QED
      BY <1>4, <1>n, <1>i, <2>2, <3>1
  <2>3. CASE ~(v = u /\ l = k)
    <3>1. freeCnt'[u][k] = freeCnt[u][k] 
      BY <1>4, <1>n, <2>3
    <3>2. allowance'[u][k] = allowance[u][k]
      <4>1. \/ allowance' = allowance
            \/ allowance' = [allowance EXCEPT ![v][l] = allowance[v][l] + FreeLimit[l]]
        BY <1>4, <1>n
      <4> QED
        BY <4>1, <1>n, <2>3
    <3> QED
      BY <1>4, <1>i, <3>1, <3>2
  <2> QED
    BY <1>4, <1>n, <2>1, <2>2, <2>3
<1>5. ASSUME NEW d \in Dashboards, DashSet(d) PROVE Goal
  <2>1. duser[d] \in Users /\ dkind[d] \in Kinds /\ dval[d] \in Nat
    BY DEF TypeOK
  <2> DEFINE v == duser[d]  l == dkind[d]
  <2>2. /\ freeCnt' = [freeCnt EXCEPT ![v][l] = dval[d]]
        /\ dval[d] < freeCnt[v][l] =>
             allowance' = [allowance EXCEPT ![v][l] = allowance[v][l] + FreeLimit[l]]
        /\ ~(dval[d] < freeCnt[v][l]) => allowance' = allowance
        /\ freeGrants' = freeGrants /\ freeUsed' = freeUsed /\ syncs' = syncs
    BY <1>5 DEF DashSet, LoseCounter
  <2> HIDE DEF v, l
  <2>3. freeCnt[v][l] \in Nat
    BY <1>n, <2>1 DEF v, l
  <2>4. dval[d] >= freeCnt[v][l] => allowance' = allowance
    BY <2>1, <2>2, <2>3
  <2> QED
    BY <1>4, <2>1, <2>2, <2>4 DEF v, l
<1>6. ASSUME NEW v \in Users, NEW l \in Kinds, ExpireFree(v, l) PROVE Goal
  <2>1. /\ freeCnt' = [freeCnt EXCEPT ![v][l] = 0]
        /\ freeCnt[v][l] > 0 =>
             allowance' = [allowance EXCEPT ![v][l] = allowance[v][l] + FreeLimit[l]]
        /\ ~(freeCnt[v][l] > 0) => allowance' = allowance
        /\ freeGrants' = freeGrants /\ freeUsed' = freeUsed /\ syncs' = syncs
    BY <1>6 DEF ExpireFree, LoseCounter
  <2>2. freeCnt[v][l] \in Nat
    BY <1>n
  <2>3. /\ 0 < freeCnt[v][l] =>
             allowance' = [allowance EXCEPT ![v][l] = allowance[v][l] + FreeLimit[l]]
        /\ 0 >= freeCnt[v][l] => allowance' = allowance
    BY <2>1, <2>2
  <2> QED
    BY <1>4, <2>1, <2>3
<1>7. ASSUME NEW v \in Users, NEW l \in Kinds, SyncFreeUsage(v, l) PROVE Goal
  <2>1. /\ syncs[v][l] > 0
        /\ syncs' = [syncs EXCEPT ![v][l] = @ - 1]
        /\ freeUsed' = [freeUsed EXCEPT ![v][l] = @ + 1] \/ freeUsed' = freeUsed
        /\ UNCHANGED <<freeCnt, freeGrants, allowance>>
    BY <1>7 DEF SyncFreeUsage
  <2>2. freeUsed'[u][k] + syncs'[u][k] <= freeUsed[u][k] + syncs[u][k]
    BY <1>n, <2>1
  <2>3. freeUsed'[u][k] \in Nat /\ syncs'[u][k] \in Nat
    BY <1>n, <2>1
  <2> QED
    BY <1>n, <1>i, <2>1, <2>2, <2>3
<1>8. CASE Crash
  <2>1. syncs'[u][k] = 0 /\ UNCHANGED <<freeCnt, freeGrants, allowance, freeUsed>>
    BY <1>8 DEF Crash
  <2> QED
    BY <1>n, <1>i, <2>1
<1> QED
  BY <1>1, <1>2, <1>3, <1>5, <1>6, <1>7, <1>8, FreeFrame

\* FreeInv holds of every behaviour.
LEMMA FreeInvariant == Spec => []FreeInv
<1>1. Init => FreeInv
  <2> SUFFICES ASSUME Init, NEW u \in Users, NEW k \in Kinds
               PROVE  /\ freeGrants[u][k] <= allowance[u][k]
                      /\ freeGrants[u][k] + FreeLimit[k] <= allowance[u][k] + freeCnt[u][k]
                      /\ freeUsed[u][k] + syncs[u][k] <= freeGrants[u][k]
    BY DEF FreeInv
  <2>1. /\ freeGrants[u][k] = 0 /\ freeCnt[u][k] = 0 /\ freeUsed[u][k] = 0
        /\ syncs[u][k] = 0 /\ allowance[u][k] = FreeLimit[k]
    BY DEF Init
  <2>2. FreeLimit[k] \in Nat
    BY LimitAssumption
  <2> QED
    BY <2>1, <2>2
<1>2. FreeInv /\ TypeOK /\ [Next]_vars => FreeInv'
  BY FreeStep
<1> QED
  BY <1>1, <1>2, TypeCorrect, PTL DEF Spec

\* Whatever interleaves (concurrent scans, quota pages, lost replies, crashes), a user
\* is granted at most one free allowance more than the number of times the Redis counter
\* was overwritten or expired: the Lua script never lets two requests share a use.
THEOREM FreeGrantsSafe == Spec => []FreeGrantsWithinAllowance
<1>1. FreeInv => FreeGrantsWithinAllowance
  BY DEF FreeInv, FreeGrantsWithinAllowance
<1> QED
  BY <1>1, FreeInvariant, PTL

\* The users table never counts more free uses than were granted, so restoring the
\* counter from it never takes a free use away from a user.
THEOREM PersistedUsageSafe == Spec => []PersistedUsageNotAhead
<1>1. FreeInv => PersistedUsageNotAhead
  BY DEF FreeInv, PersistedUsageNotAhead
<1> QED
  BY <1>1, FreeInvariant, PTL
-----------------------------------------------------------------------------
(***************************************************************************)
(* Overshoot.  checkSubscription and checkCredits look before the work,    *)
(* CommitUsage charges after it.  A request that is granted adds itself to *)
(* the requests in flight while the counter is still short of the limit,   *)
(* so counter and flight together stay below the limit plus the other      *)
(* requests; charging only moves a request from the flight to the counter. *)
(***************************************************************************)
Charged == {"subscription", "credit"}

\* A step after which no further request is in flight and no counter has grown.
Calm ==
    /\ \A u \in Users, k \in Charged : InFlight(u, k)' \subseteq InFlight(u, k)
    /\ \A u \in Users : usage'[u] = usage[u] \/ usage'[u] = 0
    /\ credits' = credits /\ creditServed' = creditServed

\* A request that is not just granted takes nothing into flight.
LEMMA FlightShrinks ==
    ASSUME TypeOK, NEW r \in Requests, NEW l, NEW x,
           pc' = [pc EXCEPT ![r] = l], user' = user,
           \/ kind' = [kind EXCEPT ![r] = x] /\ x \notin Charged
           \/ kind' = kind /\ (l \notin {"work", "commit"} \/ pc[r] = "work")
    PROVE  \A u \in Users, k \in Charged : InFlight(u, k)' \subseteq InFlight(u, k)
<1> SUFFICES ASSUME NEW u \in Users, NEW k \in Charged, NEW q \in Requests,
                    user'[q] = u, kind'[q] = k, pc'[q] \in {"work", "commit"}
             PROVE  user[q] = u /\ kind[q] = k /\ pc[q] \in {"work", "commit"}
  BY DEF InFlight
<1>1. pc \in [Requests -> Locations] /\ kind \in [Requests -> GrantKinds]
  BY DEF TypeOK
<1>2. CASE q # r
  BY <1>1, <1>2
<1>3. CASE q = r
  BY <1>1, <1>3
<1> QED
  BY <1>2, <1>3

\* Nor does a step of nobody's request.
LEMMA FlightKept ==
    ASSUME UNCHANGED <<pc, user, kind>>
    PROVE  \A u \in Users, k \in Charged : InFlight(u, k)' \subseteq InFlight(u, k)
BY DEF InFlight

\* Only four actions move the counters or the flights upwards.
LEMMA FlightFrame ==
    ASSUME TypeOK, [Next]_vars
    PROVE  \/ Calm
           \/ \E r \in Requests : \/ UsageLeft(r) \/ IncrementUsage(r)
                                 \/ CreditLeft(r) \/ DeductCredit(r)
<1>1. CASE UNCHANGED vars
  BY <1>1, FlightKept DEF Calm
<1>2. ASSUME NEW r \in Requests, RequestStep(r),
             ~UsageLeft(r), ~IncrementUsage(r), ~CreditLeft(r), ~DeductCredit(r)
      PROVE  Calm
  <2> USE DEF GoTo, Grant
  <2>c. UNCHANGED <<usage, credits, creditServed, user>>
    <3>1. CASE CacheHit(r) \/ CacheMiss(r) \/ CheckFree(r)
      BY <3>1 DEF CacheHit, CacheMiss, CheckFree, FreeTake, FreeReplyLost, FreeRefuse
    <3>2. CASE CheckSubscription(r)
      BY <1>2, <3>2 DEF CheckSubscription, SubCacheHit, SubCacheMiss, SubRead,
                  SubReadFails, SubFill, LimitCached, LimitRead, LimitFill, UsageSpent
    <3>3. CASE CheckCredits(r)
      BY <1>2, <3>3 DEF CheckCredits, CreditSpent, SinglePaid, SingleUnpaid,
                  BridgePaid, BridgeUnpaid
    <3>4. CASE WorkSucceeds(r) \/ WorkFails(r) \/ Finish(r) \/ CacheAccess(r)
      BY <3>4 DEF WorkSucceeds, WorkFails, Finish, CacheAccess
    <3> QED
      BY <1>2, <3>1, <3>2, <3>3, <3>4 DEF RequestStep, CommitUsage
  <2>f. \E l, x : /\ pc' = [pc EXCEPT ![r] = l]
                 /\ \/ kind' = [kind EXCEPT ![r] = x] /\ x \notin Charged
                    \/ kind' = kind /\ (l \notin {"work", "commit"} \/ pc[r] = "work")
    <3>1. CASE CacheHit(r) \/ FreeTake(r)
      BY <3>1 DEF CacheHit, FreeTake, Charged
    <3>6. CASE SinglePaid(r) \/ BridgePaid(r)
      BY <3>6 DEF SinglePaid, BridgePaid, Charged
    <3>7. CASE Finish(r)
      <4>1. pc' = [pc EXCEPT ![r] = "idle"] /\ kind' = [kind EXCEPT ![r] = ""]
        BY <3>7 DEF Finish
      <4>2. "" \notin Charged
        BY DEF Charged
      <4> QED
        BY <4>1, <4>2
    <3>2. CASE CacheMiss(r) \/ FreeReplyLost(r) \/ FreeRefuse(r) \/ CreditSpent(r)
                 \/ SingleUnpaid(r) \/ BridgeUnpaid(r) \/ SubCacheMiss(r) \/ SubRead(r)
      BY <3>2 DEF CacheMiss, FreeReplyLost, FreeRefuse, CreditSpent, SingleUnpaid,
                  BridgeUnpaid, SubCacheMiss, SubRead
    <3>3. CASE SubCacheHit(r) \/ SubReadFails(r) \/ SubFill(r) \/ UsageSpent(r)
      BY <3>3 DEF SubCacheHit, SubReadFails, SubFill, UsageSpent, AfterSubscription
    <3>4. CASE LimitCached(r) \/ LimitRead(r) \/ LimitFill(r)
      BY <3>4 DEF LimitCached, LimitRead, LimitFill, AfterSubscription
    <3>5. CASE WorkSucceeds(r) \/ WorkFails(r) \/ CacheAccess(r)
      BY <3>5 DEF WorkSucceeds, WorkFails, CacheAccess
    <3> QED
      BY <1>2, <3>1, <3>2, <3>3, <3>4, <3>5, <3>6, <3>7
      DEF RequestStep, CheckFree, CheckSubscription, CheckCredits, CommitUsage
  <2> QED
    BY <2>c, <2>f, FlightShrinks DEF Calm
<1>3. ASSUME NEW r \in Requests, NEW u \in Users, NEW m \in Mints, NEW a \in Handlers,
             Start(r, u, m, a)
      PROVE  Calm
  <2>1. ASSUME NEW v \in Users, NEW k \in Charged
        PROVE  InFlight(v, k)' \subseteq InFlight(v, k)
    BY <1>3 DEF Start, GoTo, InFlight, TypeOK
  <2> QED
    BY <1>3, <2>1 DEF Start, Calm
<1>4. CASE Crash
  <2>1. ASSUME NEW v \in Users, NEW k \in Charged
        PROVE  InFlight(v, k)' \subseteq InFlight(v, k)
    BY <1>4 DEF Crash, InFlight
  <2> QED
    BY <1>4, <2>1 DEF Crash, Calm
<1>5. ASSUME NEW u \in Users, ResetUsage(u) PROVE Calm
  <2>1. \A v \in Users : usage'[v] = usage[v] \/ usage'[v] = 0
    BY <1>5 DEF ResetUsage, TypeOK
  <2> QED
    BY <1>5, <2>1, FlightKept DEF ResetUsage, Calm
<1>6. ASSUME NEW u \in Users, ProbeQuota(u) \/ Activate(u) \/ Lapse(u) \/ ExpireSub(u)
      PROVE  Calm
  BY <1>6, FlightKept DEF ProbeQuota, Activate, Lapse, ExpireSub, Calm
<1>7. ASSUME NEW u \in Users, NEW m \in Mints,
             MarkPaid(u, m) \/ CachePaid(u, m) \/ ExpireVerified(u, m)
      PROVE  Calm
  BY <1>7, FlightKept DEF MarkPaid, CachePaid, ExpireVerified, Calm
<1>8. ASSUME NEW u \in Users, NEW k \in Kinds, SyncFreeUsage(u, k) \/ ExpireFree(u, k)
      PROVE  Calm
  BY <1>8, FlightKept DEF SyncFreeUsage, ExpireFree, Calm
<1>9. ASSUME NEW d \in Dashboards, NEW u \in Users, NEW a \in Handlers,
             DashMiss(d, u, KindOf(a))
      PROVE  Calm
  BY <1>9, FlightKept DEF DashMiss, Calm
<1>10. ASSUME NEW d \in Dashboards, DashRead(d) \/ DashSet(d) PROVE Calm
  BY <1>10, FlightKept DEF DashRead, DashSet, Calm
<1> QED
  BY <1>1, <1>2, <1>3, <1>4, <1>5, <1>6, <1>7, <1>8, <1>9, <1>10 DEF Next, Environment

\* Sizes of the flight, the only facts about cardinalities the theorems need.
LEMMA FlightSize ==
    ASSUME NEW u \in Users, NEW k \in Charged
    PROVE  /\ IsFiniteSet(InFlight(u, k)) /\ Cardinality(InFlight(u, k)) \in Nat
           /\ IsFiniteSet(InFlight(u, k)') /\ Cardinality(InFlight(u, k)') \in Nat
           /\ Cardinality(InFlight(u, k)') <= Cardinality(Requests)
           /\ Cardinality(Requests) \in Nat /\ Cardinality(Requests) >= 1
<1>1. InFlight(u, k) \subseteq Requests /\ InFlight(u, k)' \subseteq Requests
  BY DEF InFlight
<1>2. Cardinality(Requests) # 0
  BY RequestAssumption, FS_EmptySet
<1> QED
  BY <1>1, <1>2, RequestAssumption, FS_Subset, FS_CardinalityType

\* In all others no flight grows.
LEMMA CalmSize ==
    ASSUME Calm, NEW u \in Users, NEW k \in Charged
    PROVE  Cardinality(InFlight(u, k)') <= Cardinality(InFlight(u, k))
BY FlightSize, FS_Subset DEF Calm

\* Charging takes the request out of its user's flight and leaves the others alone.
LEMMA ChargeSize ==
    ASSUME TypeOK, NEW r \in Requests, NEW k \in Charged, NEW u \in Users,
           pc[r] = "commit", kind[r] = k, pc' = [pc EXCEPT ![r] = "cacheSet"],
           UNCHANGED <<kind, user>>
    PROVE  /\ InFlight(user[r], k)' = InFlight(user[r], k) \ {r}
           /\ Cardinality(InFlight(user[r], k)') = Cardinality(InFlight(user[r], k)) - 1
           /\ u # user[r] => InFlight(u, k)' = InFlight(u, k)
<1>1. pc \in [Requests -> Locations] /\ user[r] \in Users
  BY DEF TypeOK
<1>2. InFlight(user[r], k)' = InFlight(user[r], k) \ {r} /\ r \in InFlight(user[r], k)
  BY <1>1 DEF InFlight
<1>3. u # user[r] => InFlight(u, k)' = InFlight(u, k)
  BY <1>1 DEF InFlight
<1>4. IsFiniteSet(InFlight(user[r], k))
  BY <1>1, FlightSize
<1>5. Cardinality(InFlight(user[r], k) \ {r}) = Cardinality(InFlight(user[r], k)) - 1
  BY <1>2, <1>4, FS_RemoveElement
<1> QED
  BY <1>2, <1>3, <1>5

\* A step of a request that is not in either flight, before or after, for kind k.
LEMMA OtherSize ==
    ASSUME TypeOK, NEW r \in Requests, NEW k \in Charged, NEW u \in Users,
           NEW l, NEW x, pc' = [pc EXCEPT ![r] = l], user' = user,
           kind' = kind \/ kind' = [kind EXCEPT ![r] = x],
           kind'[r] # k \/ l \notin {"work", "commit"}
    PROVE  Cardinality(InFlight(u, k)') <= Cardinality(InFlight(u, k))
<1>1. pc \in [Requests -> Locations] /\ kind \in [Requests -> GrantKinds]
  BY DEF TypeOK
<1>2. InFlight(u, k)' \subseteq InFlight(u, k)
  BY <1>1 DEF InFlight
<1> QED
  BY <1>2, FlightSize, FS_Subset
-----------------------------------------------------------------------------
\* The bound on the quota's overshoot is inductive without faults.
LEMMA UsageStep ==
    ~Faults /\ TypeOK /\ UsageOvershootBounded /\ [Next]_vars => UsageOvershootBounded'
<1> SUFFICES ASSUME ~Faults, TypeOK, UsageOvershootBounded, [Next]_vars, NEW u \in Users
             PROVE  usage'[u] + Cardinality(InFlight(u, "subscription")')
                      <= Quota + Cardinality(Requests) - 1
  BY DEF UsageOvershootBounded
<1> DEFINE k == "subscription"  F == InFlight(u, k)
<1>k. k \in Charged
  BY DEF Charged
<1>n. /\ usage \in [Users -> Nat] /\ Quota \in Nat /\ user \in [Requests -> Users]
      /\ pc \in [Requests -> Locations] /\ kind \in [Requests -> GrantKinds]
  BY NatAssumption DEF TypeOK
<1>f. /\ Cardinality(F) \in Nat /\ Cardinality(F') \in Nat
      /\ Cardinality(F') <= Cardinality(Requests)
      /\ Cardinality(Requests) \in Nat /\ Cardinality(Requests) >= 1
  BY <1>k, FlightSize
<1>i. usage[u] + Cardinality(F) <= Quota + Cardinality(Requests) - 1
  BY DEF UsageOvershootBounded
<1> HIDE DEF k, F
<1>c. ASSUME usage'[u] = usage[u] \/ usage'[u] = 0, Cardinality(F') <= Cardinality(F)
      PROVE  usage'[u] + Cardinality(F') <= Quota + Cardinality(Requests) - 1
  BY <1>c, <1>n, <1>f, <1>i
<1>1. CASE Calm
  <2>1. Cardinality(F') <= Cardinality(F)
    BY <1>1, <1>k, CalmSize DEF F
  <2> QED
    BY <1>1, <1>c, <2>1 DEF Calm, F, k
<1>2. ASSUME NEW r \in Requests, UsageLeft(r)
      PROVE  usage'[u] + Cardinality(F') <= Quota + Cardinality(Requests) - 1
  <2>1. usage' = usage /\ usage[user[r]] < Quota
    BY <1>2 DEF UsageLeft
  <2>2. CASE user[r] = u
    BY <1>n, <1>f, <2>1, <2>2
  <2>3. CASE user[r] # u
    <3>1. F' = F
      BY <1>2, <1>n, <2>3 DEF UsageLeft, Grant, GoTo, InFlight, F
    <3> QED
      BY <1>c, <1>f, <2>1, <3>1
  <2> QED
    BY <2>2, <2>3
<1>3. ASSUME NEW r \in Requests, IncrementUsage(r)
      PROVE  usage'[u] + Cardinality(F') <= Quota + Cardinality(Requests) - 1
  <2>1. /\ pc[r] = "commit" /\ kind[r] = k /\ pc' = [pc EXCEPT ![r] = "cacheSet"]
        /\ UNCHANGED <<kind, user>>
        /\ usage' = [usage EXCEPT ![user[r]] = @ + 1]
    BY <1>3 DEF IncrementUsage, GoTo, k
  <2>2. CASE user[r] = u
    <3>1. Cardinality(F') = Cardinality(F) - 1
      BY <1>k, <2>1, <2>2, ChargeSize DEF F
    <3>2. usage'[u] = usage[u] + 1
      BY <1>n, <2>1, <2>2
    <3> QED
      BY <1>n, <1>f, <1>i, <3>1, <3>2
  <2>3. CASE user[r] # u
    <3>1. F' = F
      BY <1>k, <2>1, <2>3, ChargeSize DEF F
    <3>2. usage'[u] = usage[u]
      BY <1>n, <2>1, <2>3
    <3> QED
      BY <1>c, <1>f, <3>1, <3>2
  <2> QED
    BY <2>2, <2>3
<1>4. ASSUME NEW r \in Requests, CreditLeft(r) \/ DeductCredit(r)
      PROVE  usage'[u] + Cardinality(F') <= Quota + Cardinality(Requests) - 1
  <2>1. usage' = usage /\ user' = user
    BY <1>4 DEF CreditLeft, DeductCredit
  <2>2. PICK l, x : /\ pc' = [pc EXCEPT ![r] = l]
                    /\ kind' = kind \/ kind' = [kind EXCEPT ![r] = x]
                    /\ kind'[r] # k \/ l \notin {"work", "commit"}
    BY <1>4, <1>n DEF CreditLeft, DeductCredit, Grant, GoTo, k
  <2>3. Cardinality(F') <= Cardinality(F)
    BY <1>k, <2>1, <2>2, OtherSize DEF F
  <2> QED
    BY <1>c, <2>1, <2>3
<1> QED
  BY <1>1, <1>2, <1>3, <1>4, FlightFrame DEF F, k

\* For any number of concurrent scans and bots of a user, any interleaving of their
\* checks and charges and any renewals: while Redis and Postgres answer, the quota is
\* overrun by less than the number of requests that can be in flight.
THEOREM UsageOvershootSafe ==
    ASSUME ~Faults
    PROVE  Spec => []UsageOvershootBounded
<1>1. Init => UsageOvershootBounded
  <2> SUFFICES ASSUME Init, NEW u \in Users
               PROVE  usage[u] + Cardinality(InFlight(u, "subscription"))
                        <= Quota + Cardinality(Requests) - 1
    BY DEF UsageOvershootBounded
  <2>1. usage[u] = 0 /\ InFlight(u, "subscription") = {}
    BY DEF Init, InFlight
  <2>2. Cardinality(Requests) \in Nat /\ Cardinality(Requests) # 0 /\ Quota \in Nat
    BY RequestAssumption, NatAssumption, FS_EmptySet, FS_CardinalityType
  <2>3. Cardinality(InFlight(u, "subscription")) = 0
    BY <2>1, FS_EmptySet
  <2> QED
    BY <2>1, <2>2, <2>3
<1>2. TypeOK /\ UsageOvershootBounded /\ [Next]_vars => UsageOvershootBounded'
  BY UsageStep
<1> QED
  BY <1>1, <1>2, TypeCorrect, PTL DEF Spec
-----------------------------------------------------------------------------
(***************************************************************************)
(* The balance needs one fact more: until it is spent, every request       *)
(* served on credit was deducted.                                          *)
(***************************************************************************)
CreditInv ==
    \A u \in Users :
        /\ credits[u] > 0 => credits[u] + creditServed[u] = InitialCredits
        /\ creditServed[u] + Cardinality(InFlight(u, "credit"))
             <= InitialCredits + Cardinality(Requests) - 1

\* CreditInv is inductive without faults.
LEMMA CreditStep == ~Faults /\ TypeOK /\ CreditInv /\ [Next]_vars => CreditInv'
<1> SUFFICES ASSUME ~Faults, TypeOK, CreditInv, [Next]_vars, NEW u \in Users
             PROVE  /\ credits'[u] > 0 => credits'[u] + creditServed'[u] = InitialCredits
                    /\ creditServed'[u] + Cardinality(InFlight(u, "credit")')
                         <= InitialCredits + Cardinality(Requests) - 1
  BY DEF CreditInv
<1> DEFINE k == "credit"
           F == InFlight(u, k)
           Goal == /\ credits'[u] > 0 => credits'[u] + creditServed'[u] = InitialCredits
                   /\ creditServed'[u] + Cardinality(F')
                        <= InitialCredits + Cardinality(Requests) - 1
<1>k. k \in Charged
  BY DEF Charged
<1>n. /\ credits \in [Users -> Nat] /\ creditServed \in [Users -> Nat]
      /\ InitialCredits \in Nat /\ user \in [Requests -> Users]
      /\ pc \in [Requests -> Locations] /\ kind \in [Requests -> GrantKinds]
  BY NatAssumption DEF TypeOK
<1>f. /\ Cardinality(F) \in Nat /\ Cardinality(F') \in Nat
      /\ Cardinality(F') <= Cardinality(Requests)
      /\ Cardinality(Requests) \in Nat /\ Cardinality(Requests) >= 1
  BY <1>k, FlightSize
<1>i. /\ credits[u] > 0 => credits[u] + creditServed[u] = InitialCredits
      /\ creditServed[u] + Cardinality(F) <= InitialCredits + Cardinality(Requests) - 1
  BY DEF CreditInv
<1> HIDE DEF k, F
<1>c. ASSUME credits'[u] = credits[u], creditServed'[u] = creditServed[u],
             Cardinality(F') <= Cardinality(F)
      PROVE  Goal
  BY <1>c, <1>n, <1>f, <1>i
<1>1. CASE Calm
  <2>1. Cardinality(F') <= Cardinality(F)
    BY <1>1, <1>k, CalmSize DEF F
  <2>2. credits'[u] = credits[u] /\ creditServed'[u] = creditServed[u]
    BY <1>1 DEF Calm
  <2> QED
    BY <1>c, <2>1, <2>2 DEF F, k
<1>2. ASSUME NEW r \in Requests, CreditLeft(r) PROVE Goal
  <2>1. credits' = credits /\ creditServed' = creditServed /\ credits[user[r]] > 0
    BY <1>2 DEF CreditLeft
  <2>2. CASE user[r] = u
    BY <1>n, <1>f, <1>i, <2>1, <2>2
  <2>3. CASE user[r] # u
    <3>1. F' = F
      BY <1>2, <1>n, <2>3 DEF CreditLeft, Grant, GoTo, InFlight, F
    <3> QED
      BY <1>c, <1>f, <2>1, <3>1
  <2> QED
    BY <2>2, <2>3
<1>3. ASSUME NEW r \in Requests, DeductCredit(r) PROVE Goal
  <2>1. /\ pc[r] = "commit" /\ kind[r] = k /\ pc' = [pc EXCEPT ![r] = "cacheSet"]
        /\ UNCHANGED <<kind, user>>
        /\ creditServed' = [creditServed EXCEPT ![user[r]] = @ + 1]
    BY <1>3 DEF DeductCredit, GoTo, k
  <2>d. \/ /\ credits[user[r]] > 0
           /\ credits' = [credits EXCEPT ![user[r]] = @ - 1]
        \/ credits[user[r]] = 0 /\ credits' = credits
    BY <1>3 DEF DeductCredit
  <2>2. CASE user[r] = u
    <3>1. Cardinality(F') = Cardinality(F) - 1
      BY <1>k, <2>1, <2>2, ChargeSize DEF F
    <3>2. creditServed'[u] = creditServed[u] + 1
      BY <1>n, <2>1, <2>2
    <3>3. \/ credits[u] > 0 /\ credits'[u] = credits[u] - 1
          \/ credits[u] = 0 /\ credits'[u] = 0
      BY <1>n, <2>d, <2>2
    <3> QED
      BY <1>n, <1>f, <1>i, <3>1, <3>2, <3>3
  <2>3. CASE user[r] # u
    <3>1. F' = F
      BY <1>k, <2>1, <2>3, ChargeSize DEF F
    <3>2. creditServed'[u] = creditServed[u] /\ credits'[u] = credits[u]
      BY <1>n, <2>1, <2>d, <2>3
    <3> QED
      BY <1>c, <1>f, <3>1, <3>2
  <2> QED
    BY <2>2, <2>3
<1>4. ASSUME NEW r \in Requests, UsageLeft(r) \/ IncrementUsage(r) PROVE Goal
  <2>1. UNCHANGED <<credits, creditServed, user>>
    BY <1>4 DEF UsageLeft, IncrementUsage
  <2>2. PICK l, x : /\ pc' = [pc EXCEPT ![r] = l]
                    /\ kind' = kind \/ kind' = [kind EXCEPT ![r] = x]
                    /\ kind'[r] # k \/ l \notin {"work", "commit"}
    BY <1>4, <1>n DEF UsageLeft, IncrementUsage, Grant, GoTo, k
  <2>3. Cardinality(F') <= Cardinality(F)
    BY <1>k, <2>1, <2>2, OtherSize DEF F
  <2> QED
    BY <1>c, <2>1, <2>3
<1> QED
  BY <1>1, <1>2, <1>3, <1>4, FlightFrame DEF F, k

\* For any number of concurrent requests: while Postgres answers, a user's credits pay
\* for fewer requests than InitialCredits plus the requests that can be in flight.
THEOREM CreditOvershootSafe ==
    ASSUME ~Faults
    PROVE  Spec => []CreditOvershootBounded
<1>1. Init => CreditInv
  <2> SUFFICES ASSUME Init, NEW u \in Users
               PROVE  /\ credits[u] > 0 => credits[u] + creditServed[u] = InitialCredits
                      /\ creditServed[u] + Cardinality(InFlight(u, "credit"))
                           <= InitialCredits + Cardinality(Requests) - 1
    BY DEF CreditInv
  <2>1. /\ credits[u] = InitialCredits /\ creditServed[u] = 0
        /\ InFlight(u, "credit") = {}
    BY DEF Init, InFlight
  <2>2. /\ Cardinality(Requests) \in Nat /\ Cardinality(Requests) # 0
        /\ InitialCredits \in Nat
    BY RequestAssumption, NatAssumption, FS_EmptySet, FS_CardinalityType
  <2>3. Cardinality(InFlight(u, "credit")) = 0
    BY <2>1, FS_EmptySet
  <2> QED
    BY <2>1, <2>2, <2>3
<1>2. TypeOK /\ CreditInv /\ [Next]_vars => CreditInv'
  BY CreditStep
<1>3. CreditInv => CreditOvershootBounded
  BY DEF CreditInv, CreditOvershootBounded
<1> QED
  BY <1>1, <1>2, <1>3, TypeCorrect, PTL DEF Spec
-----------------------------------------------------------------------------
(***************************************************************************)
(* Cached access.  A request past its work has delivered, and a payment    *)
(* about to be cached is paid; neither set ever shrinks.                   *)
(***************************************************************************)
EarnedInv ==
    /\ verified \subseteq delivered \cup paid
    /\ paying \subseteq paid
    /\ \A r \in Requests :
          pc[r] \in {"commit", "cacheSet"} => <<user[r], mint[r]>> \in delivered

\* EarnedInv is inductive.
LEMMA EarnedStep == TypeOK /\ EarnedInv /\ [Next]_vars => EarnedInv'
<1> SUFFICES ASSUME TypeOK, EarnedInv, [Next]_vars PROVE EarnedInv'
  OBVIOUS
<1> USE DEF GoTo, Grant
<1>n. pc \in [Requests -> Locations] /\ user \in [Requests -> Users]
      /\ mint \in [Requests -> Mints]
  BY DEF TypeOK
<1>a. ASSUME UNCHANGED <<pc, user, mint>>, delivered' = delivered,
             paid \subseteq paid', paying' \subseteq paid', verified' \subseteq delivered \cup paid'
      PROVE  EarnedInv'
  BY <1>a DEF EarnedInv
<1>b. ASSUME NEW r \in Requests, NEW l, pc' = [pc EXCEPT ![r] = l],
             l \notin {"commit", "cacheSet"}, UNCHANGED <<user, mint>>,
             UNCHANGED <<verified, paid, paying, delivered>>
      PROVE  EarnedInv'
  BY <1>b, <1>n DEF EarnedInv
<1>1. CASE UNCHANGED vars
  BY <1>1, <1>a DEF EarnedInv
<1>2. ASSUME NEW r \in Requests, RequestStep(r) PROVE EarnedInv'
  <2>1. CASE CacheHit(r) \/ CacheMiss(r) \/ WorkFails(r)
    BY <1>b, <2>1 DEF CacheHit, CacheMiss, WorkFails
  <2>f. CASE Finish(r)
    <3>1. /\ pc' = [pc EXCEPT ![r] = "idle"]
          /\ UNCHANGED <<user, mint, verified, paid, paying, delivered>>
      BY <2>f DEF Finish, bgVars, dbVars
    <3>2. "idle" \notin {"commit", "cacheSet"}
      OBVIOUS
    <3> QED
      BY <1>b, <3>1, <3>2
  <2>2. CASE CheckFree(r)
    BY <1>b, <2>2 DEF CheckFree, FreeTake, FreeReplyLost, FreeRefuse
  <2>3. CASE SubCacheHit(r) \/ SubCacheMiss(r) \/ SubRead(r)
    BY <1>b, <2>3 DEF SubCacheHit, SubCacheMiss, SubRead, AfterSubscription
  <2>9. CASE SubReadFails(r) \/ SubFill(r)
    BY <1>b, <2>9 DEF SubReadFails, SubFill, AfterSubscription
  <2>4. CASE LimitCached(r) \/ LimitRead(r) \/ LimitFill(r) \/ UsageLeft(r) \/ UsageSpent(r)
    BY <1>b, <2>4 DEF LimitCached, LimitRead, LimitFill, UsageLeft, UsageSpent,
                      AfterSubscription
  <2>5. CASE CheckCredits(r)
    BY <1>b, <2>5 DEF CheckCredits, CreditLeft, CreditSpent, SinglePaid, SingleUnpaid,
                      BridgePaid, BridgeUnpaid
  <2>6. CASE WorkSucceeds(r)
    BY <1>n, <2>6 DEF WorkSucceeds, EarnedInv
  <2>7. CASE IncrementUsage(r) \/ DeductCredit(r)
    BY <1>n, <2>7 DEF IncrementUsage, DeductCredit, EarnedInv
  <2>8. CASE CacheAccess(r)
    <3>1. \/ verified' = verified \cup {<<user[r], mint[r]>>}
          \/ verified' = verified
      BY <2>8 DEF CacheAccess
    <3>2. <<user[r], mint[r]>> \in delivered
      BY <2>8 DEF CacheAccess, EarnedInv
    <3>3. /\ pc' = [pc EXCEPT ![r] = "served"]
          /\ UNCHANGED <<user, mint, paid, paying, delivered>>
      BY <2>8 DEF CacheAccess
    <3> QED
      BY <1>n, <3>1, <3>2, <3>3 DEF EarnedInv
  <2> QED
    BY <1>2, <2>1, <2>f, <2>2, <2>3, <2>4, <2>5, <2>6, <2>7, <2>8, <2>9
    DEF RequestStep, CheckSubscription, CommitUsage
<1>3. ASSUME NEW r \in Requests, NEW u \in Users, NEW m \in Mints, NEW a \in Handlers,
             Start(r, u, m, a)
      PROVE  EarnedInv'
  BY <1>3, <1>n DEF Start, EarnedInv
<1>4. CASE Crash
  BY <1>4 DEF Crash, EarnedInv
<1>5. ASSUME NEW u \in Users, \/ ProbeQuota(u) \/ Activate(u) \/ ResetUsage(u)
                              \/ Lapse(u) \/ ExpireSub(u)
      PROVE  EarnedInv'
  BY <1>5, <1>a DEF ProbeQuota, Activate, ResetUsage, Lapse, ExpireSub, EarnedInv
<1>6. ASSUME NEW u \in Users, NEW m \in Mints,
             MarkPaid(u, m) \/ CachePaid(u, m) \/ ExpireVerified(u, m)
      PROVE  EarnedInv'
  BY <1>6, <1>a DEF MarkPaid, CachePaid, ExpireVerified, EarnedInv
<1>7. ASSUME NEW u \in Users, NEW k \in Kinds, SyncFreeUsage(u, k) \/ ExpireFree(u, k)
      PROVE  EarnedInv'
  BY <1>7, <1>a DEF SyncFreeUsage, ExpireFree, EarnedInv
<1>8. ASSUME NEW d \in Dashboards, NEW u \in Users, NEW a \in Handlers,
             DashMiss(d, u, KindOf(a))
      PROVE  EarnedInv'
  BY <1>8, <1>a DEF DashMiss, EarnedInv
<1>9. ASSUME NEW d \in Dashboards, DashRead(d) \/ DashSet(d) PROVE EarnedInv'
  BY <1>9, <1>a DEF DashRead, DashSet, EarnedInv
<1> QED
  BY <1>1, <1>2, <1>3, <1>4, <1>5, <1>6, <1>7, <1>8, <1>9 DEF Next, Environment

\* An hour of cached access is only ever the echo of a full answer already served to
\* that user for that token, or of a verified payment, crashes and failed calls included.
THEOREM CachedAccessSafe == Spec => []CachedAccessWasEarned
<1>1. Init => EarnedInv
  BY DEF Init, EarnedInv
<1>2. TypeOK /\ EarnedInv /\ [Next]_vars => EarnedInv'
  BY EarnedStep
<1>3. EarnedInv => CachedAccessWasEarned
  BY DEF EarnedInv, CachedAccessWasEarned
<1> QED
  BY <1>1, <1>2, <1>3, TypeCorrect, PTL DEF Spec
-----------------------------------------------------------------------------
(***************************************************************************)
(* Charges.  A request owes nothing until it is granted, but for the free  *)
(* use of a lost reply; a free grant is charged at once and never          *)
(* committed, and the others are charged on their way out of "commit".     *)
(***************************************************************************)
ChargeInv == \A r \in Requests :
    /\ pc[r] \in {"idle", "cache", "free"} => spent[r] = {}
    /\ pc[r] \in {"denied", "commit"} \cup Checking => spent[r] \subseteq LostUse
    /\ pc[r] = "work" => spent[r] \subseteq {"free"}
    /\ pc[r] = "work" /\ kind[r] # "free" => spent[r] \subseteq LostUse
    /\ pc[r] = "failed" => spent[r] \subseteq {"free"}
    /\ \E c \in Charges : spent[r] \subseteq LostUse \cup {c}

\* A free grant is not committed.
LEMMA AfterWorkKinds ==
    ASSUME NEW r \in Requests
    PROVE  /\ AfterWork(r) \in {"cacheSet", "commit", "served"}
           /\ AfterWork(r) = "commit" => kind[r] # "free"
<1>1. CASE kind[r] \in {"free", "single_pay"}
  BY <1>1 DEF AfterWork
<1>2. CASE kind[r] \in {"subscription", "credit"}
  BY <1>2 DEF AfterWork
<1>3. CASE kind[r] \notin {"free", "single_pay", "subscription", "credit"}
  BY <1>3 DEF AfterWork
<1> QED
  BY <1>1, <1>2, <1>3

\* The only use a request can lose is a free one.
LEMMA LostUseFree == LostUse \subseteq {"free"} /\ (Faults => LostUse = {"free"})
BY DEF LostUse

\* A request that moves from check to check, or is refused, still owes nothing more.
LEMMA CheckCharge ==
    ASSUME TypeOK, ChargeInv, NEW r \in Requests,
           CacheHit(r) \/ CacheMiss(r) \/ CheckFree(r) \/ CheckSubscription(r)
             \/ CheckCredits(r)
    PROVE  ChargeInv'
<1> USE DEF GoTo, Grant
<1>n. pc \in [Requests -> Locations] /\ kind \in [Requests -> GrantKinds]
      /\ spent \in [Requests -> SUBSET Charges]
  BY DEF TypeOK
<1>c. /\ Checking = {"cache", "free", "subCache", "subDB", "subFill", "limit", "limitFill",
                     "usage", "credit", "single", "bridge"}
      /\ AfterSubscription(r) \in {"denied"} \cup (Checking \ {"cache", "free"})
  BY DEF Checking, AfterSubscription
<1>o. ASSUME \A q \in Requests \ {r} : spent'[q] = spent[q] /\ pc'[q] = pc[q] /\ kind'[q] = kind[q],
             pc'[r] \in {"work", "denied"} \cup (Checking \ {"cache"}),
             pc'[r] = "free" => spent'[r] = {},
             spent'[r] \subseteq LostUse
               \/ (pc'[r] = "work" /\ kind'[r] = "free" /\ spent'[r] = {"free"})
      PROVE  ChargeInv'
  <2>1. LostUse' = LostUse
    BY DEF LostUse
  <2>2. \A q \in Requests \ {r} :
          /\ pc'[q] \in {"idle", "cache", "free"} => spent'[q] = {}
          /\ pc'[q] \in {"denied", "commit"} \cup Checking => spent'[q] \subseteq LostUse
          /\ pc'[q] = "work" => spent'[q] \subseteq {"free"}
          /\ pc'[q] = "work" /\ kind'[q] # "free" => spent'[q] \subseteq LostUse
          /\ pc'[q] = "failed" => spent'[q] \subseteq {"free"}
          /\ \E c \in Charges : spent'[q] \subseteq LostUse \cup {c}
    BY <1>o DEF ChargeInv
  <2>3. /\ pc'[r] \in {"idle", "cache", "free"} => spent'[r] = {}
        /\ pc'[r] \in {"denied", "commit"} \cup Checking => spent'[r] \subseteq LostUse
        /\ pc'[r] = "work" => spent'[r] \subseteq {"free"}
        /\ pc'[r] = "work" /\ kind'[r] # "free" => spent'[r] \subseteq LostUse
        /\ pc'[r] # "failed"
        /\ spent'[r] \subseteq LostUse \cup {"free"}
    BY <1>o, <1>c, LostUseFree
  <2> QED
    BY <2>1, <2>2, <2>3 DEF ChargeInv, Charges
<1>g. ASSUME pc[r] \in Checking, NEW l \in {"denied"} \cup (Checking \ {"cache", "free"}),
             GoTo(r, l), UNCHANGED <<kind, spent>>
      PROVE  ChargeInv'
  <2>1. spent'[r] \subseteq LostUse /\ pc'[r] = l
    BY <1>g, <1>n, <1>c DEF ChargeInv
  <2> QED
    BY <1>g, <1>n, <1>o, <2>1, <1>c
<1>k. ASSUME pc[r] \in Checking, NEW k, Grant(r, k), UNCHANGED spent
      PROVE  ChargeInv'
  <2>1. spent'[r] \subseteq LostUse /\ pc'[r] = "work"
    BY <1>k, <1>n, <1>c DEF ChargeInv
  <2> QED
    BY <1>k, <1>n, <1>o, <2>1
<1>f. ASSUME pc[r] = "free", GoTo(r, "work") \/ GoTo(r, "subCache"), Charge(r, "free")
      PROVE  /\ spent'[r] = {"free"} /\ pc'[r] \in {"work", "subCache"}
             /\ \A q \in Requests \ {r} : spent'[q] = spent[q] /\ pc'[q] = pc[q]
  <2>1. spent[r] = {}
    BY <1>f DEF ChargeInv
  <2> QED
    BY <1>f, <1>n, <2>1 DEF Charge
<1>1. CASE CacheHit(r)
  BY <1>1, <1>c, <1>k DEF CacheHit
<1>2. CASE CacheMiss(r)
  <2>1. spent[r] = {} /\ pc'[r] = "free" /\ UNCHANGED <<kind, spent>>
    BY <1>2, <1>n DEF CacheMiss, ChargeInv
  <2> QED
    BY <1>2, <1>n, <1>c, <1>o, <2>1 DEF CacheMiss
<1>3. CASE FreeTake(r)
  <2>1. pc[r] = "free" /\ Charge(r, "free") /\ Grant(r, "free")
    BY <1>3 DEF FreeTake
  <2>2. pc'[r] = "work" /\ kind'[r] = "free"
    BY <1>n, <2>1
  <2>3. \A q \in Requests \ {r} : kind'[q] = kind[q]
    BY <1>n, <2>1
  <2> QED
    BY <1>f, <1>o, <2>1, <2>2, <2>3
<1>4. CASE FreeReplyLost(r)
  <2>1. Faults /\ pc[r] = "free" /\ Charge(r, "free") /\ GoTo(r, "subCache") /\ kind' = kind
    BY <1>4 DEF FreeReplyLost
  <2>2. pc'[r] = "subCache"
    BY <1>n, <2>1
  <2> QED
    BY <1>c, <1>f, <1>o, <2>1, <2>2, LostUseFree
<1>5. CASE FreeRefuse(r)
  BY <1>5, <1>c, <1>g DEF FreeRefuse
<1>6. CASE SubCacheHit(r) \/ SubCacheMiss(r) \/ SubRead(r) \/ SubReadFails(r)
  BY <1>6, <1>c, <1>g DEF SubCacheHit, SubCacheMiss, SubRead, SubReadFails
<1>7. CASE SubFill(r)
  BY <1>7, <1>c, <1>g DEF SubFill
<1>8. CASE LimitCached(r) \/ LimitRead(r) \/ LimitFill(r)
  BY <1>8, <1>c, <1>g DEF LimitCached, LimitRead, LimitFill
<1>9. CASE UsageLeft(r)
  BY <1>9, <1>c, <1>k DEF UsageLeft
<1>10. CASE UsageSpent(r)
  BY <1>10, <1>c, <1>g DEF UsageSpent
<1>11. CASE CreditLeft(r) \/ SinglePaid(r) \/ BridgePaid(r)
  BY <1>11, <1>c, <1>k DEF CreditLeft, SinglePaid, BridgePaid
<1>12. CASE CreditSpent(r) \/ SingleUnpaid(r) \/ BridgeUnpaid(r)
  BY <1>12, <1>c, <1>g DEF CreditSpent, SingleUnpaid, BridgeUnpaid
<1> QED
  BY <1>1, <1>2, <1>3, <1>4, <1>5, <1>6, <1>7, <1>8, <1>9, <1>10, <1>11, <1>12
     DEF CheckFree, CheckSubscription, CheckCredits

\* The work, CommitUsage and the end of a request.
LEMMA CommitCharge ==
    ASSUME TypeOK, ChargeInv, NEW r \in Requests,
           WorkSucceeds(r) \/ WorkFails(r) \/ CommitUsage(r) \/ Finish(r)
    PROVE  ChargeInv'
<1> USE DEF GoTo
<1>n. pc \in [Requests -> Locations] /\ kind \in [Requests -> GrantKinds]
      /\ spent \in [Requests -> SUBSET Charges]
  BY DEF TypeOK
<1>c. {"work", "commit", "cacheSet", "served", "failed"} \cap Checking = {}
  BY DEF Checking
<1>u. LostUse' = LostUse
  BY DEF LostUse
<1>1. CASE WorkSucceeds(r)
  <2>1. pc[r] = "work" /\ pc'[r] = AfterWork(r) /\ UNCHANGED <<kind, spent>>
    BY <1>1, <1>n DEF WorkSucceeds
  <2>2. \A q \in Requests \ {r} : pc'[q] = pc[q]
    BY <1>1, <1>n DEF WorkSucceeds
  <2> QED
    BY <1>c, <1>u, <2>1, <2>2, AfterWorkKinds DEF ChargeInv
<1>2. CASE WorkFails(r)
  BY <1>2, <1>n, <1>c, <1>u DEF WorkFails, ChargeInv
<1>3. CASE IncrementUsage(r) \/ DeductCredit(r)
  <2>1. PICK c \in Charges : spent' \in {spent, [spent EXCEPT ![r] = @ \cup {c}]}
    BY <1>3 DEF IncrementUsage, DeductCredit, Charge, Charges
  <2>2. spent[r] \subseteq LostUse /\ pc'[r] = "cacheSet"
    BY <1>3, <1>n DEF IncrementUsage, DeductCredit, ChargeInv
  <2>3. \A q \in Requests \ {r} : spent'[q] = spent[q] /\ pc'[q] = pc[q] /\ kind'[q] = kind[q]
    BY <1>3, <1>n, <2>1 DEF IncrementUsage, DeductCredit
  <2>4. spent'[r] \subseteq LostUse \cup {c}
    BY <1>n, <2>1, <2>2
  <2> QED
    BY <1>c, <1>u, <2>2, <2>3, <2>4 DEF ChargeInv
<1>4. CASE CacheAccess(r)
  BY <1>4, <1>n, <1>c, <1>u DEF CacheAccess, ChargeInv
<1>5. CASE Finish(r)
  <2>1. pc'[r] = "idle" /\ spent'[r] = {}
    BY <1>5, <1>n DEF Finish
  <2>2. \A q \in Requests \ {r} : spent'[q] = spent[q] /\ pc'[q] = pc[q] /\ kind'[q] = kind[q]
    BY <1>5, <1>n DEF Finish
  <2> QED
    BY <1>c, <1>u, <2>1, <2>2 DEF ChargeInv, Charges
<1> QED
  BY <1>1, <1>2, <1>3, <1>4, <1>5 DEF CommitUsage

requestState == <<pc, kind, user, api, spent>>

\* Nothing but requests and crashes moves a request.
LEMMA RequestFrame ==
    ASSUME [Next]_vars
    PROVE  \/ UNCHANGED requestState
           \/ \E r \in Requests : RequestStep(r)
           \/ \E r \in Requests, u \in Users, m \in Mints, a \in Handlers : Start(r, u, m, a)
           \/ Crash
<1> USE DEF requestState
<1>1. ASSUME NEW u \in Users, \/ ProbeQuota(u) \/ Activate(u) \/ ResetUsage(u)
                              \/ Lapse(u) \/ ExpireSub(u)
      PROVE  UNCHANGED requestState
  BY <1>1 DEF ProbeQuota, Activate, ResetUsage, Lapse, ExpireSub
<1>2. ASSUME NEW u \in Users, NEW m \in Mints,
             MarkPaid(u, m) \/ CachePaid(u, m) \/ ExpireVerified(u, m)
      PROVE  UNCHANGED requestState
  BY <1>2 DEF MarkPaid, CachePaid, ExpireVerified
<1>3. ASSUME NEW u \in Users, NEW k \in Kinds, SyncFreeUsage(u, k) PROVE UNCHANGED requestState
  BY <1>3 DEF SyncFreeUsage
<1>4. ASSUME NEW u \in Users, NEW k \in Kinds, ExpireFree(u, k) PROVE UNCHANGED requestState
  BY <1>4 DEF ExpireFree
<1>5. ASSUME NEW d \in Dashboards, DashRead(d) \/ DashSet(d) PROVE UNCHANGED requestState
  BY <1>5 DEF DashRead, DashSet
<1>6. ASSUME NEW d \in Dashboards, NEW u \in Users, NEW a \in Handlers,
             DashMiss(d, u, KindOf(a))
      PROVE  UNCHANGED requestState
  BY <1>6 DEF DashMiss
<1> QED
  BY <1>1, <1>2, <1>3, <1>4, <1>5, <1>6 DEF Next, Environment

\* ChargeInv is inductive; a crash takes the requests and what they owed with it.
LEMMA ChargeStep == TypeOK /\ ChargeInv /\ [Next]_vars => ChargeInv'
<1> SUFFICES ASSUME TypeOK, ChargeInv, [Next]_vars PROVE ChargeInv'
  OBVIOUS
<1>u. LostUse' = LostUse
  BY DEF LostUse
<1>1. CASE UNCHANGED requestState
  BY <1>1, <1>u DEF requestState, ChargeInv
<1>2. ASSUME NEW r \in Requests, RequestStep(r) PROVE ChargeInv'
  BY <1>2, CheckCharge, CommitCharge DEF RequestStep
<1>3. ASSUME NEW r \in Requests, NEW u \in Users, NEW m \in Mints, NEW a \in Handlers,
             Start(r, u, m, a)
      PROVE  ChargeInv'
  <2>1. /\ pc'[r] = "cache" /\ spent'[r] = {}
        /\ \A q \in Requests \ {r} : spent'[q] = spent[q] /\ pc'[q] = pc[q] /\ kind'[q] = kind[q]
    BY <1>3 DEF Start, GoTo, ChargeInv, TypeOK
  <2> QED
    BY <1>u, <2>1 DEF ChargeInv, Charges
<1>4. CASE Crash
  <2>1. \A r \in Requests : pc'[r] = "idle" /\ spent'[r] = {}
    BY <1>4 DEF Crash
  <2> QED
    BY <2>1 DEF ChargeInv, Charges, Checking
<1> QED
  BY <1>1, <1>2, <1>3, <1>4, RequestFrame

\* ChargeInv holds of every behaviour, faults and crashes included.
LEMMA ChargeInvariant == Spec => []ChargeInv
<1>1. Init => ChargeInv
  BY DEF Init, ChargeInv, Charges
<1>2. TypeOK /\ ChargeInv /\ [Next]_vars => ChargeInv'
  BY ChargeStep
<1> QED
  BY <1>1, <1>2, TypeCorrect, PTL DEF Spec

\* However the requests of a user interleave, whatever replies are lost and whenever the
\* process dies, each is charged to one account at most.
THEOREM ChargedOnceSafe == Spec => []ChargedAtMostOnce
<1>1. ChargeInv => ChargedAtMostOnce
  <2> SUFFICES ASSUME ChargeInv, NEW r \in Requests
               PROVE  Cardinality(spent[r] \ LostUse) <= 1
    BY DEF ChargedAtMostOnce
  <2>1. PICK c \in Charges : spent[r] \subseteq LostUse \cup {c}
    BY DEF ChargeInv
  <2>2. spent[r] \ LostUse = {} \/ spent[r] \ LostUse = {c}
    BY <2>1
  <2>3. Cardinality({}) = 0 /\ Cardinality({c}) = 1
    BY FS_EmptySet, FS_Singleton
  <2>4. Cardinality(spent[r] \ LostUse) \in {0, 1}
    BY <2>2, <2>3
  <2> QED
    BY <2>4
<1> QED
  BY <1>1, ChargeInvariant, PTL

\* A failed request cost at most a free use, a refused one nothing but a free use that
\* was lost with a reply: no error path reaches CommitUsage, with or without faults.
THEOREM UnservedSafe == Spec => []UnservedKeepsQuota
<1>1. ChargeInv => UnservedKeepsQuota
  BY DEF ChargeInv, UnservedKeepsQuota
<1> QED
  BY <1>1, ChargeInvariant, PTL
-----------------------------------------------------------------------------
(***************************************************************************)
(* The order of the accounts.  Once a request has been refused by the free *)
(* tier its counter stays at the limit, unless it was lost, which the      *)
(* allowance remembers.                                                    *)
(***************************************************************************)
Gone(u, k) == freeCnt[u][k] >= FreeLimit[k] \/ allowance[u][k] > FreeLimit[k]

Refused == {"subCache", "subDB", "subFill", "limit", "limitFill", "usage", "credit", "single",
            "bridge"}

OrderInv ==
    /\ \A u \in Users, k \in Kinds : allowance[u][k] >= FreeLimit[k]
    /\ \A r \in Requests :
          /\ pc[r] \in Refused \/ kind[r] \in {"subscription", "credit"}
                => Gone(user[r], FreeKind(r))
          /\ pc[r] = "idle" => kind[r] = ""

\* A request's kind of use is one of the two.
LEMMA FreeKindType == \A r \in Requests : FreeKind(r) \in Kinds
  BY DEF FreeKind, KindOf, Kinds

\* What is gone stays gone.
LEMMA GoneStays ==
    ASSUME TypeOK, OrderInv, [Next]_vars, NEW u \in Users, NEW k \in Kinds
    PROVE  allowance'[u][k] >= FreeLimit[k] /\ (Gone(u, k) => Gone(u, k)')
<1>n. /\ freeCnt \in [Users -> [Kinds -> Nat]] /\ allowance \in [Users -> [Kinds -> Nat]]
      /\ dval \in [Dashboards -> Nat] /\ FreeLimit \in [Kinds -> Nat]
      /\ freeCnt[u][k] \in Nat /\ allowance[u][k] \in Nat /\ FreeLimit[k] \in Nat
      /\ allowance[u][k] >= FreeLimit[k]
  BY LimitAssumption DEF TypeOK, OrderInv
<1>1. ASSUME allowance' = allowance, freeCnt'[u][k] >= freeCnt[u][k], freeCnt'[u][k] \in Nat
      PROVE  allowance'[u][k] >= FreeLimit[k] /\ (Gone(u, k) => Gone(u, k)')
  BY <1>n, <1>1 DEF Gone
<1>2. ASSUME NEW v \in Users, NEW j \in Kinds, LoseCounter(v, j), freeCnt'[u][k] \in Nat,
             u # v \/ k # j => freeCnt'[u][k] = freeCnt[u][k]
      PROVE  allowance'[u][k] >= FreeLimit[k] /\ (Gone(u, k) => Gone(u, k)')
  <2>1. CASE u = v /\ k = j
    <3>1. allowance'[u][k] = allowance[u][k] + FreeLimit[k]
      BY <1>n, <1>2, <2>1 DEF LoseCounter
    <3> QED
      BY <1>n, <1>2, <3>1 DEF Gone
  <2>2. CASE u # v \/ k # j
    <3>1. allowance'[u][k] = allowance[u][k]
      BY <1>n, <1>2, <2>2 DEF LoseCounter
    <3> QED
      BY <1>n, <1>2, <2>2, <3>1 DEF Gone
  <2> QED
    BY <2>1, <2>2
<1>3. CASE UNCHANGED freeState
  BY <1>1, <1>3, <1>n DEF freeState
<1>4. ASSUME NEW r \in Requests, FreeTake(r) \/ FreeReplyLost(r)
      PROVE  allowance'[u][k] >= FreeLimit[k] /\ (Gone(u, k) => Gone(u, k)')
  <2>1. FreeIncr(user[r], FreeKind(r)) /\ allowance' = allowance
    BY <1>4 DEF FreeTake, FreeReplyLost
  <2>2. freeCnt'[u][k] \in {freeCnt[u][k], freeCnt[u][k] + 1}
    BY <1>n, <2>1 DEF FreeIncr
  <2> QED
    BY <1>1, <1>n, <2>1, <2>2
<1>5. ASSUME NEW v \in Users, NEW j \in Kinds, SyncFreeUsage(v, j)
      PROVE  allowance'[u][k] >= FreeLimit[k] /\ (Gone(u, k) => Gone(u, k)')
  BY <1>1, <1>5, <1>n DEF SyncFreeUsage
<1>6. ASSUME NEW v \in Users, NEW j \in Kinds, ExpireFree(v, j)
      PROVE  allowance'[u][k] >= FreeLimit[k] /\ (Gone(u, k) => Gone(u, k)')
  <2>1. /\ freeCnt'[u][k] \in Nat
        /\ u # v \/ k # j => freeCnt'[u][k] = freeCnt[u][k]
        /\ freeCnt[v][j] = 0 => freeCnt'[u][k] = freeCnt[u][k]
    BY <1>6, <1>n DEF ExpireFree
  <2>2. LoseCounter(v, j) \/ (freeCnt[v][j] = 0 /\ allowance' = allowance)
    BY <1>6, <1>n DEF ExpireFree
  <2> QED
    BY <1>1, <1>2, <1>n, <2>1, <2>2
<1>7. ASSUME NEW d \in Dashboards, DashSet(d)
      PROVE  allowance'[u][k] >= FreeLimit[k] /\ (Gone(u, k) => Gone(u, k)')
  <2>d. duser[d] \in Users /\ dkind[d] \in Kinds /\ dval[d] \in Nat
    BY DEF TypeOK
  <2>1. /\ freeCnt'[u][k] \in Nat
        /\ u # duser[d] \/ k # dkind[d] => freeCnt'[u][k] = freeCnt[u][k]
        /\ u = duser[d] /\ k = dkind[d] => freeCnt'[u][k] = dval[d]
    BY <1>7, <1>n, <2>d DEF DashSet
  <2>2. \/ LoseCounter(duser[d], dkind[d])
        \/ dval[d] >= freeCnt[duser[d]][dkind[d]] /\ allowance' = allowance
    BY <1>7, <1>n, <2>d DEF DashSet
  <2> QED
    BY <1>1, <1>2, <1>n, <2>d, <2>1, <2>2
<1>8. CASE Crash
  <2>1. UNCHANGED <<freeCnt, allowance>>
    BY <1>8 DEF Crash
  <2> QED
    BY <1>1, <1>n, <2>1
<1> QED
  BY <1>3, <1>4, <1>5, <1>6, <1>7, <1>8, FreeFrame

\* OrderInv is inductive while nothing fails.
LEMMA OrderStep == ~Faults /\ TypeOK /\ OrderInv /\ [Next]_vars => OrderInv'
<1> SUFFICES ASSUME ~Faults, TypeOK, OrderInv, [Next]_vars PROVE OrderInv'
  OBVIOUS
<1> USE DEF GoTo, Grant
<1>n. /\ pc \in [Requests -> Locations] /\ kind \in [Requests -> GrantKinds]
      /\ user \in [Requests -> Users] /\ api \in [Requests -> BOOLEAN]
  BY DEF TypeOK
<1>g. /\ \A u \in Users, k \in Kinds : allowance'[u][k] >= FreeLimit[k]
      /\ \A u \in Users, k \in Kinds : Gone(u, k) => Gone(u, k)'
  BY GoneStays
<1>k. \A r \in Requests : FreeKind(r) \in Kinds /\ user[r] \in Users
  BY <1>n, FreeKindType
<1>a. ASSUME UNCHANGED <<pc, kind, user, api>> PROVE OrderInv'
  <2>1. \A r \in Requests : FreeKind(r)' = FreeKind(r) /\ user'[r] = user[r]
    BY <1>a DEF FreeKind
  <2> QED
    BY <1>a, <1>g, <1>k, <2>1 DEF OrderInv
<1>b. ASSUME NEW r \in Requests, UNCHANGED <<user, api>>,
             \A q \in Requests \ {r} : pc'[q] = pc[q] /\ kind'[q] = kind[q],
             pc'[r] \in Refused \/ kind'[r] \in {"subscription", "credit"}
                => Gone(user[r], FreeKind(r)),
             pc'[r] # "idle"
      PROVE  OrderInv'
  <2>1. \A q \in Requests : FreeKind(q)' = FreeKind(q) /\ user'[q] = user[q]
    BY <1>b DEF FreeKind
  <2> QED
    BY <1>b, <1>g, <1>k, <2>1 DEF OrderInv
<1>1. CASE UNCHANGED requestState
  BY <1>1, <1>a DEF requestState
<1>2. ASSUME NEW r \in Requests, CacheHit(r) \/ CacheMiss(r) \/ FreeTake(r) PROVE OrderInv'
  <2>1. /\ UNCHANGED <<user, api>>
        /\ \A q \in Requests \ {r} : pc'[q] = pc[q] /\ kind'[q] = kind[q]
        /\ pc'[r] \notin Refused \cup {"idle"}
        /\ kind'[r] \in {kind[r], "cache", "free"}
    BY <1>2, <1>n DEF CacheHit, CacheMiss, FreeTake, Refused
  <2> QED
    BY <1>b, <2>1 DEF OrderInv
<1>3. ASSUME NEW r \in Requests, FreeRefuse(r) PROVE OrderInv'
  <2>1. Gone(user[r], FreeKind(r))
    BY <1>3 DEF FreeRefuse, Gone
  <2>2. /\ UNCHANGED <<user, api>> /\ pc'[r] = "subCache"
        /\ \A q \in Requests \ {r} : pc'[q] = pc[q] /\ kind'[q] = kind[q]
    BY <1>3, <1>n DEF FreeRefuse
  <2> QED
    BY <1>b, <2>1, <2>2
<1>4. ASSUME NEW r \in Requests, CheckSubscription(r) \/ CheckCredits(r) PROVE OrderInv'
  <2>1. pc[r] \in Refused
    BY <1>4 DEF CheckSubscription, SubCacheHit, SubCacheMiss, SubRead, SubReadFails, SubFill,
       LimitCached, LimitRead, LimitFill, UsageLeft, UsageSpent, CheckCredits, CreditLeft,
       CreditSpent, SinglePaid, SingleUnpaid, BridgePaid, BridgeUnpaid, Refused
  <2>2. CASE CheckSubscription(r)
    <3>1. /\ UNCHANGED <<user, api>> /\ pc'[r] # "idle"
          /\ \A q \in Requests \ {r} : pc'[q] = pc[q] /\ kind'[q] = kind[q]
      BY <1>n, <2>2 DEF CheckSubscription, SubCacheHit, SubCacheMiss, SubRead, SubReadFails,
         SubFill, LimitCached, LimitRead, LimitFill, UsageLeft, UsageSpent, AfterSubscription
    <3> QED
      BY <1>b, <2>1, <3>1 DEF OrderInv
  <2>3. CASE CheckCredits(r)
    <3>1. /\ UNCHANGED <<user, api>> /\ pc'[r] # "idle"
          /\ \A q \in Requests \ {r} : pc'[q] = pc[q] /\ kind'[q] = kind[q]
      BY <1>n, <2>3 DEF CheckCredits, CreditLeft, CreditSpent, SinglePaid, SingleUnpaid,
         BridgePaid, BridgeUnpaid
    <3> QED
      BY <1>b, <2>1, <3>1 DEF OrderInv
  <2> QED
    BY <1>4, <2>2, <2>3
<1>5. ASSUME NEW r \in Requests, WorkSucceeds(r) \/ WorkFails(r) \/ CommitUsage(r)
      PROVE  OrderInv'
  <2>1. /\ UNCHANGED <<user, api, kind>>
        /\ \A q \in Requests \ {r} : pc'[q] = pc[q]
    BY <1>5, <1>n DEF WorkSucceeds, WorkFails, CommitUsage, IncrementUsage, DeductCredit,
       CacheAccess
  <2>2. pc'[r] \in {"commit", "cacheSet", "served", "failed"}
    BY <1>5, <1>n, AfterWorkKinds DEF WorkSucceeds, WorkFails, CommitUsage, IncrementUsage,
       DeductCredit, CacheAccess
  <2> QED
    BY <1>b, <2>1, <2>2 DEF OrderInv, Refused
<1>6. ASSUME NEW r \in Requests, Finish(r) PROVE OrderInv'
  <2>1. /\ pc'[r] = "idle" /\ kind'[r] = "" /\ user' = user
        /\ \A q \in Requests \ {r} : pc'[q] = pc[q] /\ kind'[q] = kind[q] /\ api'[q] = api[q]
    BY <1>6, <1>n DEF Finish
  <2>2. \A q \in Requests \ {r} : FreeKind(q)' = FreeKind(q) /\ user'[q] = user[q]
    BY <2>1 DEF FreeKind
  <2> QED
    BY <1>g, <1>k, <2>1, <2>2 DEF OrderInv, Refused
<1>7. ASSUME NEW r \in Requests, NEW u \in Users, NEW m \in Mints, NEW a \in Handlers,
             Start(r, u, m, a)
      PROVE  OrderInv'
  <2>1. /\ pc'[r] = "cache" /\ kind' = kind /\ kind[r] = ""
        /\ \A q \in Requests \ {r} : pc'[q] = pc[q] /\ user'[q] = user[q] /\ api'[q] = api[q]
    BY <1>7, <1>n DEF Start, OrderInv
  <2>2. \A q \in Requests \ {r} : FreeKind(q)' = FreeKind(q)
    BY <2>1 DEF FreeKind
  <2> QED
    BY <1>g, <1>k, <2>1, <2>2 DEF OrderInv, Refused
<1>8. ~Crash
  BY DEF Crash
<1> QED
  BY <1>1, <1>2, <1>3, <1>4, <1>5, <1>6, <1>7, <1>8, RequestFrame
     DEF RequestStep, CheckFree, FreeReplyLost

\* While nothing fails, quota and balance are only granted on once the free uses of the
\* kind are gone, or their counter was lost: CheckAccess asks the free tier first, and
\* what it refused does not come back without LoseCounter.
THEOREM FreeFirstSafe ==
    ASSUME ~Faults
    PROVE  Spec => []FreeAllowanceSpentFirst
<1>1. Init => OrderInv
  <2>1. \A k \in Kinds : FreeLimit[k] \in Nat
    BY LimitAssumption
  <2> SUFFICES ASSUME Init PROVE OrderInv
    OBVIOUS
  <2>2. \A u \in Users, k \in Kinds : allowance[u][k] = FreeLimit[k]
    BY DEF Init
  <2>3. \A r \in Requests : pc[r] = "idle" /\ kind[r] = ""
    BY DEF Init
  <2>4. \A u \in Users, k \in Kinds : allowance[u][k] >= FreeLimit[k]
    BY <2>1, <2>2
  <2>5. \A r \in Requests : pc[r] \notin Refused /\ kind[r] \notin {"subscription", "credit"}
    BY <2>3 DEF Refused
  <2> QED
    BY <2>3, <2>4, <2>5 DEF OrderInv
<1>2. TypeOK /\ OrderInv /\ [Next]_vars => OrderInv'
  BY OrderStep
<1>3. OrderInv => FreeAllowanceSpentFirst
  BY DEF OrderInv, Gone, FreeAllowanceSpentFirst
<1> QED
  BY <1>1, <1>2, <1>3, TypeCorrect, PTL DEF Spec
-----------------------------------------------------------------------------
(***************************************************************************)
(* Grants.  What a request was granted for is there while it works: rows   *)
(* and payments are never taken back, and bots never get past the          *)
(* subscription.                                                           *)
(***************************************************************************)
Pair(r) == <<user[r], mint[r]>>
Working(r) == pc[r] \in {"work", "commit"}

Justified(r) ==
    /\ pc[r] \in {"limitFill", "usage"} => sub[user[r]] # "none"
    /\ pc[r] \in {"credit", "single", "bridge"} => ~api[r]
    /\ Working(r) /\ kind[r] = "cache" => Pair(r) \in delivered \cup paid
    /\ Working(r) /\ kind[r] = "subscription" => sub[user[r]] # "none"
    /\ Working(r) /\ kind[r] = "credit" => ~api[r]
    /\ Working(r) /\ kind[r] \in {"single_pay", "bridge"} => ~api[r] /\ Pair(r) \in paid

\* A limit is cached of a row only.
LimitInv == \A u \in Users : subLimit[u] => sub[u] # "none"

GrantInv == LimitInv /\ \A r \in Requests : Justified(r)

\* Nobody loses a row, a payment or an earned look-up.
Keeps ==
    /\ \A u \in Users : sub[u] # "none" => sub'[u] # "none"
    /\ paid \subseteq paid' /\ delivered \subseteq delivered'

\* A step that moves no request keeps their grants justified.
LEMMA JustifiedFrame ==
    ASSUME TypeOK, NEW r \in Requests, Justified(r), Keeps,
           /\ pc'[r] = pc[r] /\ kind'[r] = kind[r] /\ user'[r] = user[r]
           /\ mint'[r] = mint[r] /\ api'[r] = api[r]
    PROVE  Justified(r)'
<1>1. user[r] \in Users
  BY DEF TypeOK
<1> QED
  BY <1>1 DEF Justified, Working, Pair, Keeps

\* A request that goes on to a check or an answer is justified when it has the row that
\* the check is about, and is no bot's beyond the subscription.
LEMMA GrantMove ==
    ASSUME NEW r \in Requests,
           ~Working(r)',
           pc'[r] \in {"limitFill", "usage"} => sub'[user'[r]] # "none",
           pc'[r] \in {"credit", "single", "bridge"} => ~api'[r]
    PROVE  Justified(r)'
  BY DEF Justified

\* Each check grants only what it has found.
LEMMA CheckJustified ==
    ASSUME TypeOK, GrantInv, CachedAccessWasEarned, NEW r \in Requests,
           CacheHit(r) \/ CacheMiss(r) \/ CheckFree(r) \/ CheckSubscription(r)
             \/ CheckCredits(r)
    PROVE  Justified(r)'
<1> USE DEF GoTo, Grant
<1>n. /\ pc \in [Requests -> Locations] /\ kind \in [Requests -> GrantKinds]
      /\ user[r] \in Users /\ api[r] \in BOOLEAN
      /\ Justified(r)
      /\ \A u \in Users : subLimit[u] => sub[u] # "none"
  BY DEF TypeOK, GrantInv, LimitInv
<1>1. CASE CacheHit(r)
  <2>1. pc'[r] = "work" /\ kind'[r] = "cache" /\ Pair(r)' \in delivered' \cup paid'
    BY <1>n, <1>1 DEF CacheHit, CachedAccessWasEarned, Pair, dbVars, histVars
  <2> QED
    BY <2>1 DEF Justified, Working
<1>2. CASE CacheMiss(r)
  BY <1>n, <1>2 DEF CacheMiss, Justified, Working
<1>3. CASE CheckFree(r)
  BY <1>n, <1>3 DEF CheckFree, FreeTake, FreeReplyLost, FreeRefuse, Justified, Working
<1>4. ASSUME pc'[r] \in {"subDB", "subFill", "limit", AfterSubscription(r)}, api' = api
      PROVE  Justified(r)'
  BY <1>4, GrantMove DEF AfterSubscription, Working
<1>5. CASE SubCacheHit(r) \/ SubCacheMiss(r) \/ SubRead(r) \/ SubReadFails(r) \/ SubFill(r)
  BY <1>n, <1>4, <1>5 DEF SubCacheHit, SubCacheMiss, SubRead, SubReadFails, SubFill
<1>6. ASSUME pc'[r] \in {"limitFill", "usage"}, sub[user[r]] # "none", sub' = sub, user' = user
      PROVE  Justified(r)'
  BY <1>6, GrantMove DEF Working
<1>7. CASE LimitCached(r)
  BY <1>n, <1>6, <1>7 DEF LimitCached, dbVars
<1>8. CASE LimitRead(r)
  BY <1>n, <1>4, <1>6, <1>8 DEF LimitRead, dbVars
<1>9. CASE LimitFill(r)
  BY <1>n, <1>6, <1>9 DEF LimitFill, dbVars, Justified
<1>10. CASE UsageLeft(r)
  <2>1. sub[user[r]] # "none"
    BY <1>n, <1>10 DEF UsageLeft, Justified
  <2> QED
    BY <1>n, <1>10, <2>1 DEF UsageLeft, dbVars, Justified, Working
<1>11. CASE UsageSpent(r)
  BY <1>n, <1>4, <1>11 DEF UsageSpent
<1>12. CASE CheckCredits(r)
  <2>1. ~api[r]
    BY <1>n, <1>12 DEF CheckCredits, CreditLeft, CreditSpent, SinglePaid, SingleUnpaid,
                       BridgePaid, BridgeUnpaid, Justified
  <2>2. CASE CreditLeft(r) \/ CreditSpent(r) \/ SingleUnpaid(r) \/ BridgeUnpaid(r)
    BY <1>n, <2>1, <2>2 DEF CreditLeft, CreditSpent, SingleUnpaid, BridgeUnpaid, Justified,
                            Working
  <2>3. CASE SinglePaid(r) \/ BridgePaid(r)
    BY <1>n, <2>1, <2>3 DEF SinglePaid, BridgePaid, Justified, Working, Pair, dbVars
  <2> QED
    BY <1>12, <2>2, <2>3 DEF CheckCredits
<1> QED
  BY <1>1, <1>2, <1>3, <1>5, <1>7, <1>8, <1>9, <1>10, <1>11, <1>12 DEF CheckSubscription

\* The rest of a request is justified by what it was granted for.
LEMMA WorkJustified ==
    ASSUME TypeOK, GrantInv, NEW r \in Requests,
           WorkSucceeds(r) \/ WorkFails(r) \/ CommitUsage(r) \/ Finish(r)
    PROVE  Justified(r)'
<1> USE DEF GoTo
<1>n. pc \in [Requests -> Locations] /\ Justified(r)
  BY DEF TypeOK, GrantInv
<1>1. CASE WorkSucceeds(r)
  <2>1. /\ pc[r] = "work" /\ pc'[r] \in {"cacheSet", "commit", "served"}
        /\ delivered \subseteq delivered'
        /\ UNCHANGED <<kind, user, mint, api, sub, paid>>
    BY <1>n, <1>1, AfterWorkKinds DEF WorkSucceeds, dbVars
  <2> QED
    BY <1>n, <2>1 DEF Justified, Working, Pair
<1>2. CASE WorkFails(r) \/ CommitUsage(r) \/ Finish(r)
  <2>1. pc'[r] \in {"failed", "cacheSet", "served", "idle"}
    BY <1>n, <1>2 DEF WorkFails, CommitUsage, IncrementUsage, DeductCredit, CacheAccess, Finish
  <2> QED
    BY <2>1, GrantMove DEF Working
<1> QED
  BY <1>1, <1>2

\* What a step of one request leaves alone, and keeps.
LEMMA GrantFrame ==
    ASSUME TypeOK, NEW r \in Requests, RequestStep(r)
    PROVE  /\ Keeps /\ sub' = sub
           /\ \A q \in Requests \ {r} :
                 /\ pc'[q] = pc[q] /\ kind'[q] = kind[q] /\ user'[q] = user[q]
                 /\ mint'[q] = mint[q] /\ api'[q] = api[q]
           /\ subLimit' = subLimit \/ (pc[r] = "limitFill" /\ subLimit' = [subLimit EXCEPT ![user[r]] = TRUE])
<1> USE DEF GoTo, Grant, Keeps, dbVars, cacheVars, histVars
<1>n. /\ pc \in [Requests -> Locations] /\ kind \in [Requests -> GrantKinds]
      /\ api \in [Requests -> BOOLEAN]
  BY DEF TypeOK
<1>1. CASE CacheHit(r) \/ CacheMiss(r) \/ WorkSucceeds(r) \/ WorkFails(r)
  BY <1>n, <1>1 DEF CacheHit, CacheMiss, WorkSucceeds, WorkFails
<1>2. CASE CheckFree(r)
  BY <1>n, <1>2 DEF CheckFree, FreeTake, FreeReplyLost, FreeRefuse
<1>3. CASE SubCacheHit(r) \/ SubCacheMiss(r) \/ SubRead(r) \/ SubReadFails(r) \/ SubFill(r)
  BY <1>n, <1>3 DEF SubCacheHit, SubCacheMiss, SubRead, SubReadFails, SubFill
<1>4. CASE LimitCached(r) \/ LimitRead(r) \/ LimitFill(r)
  BY <1>n, <1>4 DEF LimitCached, LimitRead, LimitFill
<1>5. CASE UsageLeft(r) \/ UsageSpent(r) \/ CheckCredits(r)
  BY <1>n, <1>5 DEF UsageLeft, UsageSpent, CheckCredits, CreditLeft, CreditSpent, SinglePaid,
                    SingleUnpaid, BridgePaid, BridgeUnpaid
<1>6. CASE CommitUsage(r)
  BY <1>n, <1>6 DEF CommitUsage, IncrementUsage, DeductCredit, CacheAccess
<1>7. CASE Finish(r)
  BY <1>n, <1>7 DEF Finish
<1> QED
  BY <1>1, <1>2, <1>3, <1>4, <1>5, <1>6, <1>7 DEF RequestStep, CheckSubscription

\* Payments, activations, expiries and dashboards take nothing back either, and only the
\* quota page caches a limit: that of a row.
LEMMA GrantEnvironment ==
    ASSUME TypeOK, LimitInv, Environment, ~Crash
    PROVE  Keeps /\ LimitInv' /\ UNCHANGED reqVars
<1> USE DEF Keeps, LimitInv, dbVars, cacheVars, histVars
<1>n. sub \in [Users -> {"none", "active", "lapsed"}] /\ subLimit \in [Users -> BOOLEAN]
  BY DEF TypeOK
<1>1. ASSUME NEW u \in Users, Activate(u) \/ Lapse(u)
      PROVE  Keeps /\ LimitInv' /\ UNCHANGED reqVars
  <2>1. /\ UNCHANGED <<subLimit, paid, delivered, reqVars>>
        /\ \/ sub' = [sub EXCEPT ![u] = "active"]
           \/ sub' = [sub EXCEPT ![u] = "lapsed"]
    BY <1>1 DEF Activate, Lapse
  <2> QED
    BY <1>n, <2>1
<1>2. ASSUME NEW u \in Users, ProbeQuota(u) \/ ResetUsage(u) \/ ExpireSub(u)
      PROVE  Keeps /\ LimitInv' /\ UNCHANGED reqVars
  BY <1>n, <1>2 DEF ProbeQuota, ResetUsage, ExpireSub
<1>3. ASSUME NEW u \in Users, NEW m \in Mints,
             MarkPaid(u, m) \/ CachePaid(u, m) \/ ExpireVerified(u, m)
      PROVE  Keeps /\ LimitInv' /\ UNCHANGED reqVars
  BY <1>3 DEF MarkPaid, CachePaid, ExpireVerified
<1>4. ASSUME NEW u \in Users, NEW k \in Kinds, SyncFreeUsage(u, k) \/ ExpireFree(u, k)
      PROVE  Keeps /\ LimitInv' /\ UNCHANGED reqVars
  BY <1>4 DEF SyncFreeUsage, ExpireFree
<1>5. ASSUME NEW d \in Dashboards,
             DashRead(d) \/ DashSet(d)
               \/ \E u \in Users, a \in Handlers : DashMiss(d, u, KindOf(a))
      PROVE  Keeps /\ LimitInv' /\ UNCHANGED reqVars
  BY <1>5 DEF DashRead, DashSet, DashMiss
<1> QED
  BY <1>1, <1>2, <1>3, <1>4, <1>5 DEF Environment

\* GrantInv is inductive, given what is cached was earned.
LEMMA GrantStep == TypeOK /\ GrantInv /\ CachedAccessWasEarned /\ [Next]_vars => GrantInv'
<1> SUFFICES ASSUME TypeOK, GrantInv, CachedAccessWasEarned, [Next]_vars PROVE GrantInv'
  OBVIOUS
<1>1. CASE UNCHANGED vars
  BY <1>1 DEF vars, dbVars, cacheVars, reqVars, histVars, GrantInv, LimitInv, Justified,
              Working, Pair
<1>2. ASSUME NEW r \in Requests, RequestStep(r) PROVE GrantInv'
  <2>1. Justified(r)'
    BY <1>2, CheckJustified, WorkJustified DEF RequestStep
  <2>2. \A q \in Requests \ {r} : Justified(q)'
    BY <1>2, GrantFrame, JustifiedFrame DEF GrantInv
  <2>3. LimitInv'
    <3>1. \A u \in Users : subLimit[u] => sub[u] # "none"
      BY DEF GrantInv, LimitInv
    <3>2. sub' = sub
      BY <1>2, GrantFrame
    <3>3. CASE subLimit' = subLimit
      BY <3>1, <3>2, <3>3 DEF LimitInv
    <3>4. CASE pc[r] = "limitFill" /\ subLimit' = [subLimit EXCEPT ![user[r]] = TRUE]
      <4>1. sub[user[r]] # "none"
        BY <3>4 DEF GrantInv, Justified
      <4>2. \A u \in Users : u # user[r] => subLimit'[u] = subLimit[u]
        BY <3>4 DEF TypeOK
      <4> QED
        BY <3>1, <3>2, <4>1, <4>2 DEF LimitInv
    <3> QED
      BY <1>2, <3>3, <3>4, GrantFrame
  <2> QED
    BY <2>1, <2>2, <2>3 DEF GrantInv
<1>3. ASSUME NEW r \in Requests, NEW u \in Users, NEW m \in Mints, NEW a \in Handlers,
             Start(r, u, m, a)
      PROVE  GrantInv'
  <2>1. /\ Keeps /\ LimitInv' /\ pc' = [pc EXCEPT ![r] = "cache"]
        /\ kind' = kind
        /\ user' = [user EXCEPT ![r] = u] /\ mint' = [mint EXCEPT ![r] = m]
        /\ api' = [api EXCEPT ![r] = a]
    BY <1>3 DEF Start, GoTo, Keeps, GrantInv, LimitInv, dbVars, cacheVars, histVars
  <2>2. pc'[r] = "cache"
    BY <2>1 DEF TypeOK
  <2>3. Justified(r)'
    BY <2>2, GrantMove DEF Working
  <2>4. \A q \in Requests \ {r} : Justified(q)'
    BY <2>1, JustifiedFrame DEF GrantInv, TypeOK
  <2> QED
    BY <2>1, <2>3, <2>4 DEF GrantInv
<1>4. CASE Crash
  BY <1>4 DEF Crash, GrantInv, LimitInv, Justified, Working, dbVars, cacheVars
<1>5. CASE Environment /\ ~Crash
  BY <1>5, GrantEnvironment, JustifiedFrame DEF GrantInv, reqVars
<1> QED
  BY <1>1, <1>2, <1>3, <1>4, <1>5 DEF Next

\* GrantInv holds of every run.
LEMMA GrantInvariant == Spec => []GrantInv
<1>1. ASSUME Init PROVE GrantInv
  <2>1. \A r \in Requests : pc[r] = "idle"
    BY <1>1 DEF Init
  <2>2. \A u \in Users : subLimit[u] = FALSE
    BY <1>1 DEF Init
  <2>3. LimitInv
    BY <2>2 DEF LimitInv
  <2> QED
    BY <2>1, <2>3 DEF GrantInv, Justified, Working
<1> QED
  BY <1>1, GrantStep, TypeCorrect, CachedAccessSafe, PTL DEF Spec

\* While a request works, what it was granted for is there: the row of its subscription,
\* the payment for its token, or an earned look-up; and a bot is never let in by credits,
\* by a single payment or by the handler's bridge.
GrantsJustified == \A r \in Requests : pc[r] \in {"work", "commit"} =>
    /\ kind[r] = "subscription" => sub[user[r]] # "none"
    /\ kind[r] = "cache" => Pair(r) \in delivered \cup paid
    /\ kind[r] \in {"single_pay", "bridge"} => Pair(r) \in paid
    /\ kind[r] \in {"credit", "single_pay", "bridge"} => ~api[r]

\* No stale cache entry, failed call or crash lets a request in for something its user
\* does not have.
THEOREM GrantsSafe == Spec => []GrantsJustified
<1>1. GrantInv => GrantsJustified
  BY DEF GrantInv, Justified, Working, GrantsJustified
<1> QED
  BY <1>1, GrantInvariant, PTL
-----------------------------------------------------------------------------
(***************************************************************************)
(* The gate implements Subscription.                                       *)
(***************************************************************************)
\* Nothing but a commit of usage, an activation, its reset, an expiry or a crash touches
\* what Subscription is about.
LEMMA SubscriptionFrame ==
    ASSUME [Next]_vars
    PROVE  \/ UNCHANGED <<sub, usage, renewing>>
           \/ \E r \in Requests : IncrementUsage(r)
           \/ \E u \in Users : Activate(u) \/ ResetUsage(u) \/ Lapse(u)
           \/ Crash
<1> USE DEF dbVars, bgVars
<1>1. ASSUME NEW r \in Requests, RequestStep(r), ~IncrementUsage(r)
      PROVE  UNCHANGED <<sub, usage, renewing>>
  <2>1. CASE CacheHit(r) \/ CacheMiss(r) \/ CheckFree(r) \/ WorkSucceeds(r) \/ WorkFails(r)
    BY <2>1 DEF CacheHit, CacheMiss, CheckFree, FreeTake, FreeReplyLost, FreeRefuse,
                WorkSucceeds, WorkFails
  <2>2. CASE CheckSubscription(r)
    BY <2>2 DEF CheckSubscription, SubCacheHit, SubCacheMiss, SubRead, SubReadFails, SubFill,
                LimitCached, LimitRead, LimitFill, UsageLeft, UsageSpent
  <2>3. CASE CheckCredits(r)
    BY <2>3 DEF CheckCredits, CreditLeft, CreditSpent, SinglePaid, SingleUnpaid, BridgePaid,
                BridgeUnpaid
  <2>4. CASE DeductCredit(r) \/ CacheAccess(r) \/ Finish(r)
    BY <2>4 DEF DeductCredit, CacheAccess, Finish
  <2> QED
    BY <1>1, <2>1, <2>2, <2>3, <2>4 DEF RequestStep, CommitUsage
<1>2. ASSUME NEW u \in Users, NEW m \in Mints,
             MarkPaid(u, m) \/ CachePaid(u, m) \/ ExpireVerified(u, m)
      PROVE  UNCHANGED <<sub, usage, renewing>>
  BY <1>2 DEF MarkPaid, CachePaid, ExpireVerified
<1>3. ASSUME NEW u \in Users, NEW k \in Kinds,
             SyncFreeUsage(u, k) \/ ExpireFree(u, k) \/ ProbeQuota(u) \/ ExpireSub(u)
      PROVE  UNCHANGED <<sub, usage, renewing>>
  BY <1>3 DEF SyncFreeUsage, ExpireFree, ProbeQuota, ExpireSub
<1>4. ASSUME NEW d \in Dashboards,
             DashRead(d) \/ DashSet(d)
               \/ \E u \in Users, a \in Handlers : DashMiss(d, u, KindOf(a))
      PROVE  UNCHANGED <<sub, usage, renewing>>
  BY <1>4 DEF DashRead, DashSet, DashMiss
<1>5. ASSUME NEW r \in Requests, NEW u \in Users, NEW m \in Mints, NEW a \in Handlers,
             Start(r, u, m, a)
      PROVE  UNCHANGED <<sub, usage, renewing>>
  BY <1>5 DEF Start
<1>6. CASE UNCHANGED vars
  BY <1>6 DEF vars
<1>k. \E k \in Kinds : TRUE
  BY DEF Kinds
<1> QED
  BY <1>1, <1>2, <1>3, <1>4, <1>5, <1>6, <1>k DEF Next, Environment

\* Every step of the gate is one of Subscription.
LEMMA SubscriptionStep ==
    TypeOK /\ GrantInv /\ [Next]_vars => [Subscribed!Next]_(Subscribed!vars)
<1> SUFFICES ASSUME TypeOK, GrantInv, [Next]_vars, ~UNCHANGED <<sub, usage, renewing>>
             PROVE  Subscribed!Next
  BY DEF Subscribed!vars
<1>1. ASSUME NEW r \in Requests, IncrementUsage(r) PROVE Subscribed!Next
  <2>1. user[r] \in Users /\ sub[user[r]] # "none"
    BY <1>1 DEF IncrementUsage, TypeOK, GrantInv, Justified, Working
  <2>2. UNCHANGED <<sub, renewing>> /\ usage' = [usage EXCEPT ![user[r]] = @ + 1]
    BY <1>1 DEF IncrementUsage, dbVars, bgVars
  <2> QED
    BY <2>1, <2>2 DEF Subscribed!Next, Subscribed!Use
<1>2. ASSUME NEW u \in Users, Activate(u) PROVE Subscribed!Next
  BY <1>2 DEF Activate, Subscribed!Next, Subscribed!Commit
<1>3. ASSUME NEW u \in Users, ResetUsage(u) PROVE Subscribed!Next
  BY <1>3 DEF ResetUsage, dbVars, Subscribed!Next, Subscribed!Reset
<1>4. ASSUME NEW u \in Users, Lapse(u) PROVE Subscribed!Next
  BY <1>4 DEF Lapse, bgVars, Subscribed!Next, Subscribed!Lapse
<1>5. CASE Crash
  BY <1>5 DEF Crash, dbVars, Subscribed!Next, Subscribed!Forget
<1> QED
  BY <1>1, <1>2, <1>3, <1>4, <1>5, SubscriptionFrame

\* The gate implements Subscription: no use is counted against a user without a row,
\* whatever the caches still said of him, and only a committed activation clears usage.
THEOREM SubscriptionFollowed == Spec => FollowsSubscription
<1>1. Init => Subscribed!Init
  BY DEF Init, Subscribed!Init
<1> QED
  BY <1>1, SubscriptionStep, TypeCorrect, GrantInvariant, PTL
     DEF Spec, FollowsSubscription, Subscribed!Spec
=============================================================================
