----------------------------- MODULE AccessGate -----------------------------
(***************************************************************************)
(* Who may see a token's verdict, and what it costs: CheckAccess and       *)
(* CommitUsage of internal/repository/payment.go, driven by the two        *)
(* handlers that gate on them (TokenAnalysisHandler for the UI,            *)
(* SniperVerdictHandler for bots) and disturbed by everything that touches *)
(* the same rows and keys: the quota page, the payment fulfilment, the     *)
(* asynchronous write of the free counter, key expiry and process crashes. *)
(*                                                                         *)
(* Every request is a process that takes ONE database or Redis operation   *)
(* per step, so that steps of several requests of a user interleave as     *)
(* they do on a server.  Nothing in the code locks across two of them; the *)
(* only atomic read-and-write are the Lua script and the guarded UPDATE.   *)
(*                                                                         *)
(* Abstractions.  Prices, reasons and HTTP bodies are left out.  A missing *)
(* user_credits row is a balance of 0, which is how every statement treats *)
(* it; InitUserCredits is therefore no step.  The teaser path reads no     *)
(* counter and is left out.  quota_limit is the constant Quota: changes of *)
(* plan are the business of module Fulfilment.                             *)
(***************************************************************************)
EXTENDS Naturals, FiniteSets

CONSTANTS
    Users,          \* authenticated users
    Mints,          \* token addresses
    Requests,       \* handler goroutines that can be in flight together
    Handlers,       \* SUBSET BOOLEAN: FALSE the UI handler, TRUE the bots' one
    Dashboards,     \* goroutines inside GetFreeUsage (the quota page)
    FreeLimit,      \* [Kinds -> Nat]: FreeUIScans and FreeAPIUses
    Subscribers,    \* users who have, or may buy, a subscription
    Payable,        \* <<user, mint>> pairs somebody pays for
    Quota,          \* quota_limit of the subscription row
    InitialCredits, \* balance every user starts with
    Faults,         \* TRUE: Redis and database calls may fail, the process may crash
    MaxAllowance,   \* bound: free counters are not lost beyond this allowance
    MaxOver         \* bound: failed calls do not push usage or creditServed past it

Kinds == {"ui", "api"}
KindOf(a) == IF a THEN "api" ELSE "ui"

ASSUME LimitAssumption == FreeLimit \in [Kinds -> Nat]
ASSUME NatAssumption == {Quota, InitialCredits, MaxAllowance, MaxOver} \subseteq Nat
ASSUME FaultAssumption == Faults \in BOOLEAN /\ Handlers \subseteq BOOLEAN
ASSUME RequestAssumption == IsFiniteSet(Requests) /\ Requests # {}

VARIABLES
    \* Postgres
    credits,      \* user_credits.balance
    paid,         \* <<user, mint>> with a payment in status 'success'
    sub,          \* the user_subscriptions row: "none", "active" or "lapsed" (expired)
    freeUsed,     \* users.free_scans_used and users.free_api_used
    \* Redis
    verified,     \* keys payment_verified:<user>:<mint>
    freeCnt,      \* free:user:<user>:<kind>, 0 when the key is absent
    freeKey,      \* that key: "absent", "persistent" or "expiring"
    usage,        \* usage:user:<user>
    subActive,    \* sub_active:<user>: "absent", "true" or "false"
    subLimit,     \* sub_limit:<user>: TRUE iff the limit is cached
    \* requests
    pc, user, mint, api, kind, seen,
    \* goroutines and half-done fulfilments
    syncs,        \* number of pending UPDATE users ... + 1
    paying,       \* <<user, mint>> marked paid, access not cached yet
    renewing,     \* users whose activation is committed, usage not yet deleted
    dpc, duser, dkind, dval,
    \* history, read by properties only
    freeGrants,   \* free grants handed out
    allowance,    \* free grants the counter can have authorised
    creditServed, \* requests granted on credit that reached CommitUsage
    delivered,    \* <<user, mint>> analysed successfully for a granted request
    spent         \* what each request has been charged so far

dbVars    == <<credits, paid, sub, freeUsed>>
freeVars  == <<freeCnt, freeKey>>
cacheVars == <<subActive, subLimit>>
reqVars   == <<pc, user, mint, api, kind, seen>>
bgVars    == <<syncs, paying, renewing>>
dashVars  == <<dpc, duser, dkind, dval>>
histVars  == <<freeGrants, allowance, creditServed, delivered, spent>>
vars == <<dbVars, verified, freeVars, usage, cacheVars, reqVars, bgVars, dashVars, histVars>>

\* The request's position: the next call it makes, or how it was answered.
Answered  == {"served", "failed", "denied"}
Checking  == {"cache", "free", "subCache", "subDB", "subFill", "limit", "limitFill",
              "usage", "credit", "single", "bridge"}
Granted   == {"work", "commit", "cacheSet"}
Locations == {"idle"} \cup Checking \cup Granted \cup Answered
\* CheckAccess's second result; "bridge" is the ungranted request the handler lets pass.
GrantKinds == {"", "cache", "free", "subscription", "credit", "single_pay", "bridge"}
Charges   == {"free", "usage", "credit"}

FreeKind(r) == KindOf(api[r])

Init ==
    /\ credits = [u \in Users |-> InitialCredits]
    /\ paid = {}
    /\ sub \in {s \in [Users -> {"none", "active"}] :
                \A u \in Users \ Subscribers : s[u] = "none"}
    /\ freeUsed = [u \in Users |-> [k \in Kinds |-> 0]]
    /\ verified = {}
    /\ freeCnt = [u \in Users |-> [k \in Kinds |-> 0]]
    /\ freeKey = [u \in Users |-> [k \in Kinds |-> "absent"]]
    /\ usage = [u \in Users |-> 0]
    /\ subActive = [u \in Users |-> "absent"]
    /\ subLimit = [u \in Users |-> FALSE]
    /\ pc = [r \in Requests |-> "idle"]
    /\ user \in [Requests -> Users] /\ mint \in [Requests -> Mints]
    /\ api = [r \in Requests |-> FALSE]
    /\ kind = [r \in Requests |-> ""]
    /\ seen = [r \in Requests |-> FALSE]
    /\ syncs = [u \in Users |-> [k \in Kinds |-> 0]]
    /\ paying = {} /\ renewing = {}
    /\ dpc = [d \in Dashboards |-> "idle"]
    /\ duser \in [Dashboards -> Users] /\ dkind \in [Dashboards -> Kinds]
    /\ dval = [d \in Dashboards |-> 0]
    /\ freeGrants = [u \in Users |-> [k \in Kinds |-> 0]]
    /\ allowance = [u \in Users |-> FreeLimit]
    /\ creditServed = [u \in Users |-> 0]
    /\ delivered = {}
    /\ spent = [r \in Requests |-> {}]
-----------------------------------------------------------------------------
\* A step of request r to location l that writes no row and no key.
GoTo(r, l) == pc' = [pc EXCEPT ![r] = l]
Grant(r, k) == GoTo(r, "work") /\ kind' = [kind EXCEPT ![r] = k]
Charge(r, c) == spent' = [spent EXCEPT ![r] = @ \cup {c}]

\* Where CheckAccess goes once the subscription has refused: bots stop here.
AfterSubscription(r) == IF api[r] THEN "denied" ELSE "credit"

\* A request enters its handler; a is TRUE for SniperVerdictHandler.
Start(r, u, m, a) ==
    /\ pc[r] = "idle"
    /\ GoTo(r, "cache")
    /\ user' = [user EXCEPT ![r] = u]
    /\ mint' = [mint EXCEPT ![r] = m]
    /\ api' = [api EXCEPT ![r] = a]
    /\ UNCHANGED <<dbVars, verified, freeVars, usage, cacheVars, kind, seen, bgVars,
                   dashVars, histVars>>

\* checkCache: GET payment_verified; an error counts as a miss.
CacheHit(r) ==
    /\ pc[r] = "cache"
    /\ <<user[r], mint[r]>> \in verified
    /\ Grant(r, "cache")
    /\ UNCHANGED <<dbVars, verified, freeVars, usage, cacheVars, user, mint, api, seen,
                   bgVars, dashVars, histVars>>

\* Mutant: the subscription is asked before the free tier.
CacheMissToSubscription(r) ==
    /\ pc[r] = "cache"
    /\ <<user[r], mint[r]>> \notin verified \/ Faults
    /\ GoTo(r, "subCache")
    /\ UNCHANGED <<dbVars, verified, freeVars, usage, cacheVars, user, mint, api, kind,
                   seen, bgVars, dashVars, histVars>>

CacheMiss(r) ==
    /\ pc[r] = "cache"
    /\ <<user[r], mint[r]>> \notin verified \/ Faults
    /\ GoTo(r, "free")
    /\ UNCHANGED <<dbVars, verified, freeVars, usage, cacheVars, user, mint, api, kind,
                   seen, bgVars, dashVars, histVars>>

\* Mutant: the script compares with > instead of >=.
FreeIncrOneMore(u, k) ==
    /\ freeCnt[u][k] <= FreeLimit[k]
    /\ freeCnt' = [freeCnt EXCEPT ![u][k] = @ + 1]
    /\ freeKey' = [freeKey EXCEPT ![u][k] = IF @ = "absent" THEN "persistent" ELSE @]

\* The Lua script: compare and increment in one step, an absent key being 0.
FreeIncr(u, k) ==
    /\ freeCnt[u][k] < FreeLimit[k]
    /\ freeCnt' = [freeCnt EXCEPT ![u][k] = @ + 1]
    /\ freeKey' = [freeKey EXCEPT ![u][k] = IF @ = "absent" THEN "persistent" ELSE @]

\* Mutant: the grant is not returned, CheckAccess falls through to the subscription.
FreeTakeFallsThrough(r) ==
    LET u == user[r]  k == FreeKind(r)  IN
    /\ pc[r] = "free"
    /\ FreeIncr(u, k)
    /\ syncs' = [syncs EXCEPT ![u][k] = @ + 1]
    /\ freeGrants' = [freeGrants EXCEPT ![u][k] = @ + 1]
    /\ GoTo(r, "subCache")
    /\ Charge(r, "free")
    /\ UNCHANGED <<dbVars, verified, usage, cacheVars, user, mint, api, kind, seen, paying,
                   renewing, dashVars, allowance, creditServed, delivered>>

\* checkFreeTier grants: the counter is charged here, before any work is done,
\* and a goroutine is left behind that writes the use to the users table.
FreeTake(r) ==
    LET u == user[r]  k == FreeKind(r)  IN
    /\ pc[r] = "free"
    /\ FreeIncr(u, k)
    /\ syncs' = [syncs EXCEPT ![u][k] = @ + 1]
    /\ freeGrants' = [freeGrants EXCEPT ![u][k] = @ + 1]
    /\ Grant(r, "free")
    /\ Charge(r, "free")
    /\ UNCHANGED <<dbVars, verified, usage, cacheVars, user, mint, api, seen, paying,
                   renewing, dashVars, allowance, creditServed, delivered>>

\* Mutant: the database is told of the use although it was not granted.
FreeReplyLostSynced(r) ==
    /\ Faults
    /\ pc[r] = "free"
    /\ FreeIncr(user[r], FreeKind(r))
    /\ syncs' = [syncs EXCEPT ![user[r]][FreeKind(r)] = @ + 1]
    /\ GoTo(r, "subCache")
    /\ Charge(r, "free")
    /\ UNCHANGED <<dbVars, verified, usage, cacheVars, user, mint, api, kind, seen, paying,
                   renewing, dashVars, freeGrants, allowance, creditServed, delivered>>

\* The script ran, its reply was lost: the use is counted but not granted.
FreeReplyLost(r) ==
    /\ Faults
    /\ pc[r] = "free"
    /\ FreeIncr(user[r], FreeKind(r))
    /\ GoTo(r, "subCache")
    /\ Charge(r, "free")
    /\ UNCHANGED <<dbVars, verified, usage, cacheVars, user, mint, api, kind, seen, bgVars,
                   dashVars, freeGrants, allowance, creditServed, delivered>>

FreeRefuse(r) ==
    /\ pc[r] = "free"
    /\ freeCnt[user[r]][FreeKind(r)] >= FreeLimit[FreeKind(r)] \/ Faults
    /\ GoTo(r, "subCache")
    /\ UNCHANGED <<dbVars, verified, freeVars, usage, cacheVars, user, mint, api, kind,
                   seen, bgVars, dashVars, histVars>>

\* IsProSubscriber, Redis check.
SubCacheHit(r) ==
    /\ pc[r] = "subCache"
    /\ subActive[user[r]] # "absent"
    /\ GoTo(r, IF subActive[user[r]] = "true" THEN "limit" ELSE AfterSubscription(r))
    /\ UNCHANGED <<dbVars, verified, freeVars, usage, cacheVars, user, mint, api, kind,
                   seen, bgVars, dashVars, histVars>>

SubCacheMiss(r) ==
    /\ pc[r] = "subCache"
    /\ subActive[user[r]] = "absent" \/ Faults
    /\ GoTo(r, "subDB")
    /\ UNCHANGED <<dbVars, verified, freeVars, usage, cacheVars, user, mint, api, kind,
                   seen, bgVars, dashVars, histVars>>

\* IsProSubscriber, Postgres check: the answer is kept in a local variable.
SubRead(r) ==
    /\ pc[r] = "subDB"
    /\ seen' = [seen EXCEPT ![r] = sub[user[r]] = "active"]
    /\ GoTo(r, "subFill")
    /\ UNCHANGED <<dbVars, verified, freeVars, usage, cacheVars, user, mint, api, kind,
                   bgVars, dashVars, histVars>>

SubReadFails(r) ==
    /\ Faults
    /\ pc[r] = "subDB"
    /\ GoTo(r, AfterSubscription(r))
    /\ UNCHANGED <<dbVars, verified, freeVars, usage, cacheVars, user, mint, api, kind,
                   seen, bgVars, dashVars, histVars>>

\* The cache is backfilled with what was read, however old that is by now.
SubFill(r) ==
    /\ pc[r] = "subFill"
    /\ \/ subActive' = [subActive EXCEPT ![user[r]] = IF seen[r] THEN "true" ELSE "false"]
       \/ Faults /\ UNCHANGED subActive
    /\ seen' = [seen EXCEPT ![r] = FALSE]
    /\ GoTo(r, IF seen[r] THEN "limit" ELSE AfterSubscription(r))
    /\ UNCHANGED <<dbVars, verified, freeVars, usage, subLimit, user, mint, api, kind,
                   bgVars, dashVars, histVars>>

\* GetQuotaRemaining, the limit: cached, or read from an 'active' row whatever its
\* expiry and then cached.  No row: remaining is 0.  A cached 0 is a miss.
LimitCached(r) ==
    /\ pc[r] = "limit"
    /\ subLimit[user[r]] /\ Quota # 0
    /\ GoTo(r, "usage")
    /\ UNCHANGED <<dbVars, verified, freeVars, usage, cacheVars, user, mint, api, kind,
                   seen, bgVars, dashVars, histVars>>

LimitRead(r) ==
    /\ pc[r] = "limit"
    /\ ~subLimit[user[r]] \/ Quota = 0 \/ Faults
    /\ \/ sub[user[r]] # "none" /\ GoTo(r, "limitFill")
       \/ (sub[user[r]] = "none" \/ Faults) /\ GoTo(r, AfterSubscription(r))
    /\ UNCHANGED <<dbVars, verified, freeVars, usage, cacheVars, user, mint, api, kind,
                   seen, bgVars, dashVars, histVars>>

LimitFill(r) ==
    /\ pc[r] = "limitFill"
    /\ \/ subLimit' = [subLimit EXCEPT ![user[r]] = TRUE]
       \/ Faults /\ UNCHANGED subLimit
    /\ GoTo(r, "usage")
    /\ UNCHANGED <<dbVars, verified, freeVars, usage, subActive, user, mint, api, kind,
                   seen, bgVars, dashVars, histVars>>

\* Mutants: remaining >= 0 grants; the quota is charged where it is checked.
UsageLeftOneMore(r) ==
    /\ pc[r] = "usage"
    /\ usage[user[r]] <= Quota
    /\ Grant(r, "subscription")
    /\ UNCHANGED <<dbVars, verified, freeVars, usage, cacheVars, user, mint, api, seen,
                   bgVars, dashVars, histVars>>

UsageLeftCharges(r) ==
    /\ pc[r] = "usage"
    /\ usage[user[r]] < Quota
    /\ usage' = [usage EXCEPT ![user[r]] = @ + 1]
    /\ Grant(r, "subscription")
    /\ Charge(r, "usage")
    /\ UNCHANGED <<dbVars, verified, freeVars, cacheVars, user, mint, api, seen, bgVars,
                   dashVars, freeGrants, allowance, creditServed, delivered>>

\* GetQuotaRemaining, the usage: a failed GET reads 0.  checkSubscription only looks.
UsageLeft(r) ==
    /\ pc[r] = "usage"
    /\ usage[user[r]] < Quota \/ (Faults /\ Quota > 0 /\ usage[user[r]] < MaxOver)
    /\ Grant(r, "subscription")
    /\ UNCHANGED <<dbVars, verified, freeVars, usage, cacheVars, user, mint, api, seen,
                   bgVars, dashVars, histVars>>

UsageSpent(r) ==
    /\ pc[r] = "usage"
    /\ usage[user[r]] >= Quota
    /\ GoTo(r, AfterSubscription(r))
    /\ UNCHANGED <<dbVars, verified, freeVars, usage, cacheVars, user, mint, api, kind,
                   seen, bgVars, dashVars, histVars>>

\* Mutant: balance >= 0 grants.
CreditLeftOneMore(r) ==
    /\ pc[r] = "credit"
    /\ credits[user[r]] >= 0
    /\ Grant(r, "credit")
    /\ UNCHANGED <<dbVars, verified, freeVars, usage, cacheVars, user, mint, api, seen,
                   bgVars, dashVars, histVars>>

\* checkCredits, the balance: only looked at, deducted after the work.
CreditLeft(r) ==
    /\ pc[r] = "credit"
    /\ credits[user[r]] > 0
    /\ Grant(r, "credit")
    /\ UNCHANGED <<dbVars, verified, freeVars, usage, cacheVars, user, mint, api, seen,
                   bgVars, dashVars, histVars>>

CreditSpent(r) ==
    /\ pc[r] = "credit"
    /\ credits[user[r]] = 0 \/ Faults
    /\ GoTo(r, "single")
    /\ UNCHANGED <<dbVars, verified, freeVars, usage, cacheVars, user, mint, api, kind,
                   seen, bgVars, dashVars, histVars>>

\* checkCredits, the single payment; then the handler's own emergency bridge, which
\* repeats the question and lets the request pass without a kind to commit.
SinglePaid(r) ==
    /\ pc[r] = "single"
    /\ <<user[r], mint[r]>> \in paid
    /\ Grant(r, "single_pay")
    /\ UNCHANGED <<dbVars, verified, freeVars, usage, cacheVars, user, mint, api, seen,
                   bgVars, dashVars, histVars>>

SingleUnpaid(r) ==
    /\ pc[r] = "single"
    /\ <<user[r], mint[r]>> \notin paid \/ Faults
    /\ GoTo(r, "bridge")
    /\ UNCHANGED <<dbVars, verified, freeVars, usage, cacheVars, user, mint, api, kind,
                   seen, bgVars, dashVars, histVars>>

BridgePaid(r) ==
    /\ pc[r] = "bridge"
    /\ <<user[r], mint[r]>> \in paid
    /\ Grant(r, "bridge")
    /\ UNCHANGED <<dbVars, verified, freeVars, usage, cacheVars, user, mint, api, seen,
                   bgVars, dashVars, histVars>>

BridgeUnpaid(r) ==
    /\ pc[r] = "bridge"
    /\ <<user[r], mint[r]>> \notin paid \/ Faults
    /\ GoTo(r, "denied")
    /\ UNCHANGED <<dbVars, verified, freeVars, usage, cacheVars, user, mint, api, kind,
                   seen, bgVars, dashVars, histVars>>
-----------------------------------------------------------------------------
\* The work the grant was for (GetAnalysis or GetSniperVerdict), then CommitUsage
\* by kind: nothing, the access cache alone, or a charge and the access cache.
AfterWork(r) ==
    CASE kind[r] \in {"free", "single_pay"}     -> "cacheSet"
      [] kind[r] \in {"subscription", "credit"} -> "commit"
      [] OTHER                                  -> "served"

WorkSucceeds(r) ==
    /\ pc[r] = "work"
    /\ GoTo(r, AfterWork(r))
    /\ delivered' = delivered \cup {<<user[r], mint[r]>>}
    /\ UNCHANGED <<dbVars, verified, freeVars, usage, cacheVars, user, mint, api, kind,
                   seen, bgVars, dashVars, freeGrants, allowance, creditServed, spent>>

\* Mutant: the error path caches the access as the success path does.
WorkFailsCached(r) ==
    /\ pc[r] = "work"
    /\ GoTo(r, "cacheSet")
    /\ UNCHANGED <<dbVars, verified, freeVars, usage, cacheVars, user, mint, api, kind,
                   seen, bgVars, dashVars, histVars>>

\* Analysis not found, store down, or token not tracked: the handler returns an
\* error and does not call CommitUsage.
WorkFails(r) ==
    /\ pc[r] = "work"
    /\ GoTo(r, "failed")
    /\ UNCHANGED <<dbVars, verified, freeVars, usage, cacheVars, user, mint, api, kind,
                   seen, bgVars, dashVars, histVars>>

\* Mutant: every grant that is committed counts against the quota.
IncrementUsageAlways(r) ==
    /\ pc[r] = "commit"
    /\ \/ usage' = [usage EXCEPT ![user[r]] = @ + 1] /\ Charge(r, "usage")
       \/ Faults /\ UNCHANGED <<usage, spent>>
    /\ GoTo(r, "cacheSet")
    /\ UNCHANGED <<dbVars, verified, freeVars, cacheVars, user, mint, api, kind, seen,
                   bgVars, dashVars, freeGrants, allowance, creditServed, delivered>>

\* CommitUsage "subscription": INCR usage; a lost INCR is not noticed.
IncrementUsage(r) ==
    /\ pc[r] = "commit" /\ kind[r] = "subscription"
    /\ \/ usage' = [usage EXCEPT ![user[r]] = @ + 1] /\ Charge(r, "usage")
       \/ Faults /\ UNCHANGED <<usage, spent>>
    /\ GoTo(r, "cacheSet")
    /\ UNCHANGED <<dbVars, verified, freeVars, cacheVars, user, mint, api, kind, seen,
                   bgVars, dashVars, freeGrants, allowance, creditServed, delivered>>

\* Mutant: the UPDATE has lost its "AND balance > 0".
DeductCreditUnguarded(r) ==
    LET u == user[r]  IN
    /\ pc[r] = "commit" /\ kind[r] = "credit"
    /\ credits' = [credits EXCEPT ![u] = @ - 1]
    /\ Charge(r, "credit")
    /\ creditServed' = [creditServed EXCEPT ![u] = @ + 1]
    /\ GoTo(r, "cacheSet")
    /\ UNCHANGED <<paid, sub, freeUsed, verified, freeVars, usage, cacheVars, user, mint,
                   api, kind, seen, bgVars, dashVars, freeGrants, allowance, delivered>>

\* CommitUsage "credit": UPDATE ... WHERE balance > 0; its result is ignored.
DeductCredit(r) ==
    LET u == user[r]  IN
    /\ pc[r] = "commit" /\ kind[r] = "credit"
    /\ \/ /\ credits[u] > 0
          /\ credits' = [credits EXCEPT ![u] = @ - 1]
          /\ Charge(r, "credit")
       \/ /\ credits[u] = 0 \/ (Faults /\ creditServed[u] < MaxOver)
          /\ UNCHANGED <<credits, spent>>
    /\ creditServed' = [creditServed EXCEPT ![u] = @ + 1]
    /\ GoTo(r, "cacheSet")
    /\ UNCHANGED <<paid, sub, freeUsed, verified, freeVars, usage, cacheVars, user, mint,
                   api, kind, seen, bgVars, dashVars, freeGrants, allowance, delivered>>

\* cacheAccess: SET payment_verified for an hour, then the answer goes out.
CacheAccess(r) ==
    /\ pc[r] = "cacheSet"
    /\ \/ verified' = verified \cup {<<user[r], mint[r]>>}
       \/ Faults /\ UNCHANGED verified
    /\ GoTo(r, "served")
    /\ UNCHANGED <<dbVars, freeVars, usage, cacheVars, user, mint, api, kind, seen, bgVars,
                   dashVars, histVars>>

\* The answered request leaves; its goroutine may serve another.
Finish(r) ==
    /\ pc[r] \in Answered
    /\ GoTo(r, "idle")
    /\ kind' = [kind EXCEPT ![r] = ""]
    /\ api' = [api EXCEPT ![r] = FALSE]
    /\ spent' = [spent EXCEPT ![r] = {}]
    /\ UNCHANGED <<dbVars, verified, freeVars, usage, cacheVars, user, mint, seen, bgVars,
                   dashVars, freeGrants, allowance, creditServed, delivered>>

CheckFree(r) == FreeTake(r) \/ FreeReplyLost(r) \/ FreeRefuse(r)
CheckSubscription(r) ==
    \/ SubCacheHit(r) \/ SubCacheMiss(r) \/ SubRead(r) \/ SubReadFails(r) \/ SubFill(r)
    \/ LimitCached(r) \/ LimitRead(r) \/ LimitFill(r) \/ UsageLeft(r) \/ UsageSpent(r)
CheckCredits(r) ==
    \/ CreditLeft(r) \/ CreditSpent(r) \/ SinglePaid(r) \/ SingleUnpaid(r)
    \/ BridgePaid(r) \/ BridgeUnpaid(r)
CommitUsage(r) == IncrementUsage(r) \/ DeductCredit(r) \/ CacheAccess(r)
RequestStep(r) ==
    \/ CacheHit(r) \/ CacheMiss(r) \/ CheckFree(r) \/ CheckSubscription(r)
    \/ CheckCredits(r) \/ WorkSucceeds(r) \/ WorkFails(r) \/ CommitUsage(r) \/ Finish(r)
-----------------------------------------------------------------------------
\* The goroutine CheckAndIncrFreeUsage leaves behind: UPDATE users ... + 1.  It may
\* touch no row (the user was never synced) or fail; its result is ignored.
SyncFreeUsage(u, k) ==
    /\ syncs[u][k] > 0
    /\ syncs' = [syncs EXCEPT ![u][k] = @ - 1]
    /\ \/ freeUsed' = [freeUsed EXCEPT ![u][k] = @ + 1]
       \/ UNCHANGED freeUsed
    /\ UNCHANGED <<credits, paid, sub, verified, freeVars, usage, cacheVars, reqVars,
                   paying, renewing, dashVars, histVars>>

\* GetFreeUsage: GET misses (a hit changes nothing), SELECT, then SET with a TTL of
\* 30 days.  A SET that lowers the counter hands out another allowance.
DashMiss(d, u, k) ==
    /\ dpc[d] = "idle"
    /\ freeKey[u][k] = "absent" \/ Faults
    /\ dpc' = [dpc EXCEPT ![d] = "read"]
    /\ duser' = [duser EXCEPT ![d] = u]
    /\ dkind' = [dkind EXCEPT ![d] = k]
    /\ UNCHANGED <<dbVars, verified, freeVars, usage, cacheVars, reqVars, bgVars, dval,
                   histVars>>

DashRead(d) ==
    /\ dpc[d] = "read"
    /\ \/ /\ dval' = [dval EXCEPT ![d] = freeUsed[duser[d]][dkind[d]]]
          /\ dpc' = [dpc EXCEPT ![d] = "set"]
       \/ Faults /\ dpc' = [dpc EXCEPT ![d] = "idle"] /\ UNCHANGED dval
    /\ UNCHANGED <<dbVars, verified, freeVars, usage, cacheVars, reqVars, bgVars, duser,
                   dkind, histVars>>

\* What the history records when a free counter drops: the bound MaxAllowance keeps
\* the number of such losses finite.
LoseCounter(u, k) ==
    /\ allowance[u][k] + FreeLimit[k] <= MaxAllowance
    /\ allowance' = [allowance EXCEPT ![u][k] = @ + FreeLimit[k]]

DashSet(d) ==
    LET u == duser[d]  k == dkind[d]  IN
    /\ dpc[d] = "set"
    /\ freeCnt' = [freeCnt EXCEPT ![u][k] = dval[d]]
    /\ freeKey' = [freeKey EXCEPT ![u][k] = "expiring"]
    /\ IF dval[d] < freeCnt[u][k] THEN LoseCounter(u, k) ELSE UNCHANGED allowance
    /\ dpc' = [dpc EXCEPT ![d] = "idle"]
    /\ dval' = [dval EXCEPT ![d] = 0]
    /\ UNCHANGED <<dbVars, verified, usage, cacheVars, reqVars, bgVars, duser, dkind,
                   freeGrants, creditServed, delivered, spent>>

\* GetQuotaRemaining called for a header or the quota page: it only fills sub_limit.
ProbeQuota(u) ==
    /\ ~subLimit[u] /\ sub[u] # "none"
    /\ subLimit' = [subLimit EXCEPT ![u] = TRUE]
    /\ UNCHANGED <<dbVars, verified, freeVars, usage, subActive, reqVars, bgVars, dashVars,
                   histVars>>

\* UpdatePaymentStatus on a single payment: the row first, the access cache after it.
MarkPaid(u, m) ==
    /\ <<u, m>> \in Payable \ paid
    /\ paid' = paid \cup {<<u, m>>}
    /\ paying' = paying \cup {<<u, m>>}
    /\ UNCHANGED <<credits, sub, freeUsed, verified, freeVars, usage, cacheVars, reqVars,
                   syncs, renewing, dashVars, histVars>>

CachePaid(u, m) ==
    /\ <<u, m>> \in paying
    /\ paying' = paying \ {<<u, m>>}
    /\ verified' = verified \cup {<<u, m>>}
    /\ UNCHANGED <<dbVars, freeVars, usage, cacheVars, reqVars, syncs, renewing, dashVars,
                   histVars>>

\* ActivateSubscription for the same plan: the row is committed, the usage key is
\* deleted after it.  Neither sub_active nor sub_limit is touched.
Activate(u) ==
    /\ u \in Subscribers
    /\ sub' = [sub EXCEPT ![u] = "active"]
    /\ renewing' = renewing \cup {u}
    /\ UNCHANGED <<credits, paid, freeUsed, verified, freeVars, usage, cacheVars, reqVars,
                   syncs, paying, dashVars, histVars>>

ResetUsage(u) ==
    /\ u \in renewing
    /\ renewing' = renewing \ {u}
    /\ usage' = [usage EXCEPT ![u] = 0]
    /\ UNCHANGED <<dbVars, verified, freeVars, cacheVars, reqVars, syncs, paying, dashVars,
                   histVars>>

\* expires_at passes.
Lapse(u) ==
    /\ sub[u] = "active"
    /\ sub' = [sub EXCEPT ![u] = "lapsed"]
    /\ UNCHANGED <<credits, paid, freeUsed, verified, freeVars, usage, cacheVars, reqVars,
                   bgVars, dashVars, histVars>>

\* Keys with a TTL disappear: one hour, five minutes, thirty days.
ExpireVerified(u, m) ==
    /\ <<u, m>> \in verified
    /\ verified' = verified \ {<<u, m>>}
    /\ UNCHANGED <<dbVars, freeVars, usage, cacheVars, reqVars, bgVars, dashVars, histVars>>

ExpireSub(u) ==
    /\ \/ subActive[u] # "absent" /\ subActive' = [subActive EXCEPT ![u] = "absent"]
          /\ UNCHANGED subLimit
       \/ subLimit[u] /\ subLimit' = [subLimit EXCEPT ![u] = FALSE]
          /\ UNCHANGED subActive
    /\ UNCHANGED <<dbVars, verified, freeVars, usage, reqVars, bgVars, dashVars, histVars>>

ExpireFree(u, k) ==
    /\ freeKey[u][k] = "expiring"
    /\ freeCnt' = [freeCnt EXCEPT ![u][k] = 0]
    /\ freeKey' = [freeKey EXCEPT ![u][k] = "absent"]
    /\ IF freeCnt[u][k] > 0 THEN LoseCounter(u, k) ELSE UNCHANGED allowance
    /\ UNCHANGED <<dbVars, verified, usage, cacheVars, reqVars, bgVars, dashVars,
                   freeGrants, creditServed, delivered, spent>>

\* The process dies: requests, goroutines and half-done fulfilments are gone, rows
\* and keys stay.
Crash ==
    /\ Faults
    /\ pc' = [r \in Requests |-> "idle"]
    /\ kind' = [r \in Requests |-> ""]
    /\ api' = [r \in Requests |-> FALSE]
    /\ seen' = [r \in Requests |-> FALSE]
    /\ spent' = [r \in Requests |-> {}]
    /\ syncs' = [u \in Users |-> [k \in Kinds |-> 0]]
    /\ paying' = {} /\ renewing' = {}
    /\ dpc' = [d \in Dashboards |-> "idle"]
    /\ dval' = [d \in Dashboards |-> 0]
    /\ UNCHANGED <<dbVars, verified, freeVars, usage, cacheVars, user, mint, duser, dkind,
                   freeGrants, allowance, creditServed, delivered>>

Environment ==
    \/ \E u \in Users : ProbeQuota(u) \/ Activate(u) \/ ResetUsage(u) \/ Lapse(u) \/ ExpireSub(u)
    \/ \E u \in Users, m \in Mints : MarkPaid(u, m) \/ CachePaid(u, m) \/ ExpireVerified(u, m)
    \/ \E u \in Users, k \in Kinds : SyncFreeUsage(u, k) \/ ExpireFree(u, k)
    \/ \E d \in Dashboards : DashRead(d) \/ DashSet(d)
    \/ \E d \in Dashboards, u \in Users, a \in Handlers : DashMiss(d, u, KindOf(a))
    \/ Crash

Next ==
    \/ \E r \in Requests : RequestStep(r)
    \/ \E r \in Requests, u \in Users, m \in Mints, a \in Handlers : Start(r, u, m, a)
    \/ Environment

Spec == Init /\ [][Next]_vars
-----------------------------------------------------------------------------
(***************************************************************************)
(* Properties                                                              *)
(***************************************************************************)
TypeOK ==
    /\ credits \in [Users -> Nat]
    /\ paid \subseteq Users \X Mints
    /\ sub \in [Users -> {"none", "active", "lapsed"}]
    /\ freeUsed \in [Users -> [Kinds -> Nat]]
    /\ verified \subseteq Users \X Mints
    /\ freeCnt \in [Users -> [Kinds -> Nat]]
    /\ freeKey \in [Users -> [Kinds -> {"absent", "persistent", "expiring"}]]
    /\ usage \in [Users -> Nat]
    /\ subActive \in [Users -> {"absent", "true", "false"}]
    /\ subLimit \in [Users -> BOOLEAN]
    /\ pc \in [Requests -> Locations]
    /\ user \in [Requests -> Users]
    /\ mint \in [Requests -> Mints]
    /\ api \in [Requests -> BOOLEAN]
    /\ kind \in [Requests -> GrantKinds]
    /\ seen \in [Requests -> BOOLEAN]
    /\ syncs \in [Users -> [Kinds -> Nat]]
    /\ paying \subseteq Users \X Mints
    /\ renewing \subseteq Users
    /\ dpc \in [Dashboards -> {"idle", "read", "set"}]
    /\ duser \in [Dashboards -> Users]
    /\ dkind \in [Dashboards -> Kinds]
    /\ dval \in [Dashboards -> Nat]
    /\ freeGrants \in [Users -> [Kinds -> Nat]]
    /\ allowance \in [Users -> [Kinds -> Nat]]
    /\ creditServed \in [Users -> Nat]
    /\ delivered \subseteq Users \X Mints
    /\ spent \in [Requests -> SUBSET Charges]

\* However requests, quota pages, lost replies and crashes interleave, a user gets at
\* most FreeLimit free grants of a kind, plus FreeLimit more for each time the Redis
\* counter was overwritten by GetFreeUsage or expired (CheckAndIncrFreeUsage does not
\* look at the database).
FreeGrantsWithinAllowance ==
    \A u \in Users, k \in Kinds : freeGrants[u][k] <= allowance[u][k]

\* The unconditional form: "Free tier limits" FreeUIScans and FreeAPIUses.
FreeTierLimit ==
    \A u \in Users, k \in Kinds : freeGrants[u][k] <= FreeLimit[k]

\* The database never reports more free uses than were granted, counting the writes
\* still on their way: what GetFreeUsage backfills cannot rob a user of a free use.
PersistedUsageNotAhead ==
    \A u \in Users, k \in Kinds : freeUsed[u][k] + syncs[u][k] <= freeGrants[u][k]

\* Requests of user u granted by kind k and not yet charged.
InFlight(u, k) ==
    {r \in Requests : user[r] = u /\ kind[r] = k /\ pc[r] \in {"work", "commit"}}

\* checkSubscription looks before the work and IncrementUsage charges after it, so a
\* quota can be overrun, but by no more than the other requests in flight, renewals
\* of the subscription included.
UsageOvershootBounded ==
    \A u \in Users :
        usage[u] + Cardinality(InFlight(u, "subscription"))
            <= Quota + Cardinality(Requests) - 1

\* Likewise the balance: credits never pay for more than InitialCredits requests
\* and the others that were in flight when the last credit went.
CreditOvershootBounded ==
    \A u \in Users :
        creditServed[u] + Cardinality(InFlight(u, "credit"))
            <= InitialCredits + Cardinality(Requests) - 1

\* An hour of cached access to a token is only ever given after a granted request for
\* it was served in full, or after its payment was verified; never for a failed one.
CachedAccessWasEarned == verified \subseteq (delivered \cup paid)

\* What can be spent on no grant: the free use of a script whose reply was lost, after
\* which CheckAccess goes on to the subscription.
LostUse == IF Faults THEN {"free"} ELSE {}

\* A request is charged to one account at most: free tier, quota or balance; a free use
\* lost on the way does not count.
ChargedAtMostOnce == \A r \in Requests : Cardinality(spent[r] \ LostUse) <= 1

\* Quota and balance are only touched once the free uses are gone, unless a free
\* counter was lost meanwhile.
FreeAllowanceSpentFirst ==
    \A r \in Requests :
        kind[r] \in {"subscription", "credit"} =>
            \/ freeCnt[user[r]][FreeKind(r)] >= FreeLimit[FreeKind(r)]
            \/ allowance[user[r]][FreeKind(r)] > FreeLimit[FreeKind(r)]

\* "ANALYSIS FAILED: Atomic Quota Recovery - we do NOT call CommitUsage ... quota NOT
\* deducted", as far as it holds: a failed request cost at most a free use, never quota
\* or credit, and a refused one cost nothing at all, unless a reply was lost.
UnservedKeepsQuota ==
    \A r \in Requests :
        /\ pc[r] = "failed" => spent[r] \subseteq {"free"}
        /\ pc[r] = "denied" => spent[r] \subseteq LostUse

\* To the seller of subscriptions the gate keeps its side of Subscription: no use is
\* counted against a user who has no row, and nothing but an activation that has
\* committed clears a counter.
Subscribed == INSTANCE Subscription WITH state <- sub, owed <- renewing
FollowsSubscription == Subscribed!Spec
=============================================================================
