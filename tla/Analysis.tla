------------------------------ MODULE Analysis ------------------------------
(***************************************************************************)
(* How a token gets its verdict: Subscriber.handleMessage completes the    *)
(* webhook's payload with Enricher.Enrich (internal/processor/enricher.go) *)
(* and asks the brain, whose score is internal/brain/services.py.          *)
(*                                                                         *)
(* Several messages about one token and its creator are handled at once;   *)
(* they share two Redis keys.  An RPC ends in one of three ways: an        *)
(* answer; a failure (no reply, a reply that is not JSON, or a rate limit, *)
(* with doWithRetry's retries inside the call); or a JSON error object,    *)
(* which decodes into an empty result and is taken for an answer, as the   *)
(* code looks at no status but 429.                                        *)
(*                                                                         *)
(* The texts of the reasons and failed_projects_count, which only they     *)
(* use, are left out.  The age of a wallet is that of the oldest           *)
(* signature on the node's page.                                           *)
(***************************************************************************)
EXTENDS Integers, FiniteSets

CONSTANTS
    Analyses,           \* messages about the token
    Claims,             \* what webhooks may say of it
    InitFacts,          \* what is true of it when the first arrives
    MinWalletAge,       \* MIN_WALLET_AGE_HOURS
    MaxConcentration,   \* MAX_HOLDER_CONCENTRATION_PERCENT
    Flaky               \* the messages whose calls may fail

Labels == {"", "Unknown", "UNKNOWN", "TRUSTED", "SERIAL_RUGGER", "Safe", "Warning",
           "SerialRugger"}

\* HeliusPayload, as far as the brain reads it; erred is a history field: an error object
\* has been taken for an answer.
Payloads == [age : Nat, concentration : Nat, burned : BOOLEAN, funding : BOOLEAN,
             renounced : BOOLEAN, socials : BOOLEAN, gold : BOOLEAN, reputation : Labels,
             insider : {"", "Low", "High"}, erred : BOOLEAN]

\* The chain and the Redis keys filled by others: the token's authority ("mint" stands for
\* mint or freeze, "other" for any other scope) and links, the creator's age, whether no
\* stranger funded him, his tokens, golden buyers; and whether the service has its
\* HELIUS_API_KEY.
Facts == [authority : {"mint", "other", "none"}, socials : BOOLEAN, age : Nat,
          funding : BOOLEAN, items : Nat, gold : BOOLEAN, key : BOOLEAN]

ASSUME ClaimAssumption == Claims \subseteq {c \in Payloads : ~c.erred}
ASSUME FactAssumption == InitFacts \subseteq Facts
ASSUME ThresholdAssumption == MinWalletAge \in Nat /\ MaxConcentration \in Nat
ASSUME FlakyAssumption == Flaky \subseteq Analyses
-----------------------------------------------------------------------------
(***************************************************************************)
(* The brain.                                                              *)
(***************************************************************************)
Points(condition, n) == IF condition THEN n ELSE 0

\* Rules 1 to 3, before the cap.
Basics(p) == 100 - Points(p.age < MinWalletAge, 40)
                 - Points(p.concentration > MaxConcentration, 30)
                 - Points(~p.funding, 20)

\* Mutant: the cap is forgotten.
CappedNot(p) == Basics(p)

\* Rule 4.
Capped(p) == IF p.burned \/ Basics(p) <= 50 THEN Basics(p) ELSE 50

\* Rules 7 and 8.
Momentum(progress) ==
    IF progress >= 50 THEN 15 ELSE IF progress >= 20 THEN 5 ELSE 0
Velocity(progress, trades) ==
    IF trades > 150 /\ progress < 10 THEN -30
    ELSE IF trades > 50 THEN 10 ELSE IF trades > 10 THEN 5 ELSE 0

\* Rule 10; the names are the brain's.
Reputation(label) ==
    IF label = "SerialRugger" THEN -60
    ELSE IF label = "Warning" THEN -20 ELSE IF label = "Safe" THEN 10 ELSE 0

Score(p, progress, trades) ==
    Capped(p) - Points(~p.renounced, 50) - Points(~p.socials, 20)
    + Momentum(progress) + Velocity(progress, trades) + Points(p.gold, 30)
    + Reputation(p.reputation) - Points(p.insider = "High", 40)

Verdict(score) ==
    IF score >= 80 THEN "SAFE" ELSE IF score >= 50 THEN "WARNING" ELSE "DANGER"

\* handleMessage sends no bonding progress and no velocity; handleNewToken of the Pump
\* Portal subscriber sends nothing but the progress.
Rated(p) == Score(p, 0, 0)
PortalRequest == [age |-> 0, concentration |-> 0, burned |-> FALSE, funding |-> FALSE,
                  renounced |-> FALSE, socials |-> FALSE, gold |-> FALSE,
                  reputation |-> "Unknown", insider |-> "Low", erred |-> FALSE]
-----------------------------------------------------------------------------
VARIABLES
    facts,      \* the chain now
    claim,      \* claim[a]: the payload message a carries
    pc,         \* pc[a]: the next call of a's handler
    q,          \* q[a]: its payload so far
    lpKey,      \* enrich:mint:<mint>, a set of at most one entry
    repKey      \* reputation:creator:<creator>

vars == <<facts, claim, pc, q, lpKey, repKey>>
env  == <<facts, claim>>
keys == <<lpKey, repKey>>

Positions == {"idle", "age", "lp", "lprpc", "lpset", "funding", "asset", "gold", "rep",
              "reprpc", "repset", "brain", "answered"}

Init ==
    /\ facts \in InitFacts
    /\ claim \in [Analyses -> Claims]
    /\ pc = [a \in Analyses |-> "idle"]
    /\ q = claim
    /\ lpKey = {} /\ repKey = {}

At(a, l)       == pc[a] = l
Goto(a, l)     == pc' = [pc EXCEPT ![a] = l]
\* The payload of a becomes r.
Learn(a, r, l) == q' = [q EXCEPT ![a] = r] /\ Goto(a, l)

\* The payload is decoded; Enrich supplies a concentration, and gives up without a key.
Decode(a) ==
    /\ At(a, "idle")
    /\ Learn(a, [claim[a] EXCEPT !.concentration = IF @ = 0 THEN 50 ELSE @],
             IF facts.key THEN "age" ELSE "brain")
    /\ UNCHANGED <<env, keys>>

\* 1. An error object is a wallet without transactions; after a failure the webhook's
\* word stands.
WalletAge(a) ==
    /\ At(a, "age")
    /\ \/ Learn(a, [q[a] EXCEPT !.age = facts.age], "lp")
       \/ a \in Flaky /\ Learn(a, [q[a] EXCEPT !.age = 0], "lp")
       \/ a \in Flaky /\ Learn(a, q[a], "lp")
    /\ UNCHANGED <<env, keys>>

\* 2. The cache, the RPC, the cache.
LpCached(a) ==
    /\ At(a, "lp")
    /\ \E e \in lpKey : Learn(a, [q[a] EXCEPT !.burned = e.burned, !.erred = e.erred], "funding")
    /\ UNCHANGED <<env, keys>>

LpMiss(a) ==
    /\ At(a, "lp") /\ (lpKey = {} \/ a \in Flaky)
    /\ Goto(a, "lprpc")
    /\ UNCHANGED <<env, q, keys>>

LpAnswer(a) ==
    /\ At(a, "lprpc")
    /\ Learn(a, [q[a] EXCEPT !.burned = (facts.authority = "none")], "lpset")
    /\ UNCHANGED <<env, keys>>

\* No authorities in an error object either.
LpError(a) ==
    /\ a \in Flaky /\ At(a, "lprpc")
    /\ Learn(a, [q[a] EXCEPT !.burned = TRUE, !.erred = TRUE], "lpset")
    /\ UNCHANGED <<env, keys>>

LpFails(a) ==
    /\ a \in Flaky /\ At(a, "lprpc")
    /\ Goto(a, "funding")
    /\ UNCHANGED <<env, q, keys>>

\* Mutant: the answers are collected in a list.
LpSetPushed(a) ==
    /\ At(a, "lpset")
    /\ lpKey' = lpKey \cup {[burned |-> q[a].burned, erred |-> q[a].erred]}
    /\ Goto(a, "funding")
    /\ UNCHANGED <<env, q, repKey>>

LpSet(a) ==
    /\ At(a, "lpset")
    /\ \/ lpKey' = {[burned |-> q[a].burned, erred |-> q[a].erred]}
       \/ a \in Flaky /\ UNCHANGED lpKey
    /\ Goto(a, "funding")
    /\ UNCHANGED <<env, q, repKey>>

\* 3. Two RPCs; whatever goes wrong in them, the check is passed.
CheckFunding(a) ==
    /\ At(a, "funding")
    /\ \/ Learn(a, [q[a] EXCEPT !.funding = facts.funding], "asset")
       \/ a \in Flaky /\ Learn(a, [q[a] EXCEPT !.funding = TRUE], "asset")
    /\ UNCHANGED <<env, keys>>

\* 4.
AssetAnswer(a) ==
    /\ At(a, "asset")
    /\ Learn(a, [q[a] EXCEPT !.renounced = (facts.authority # "mint"), !.socials = facts.socials],
             "gold")
    /\ UNCHANGED <<env, keys>>

\* No authorities and no links.
AssetError(a) ==
    /\ a \in Flaky /\ At(a, "asset")
    /\ Learn(a, [q[a] EXCEPT !.renounced = TRUE, !.socials = FALSE, !.erred = TRUE], "gold")
    /\ UNCHANGED <<env, keys>>

\* Mutant: the webhook's word stands, as for the age and the liquidity.
AssetFailsKept(a) ==
    /\ a \in Flaky /\ At(a, "asset")
    /\ Goto(a, "gold")
    /\ UNCHANGED <<env, q, keys>>

AssetFails(a) ==
    /\ a \in Flaky /\ At(a, "asset")
    /\ Learn(a, [q[a] EXCEPT !.renounced = FALSE, !.socials = FALSE], "gold")
    /\ UNCHANGED <<env, keys>>

\* 5. Buyers and their win rates are read from Redis.
GoldenWallets(a) ==
    /\ At(a, "gold")
    /\ \/ Learn(a, [q[a] EXCEPT !.gold = facts.gold], "rep")
       \/ a \in Flaky /\ Learn(a, [q[a] EXCEPT !.gold = FALSE], "rep")
    /\ UNCHANGED <<env, keys>>

\* 6. The creator's reputation and 7., a constant, the insider risk.
Label(items) ==
    IF items > 5 THEN "SERIAL_RUGGER" ELSE IF items > 0 THEN "UNKNOWN" ELSE "TRUSTED"
Reputed(a, label, l) == Learn(a, [q[a] EXCEPT !.reputation = label, !.insider = "Low"], l)

RepCached(a) ==
    /\ At(a, "rep")
    /\ \E label \in repKey : Reputed(a, label, "brain")
    /\ UNCHANGED <<env, keys>>

RepMiss(a) ==
    /\ At(a, "rep") /\ (repKey = {} \/ a \in Flaky)
    /\ Goto(a, "reprpc")
    /\ UNCHANGED <<env, q, keys>>

\* An error object lists no tokens.
RepAnswer(a) ==
    /\ At(a, "reprpc")
    /\ \/ Reputed(a, Label(facts.items), "repset")
       \/ a \in Flaky /\ Reputed(a, Label(0), "repset")
       \/ a \in Flaky /\ Reputed(a, "UNKNOWN", "brain")
    /\ UNCHANGED <<env, keys>>

RepSet(a) ==
    /\ At(a, "repset")
    /\ \/ repKey' = {q[a].reputation}
       \/ a \in Flaky /\ UNCHANGED repKey
    /\ Goto(a, "brain")
    /\ UNCHANGED <<env, q, lpKey>>

\* The brain answers Rated(q[a]), or fails and the message is nacked.
Brain(a) ==
    /\ At(a, "brain")
    /\ \/ Goto(a, "answered") /\ UNCHANGED q
       \/ a \in Flaky /\ Learn(a, claim[a], "idle")
    /\ UNCHANGED <<env, keys>>

\* Not saved, or delivered twice: the message comes again.
Redeliver(a) ==
    /\ a \in Flaky /\ At(a, "answered")
    /\ Learn(a, claim[a], "idle")
    /\ UNCHANGED <<env, keys>>

Enrich(a) ==
    \/ WalletAge(a) \/ LpCached(a) \/ LpMiss(a) \/ LpAnswer(a) \/ LpError(a) \/ LpFails(a)
    \/ LpSet(a) \/ CheckFunding(a) \/ AssetAnswer(a) \/ AssetError(a) \/ AssetFails(a)
    \/ GoldenWallets(a) \/ RepCached(a) \/ RepMiss(a) \/ RepAnswer(a) \/ RepSet(a)

\* Five minutes and six hours.
ExpireLp  == lpKey # {} /\ lpKey' = {} /\ UNCHANGED <<env, pc, q, repKey>>
ExpireRep == repKey # {} /\ repKey' = {} /\ UNCHANGED <<env, pc, q, lpKey>>

\* The authority over a token is only ever given up.
Renounce ==
    /\ \E w \in {"other", "none"} :
          /\ facts.authority = "mint" \/ (facts.authority = "other" /\ w = "none")
          /\ facts' = [facts EXCEPT !.authority = w]
    /\ UNCHANGED <<claim, pc, q, keys>>

Next ==
    \/ \E a \in Analyses : Decode(a) \/ Enrich(a) \/ Brain(a) \/ Redeliver(a)
    \/ ExpireLp \/ ExpireRep \/ Renounce

Spec == Init /\ [][Next]_vars
-----------------------------------------------------------------------------
(***************************************************************************)
(* Properties                                                              *)
(***************************************************************************)
TypeOK ==
    /\ facts \in Facts
    /\ claim \in [Analyses -> Claims]
    /\ pc \in [Analyses -> Positions]
    /\ q \in [Analyses -> Payloads]
    /\ lpKey \subseteq [burned : BOOLEAN, erred : BOOLEAN] /\ Cardinality(lpKey) <= 1
    /\ repKey \subseteq Labels /\ Cardinality(repKey) <= 1

Answered == {a \in Analyses : pc[a] = "answered"}

\* What the overrides of rules 4 and 5 are worth once the bonuses are added: a token is
\* rated SAFE without golden buyers only if its liquidity is burned, its contract
\* renounced and its creator's wallet old enough, and never if it is neither burned nor
\* renounced.
SafeIsEarned ==
    \A a \in Answered : Verdict(Rated(q[a])) = "SAFE" =>
        /\ q[a].burned \/ q[a].renounced
        /\ q[a].gold \/ (q[a].burned /\ q[a].renounced /\ q[a].age >= MinWalletAge)

\* The best payload an analysis could have found, the chain and the webhook believed.
Best(c) ==
    [age |-> IF c.age > facts.age THEN c.age ELSE facts.age,
     concentration |-> IF c.concentration = 0 THEN 50 ELSE c.concentration,
     burned |-> c.burned \/ facts.authority = "none", funding |-> TRUE,
     renounced |-> facts.authority # "mint", socials |-> facts.socials, gold |-> facts.gold,
     reputation |-> "UNKNOWN", insider |-> "Low", erred |-> FALSE]

\* "Pessimistic fallback": calls that fail, answers that are cached and messages that are
\* handled again never raise a score above what the chain and the webhook support, the
\* funding check excepted; only an error object that was taken for an answer, here or by
\* the analysis that filled the cache, can.
FailuresCostTrust ==
    \A a \in Answered : facts.key /\ ~q[a].erred => Rated(q[a]) <= Rated(Best(claim[a]))

\* "SERIAL RUGGER DETECTED (-60)": who is found to be one is not rated SAFE.
RuggerNeverSafe ==
    \A a \in Answered : q[a].reputation = "SERIAL_RUGGER" => Verdict(Rated(q[a])) # "SAFE"
=============================================================================
