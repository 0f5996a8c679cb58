-------------------------- MODULE Analysis_proofs --------------------------
(***************************************************************************)
(* Proofs about Analysis: the verdict's arithmetic for every payload, and  *)
(* what failing calls and shared cache entries may do to it, for any       *)
(* number of analyses, claims and initial facts.                           *)
(***************************************************************************)
EXTENDS Analysis, FiniteSetTheorems, TLAPS

\* What the enricher calls a creator.
EnricherLabels == {"SERIAL_RUGGER", "UNKNOWN", "TRUSTED"}
Entries        == [burned : BOOLEAN, erred : BOOLEAN]

\* TypeOK without cardinalities, and with the labels the key really holds.
Typed ==
    /\ facts \in Facts
    /\ claim \in [Analyses -> Claims]
    /\ pc \in [Analyses -> Positions]
    /\ q \in [Analyses -> Payloads]
    /\ lpKey = {} \/ \E e \in Entries : lpKey = {e}
    /\ repKey = {} \/ \E label \in EnricherLabels : repKey = {label}

\* A cached "burned" that came from a real answer was true, and stays true.
LpInv == \A e \in lpKey : e.burned /\ ~e.erred => facts.authority = "none"

Holders(c) == IF c.concentration = 0 THEN 50 ELSE c.concentration
AfterAsset == {"gold", "rep", "reprpc", "repset", "brain", "answered"}
AfterGold  == AfterAsset \ {"gold"}

\* A payload p that began as the claim c is no better, at position l, than the facts f
\* and c allow.
Fits(p, c, l, f) ==
    /\ l = "idle" => p = c
    /\ l # "idle" => p.concentration = Holders(c)
    /\ p.age <= c.age \/ p.age <= f.age
    /\ p.burned /\ ~p.erred => c.burned \/ f.authority = "none"
    /\ l = "lpset" /\ p.burned /\ ~p.erred => f.authority = "none"
    /\ l \in AfterAsset /\ f.key /\ ~p.erred =>
          /\ p.renounced => f.authority # "mint"
          /\ p.socials => f.socials
    /\ l \in AfterGold /\ f.key => (p.gold => f.gold)
    /\ l = "repset" \/ (l \in {"brain", "answered"} /\ f.key) =>
          p.reputation \in EnricherLabels /\ p.insider = "Low"

AllFit == \A a \in Analyses : Fits(q[a], claim[a], pc[a], facts)

IInv == Typed /\ LpInv /\ AllFit
-----------------------------------------------------------------------------
(***************************************************************************)
(* The brain's arithmetic.                                                 *)
(***************************************************************************)
\* The basic rules and the cap give an integer of at most 100.
LEMMA CappedInt ==
    ASSUME NEW p \in Payloads
    PROVE  /\ Basics(p) \in Int /\ Basics(p) <= 100
           /\ Capped(p) \in Int /\ Capped(p) <= Basics(p)
           /\ ~p.burned => Capped(p) <= 50
           /\ p.age < MinWalletAge => Capped(p) <= 60
<1>1. p.age \in Nat /\ p.concentration \in Nat
  BY DEF Payloads
<1>2. /\ Points(p.age < MinWalletAge, 40) \in 0 .. 40
      /\ p.age < MinWalletAge => Points(p.age < MinWalletAge, 40) = 40
      /\ Points(p.concentration > MaxConcentration, 30) \in 0 .. 30
      /\ Points(~p.funding, 20) \in 0 .. 20
  BY DEF Points
<1>3. /\ Basics(p) \in Int /\ Basics(p) <= 100
      /\ p.age < MinWalletAge => Basics(p) <= 60
  BY <1>2 DEF Basics
<1> QED
  BY <1>3 DEF Capped

\* Neither momentum nor velocity is sent by handleMessage.
LEMMA RatedIs ==
    ASSUME NEW p \in Payloads
    PROVE  Rated(p) = Capped(p) - Points(~p.renounced, 50) - Points(~p.socials, 20)
                      + Points(p.gold, 30) + Reputation(p.reputation)
                      - Points(p.insider = "High", 40)
<1>1. Momentum(0) = 0 /\ Velocity(0, 0) = 0
  BY DEF Momentum, Velocity
<1>2. Reputation(p.reputation) \in Int
  BY DEF Reputation
<1> QED
  BY <1>1, <1>2, CappedInt DEF Rated, Score, Points

\* Rules 1 to 3 reward older wallets, fewer holders and better funding.
LEMMA CappedMonotone ==
    ASSUME NEW p \in Payloads, NEW b \in Payloads,
           p.age <= b.age, p.concentration = b.concentration,
           p.funding => b.funding, p.burned => b.burned
    PROVE  Capped(p) <= Capped(b)
<1>1. p.age \in Nat /\ b.age \in Nat
  BY DEF Payloads
<1>2. /\ Points(p.age < MinWalletAge, 40) \in Int /\ Points(b.age < MinWalletAge, 40) \in Int
      /\ Points(p.age < MinWalletAge, 40) >= Points(b.age < MinWalletAge, 40)
  BY <1>1, ThresholdAssumption DEF Points
<1>3. /\ Points(~p.funding, 20) \in Int /\ Points(~b.funding, 20) \in Int
      /\ Points(~p.funding, 20) >= Points(~b.funding, 20)
  BY DEF Points
<1>4. Points(p.concentration > MaxConcentration, 30) \in Int
  BY DEF Points
<1>5. Basics(p) <= Basics(b)
  BY <1>2, <1>3, <1>4 DEF Basics
<1> QED
  BY <1>5, CappedInt DEF Capped

\* So does the whole score, for a creator the enricher has a label for.
LEMMA RatedMonotone ==
    ASSUME NEW p \in Payloads, NEW b \in Payloads,
           p.age <= b.age, p.concentration = b.concentration,
           p.funding => b.funding, p.burned => b.burned,
           p.renounced => b.renounced, p.socials => b.socials, p.gold => b.gold,
           p.reputation \in EnricherLabels, b.reputation \in EnricherLabels,
           p.insider = "Low", b.insider = "Low"
    PROVE  Rated(p) <= Rated(b)
<1>1. Capped(p) <= Capped(b) /\ Capped(p) \in Int /\ Capped(b) \in Int
  BY CappedMonotone, CappedInt
<1>2. Reputation(p.reputation) = 0 /\ Reputation(b.reputation) = 0
  BY DEF Reputation, EnricherLabels
<1>3. Points(p.insider = "High", 40) = 0 /\ Points(b.insider = "High", 40) = 0
  BY DEF Points
<1>4. Points(~p.renounced, 50) >= Points(~b.renounced, 50)
  BY DEF Points
<1>5. Points(~p.socials, 20) >= Points(~b.socials, 20)
  BY DEF Points
<1>6. Points(p.gold, 30) <= Points(b.gold, 30)
  BY DEF Points
<1>7. /\ Points(~p.renounced, 50) \in Int /\ Points(~b.renounced, 50) \in Int
      /\ Points(~p.socials, 20) \in Int /\ Points(~b.socials, 20) \in Int
      /\ Points(p.gold, 30) \in Int /\ Points(b.gold, 30) \in Int
  BY DEF Points
<1> QED
  BY <1>1, <1>2, <1>3, <1>4, <1>5, <1>6, <1>7, RatedIs

\* SafeIsEarned is arithmetic: it holds of every payload the brain can be sent.
LEMMA SafePayload ==
    ASSUME NEW p \in Payloads, Verdict(Rated(p)) = "SAFE"
    PROVE  /\ p.burned \/ p.renounced
           /\ p.gold \/ (p.burned /\ p.renounced /\ p.age >= MinWalletAge)
<1>1. Capped(p) \in Int /\ Capped(p) <= 100
      /\ (~p.burned => Capped(p) <= 50) /\ (p.age < MinWalletAge => Capped(p) <= 60)
  BY CappedInt
<1>2. Reputation(p.reputation) \in Int /\ Reputation(p.reputation) <= 10
  BY DEF Reputation
<1>3. Rated(p) \in Int
  BY <1>1, <1>2, RatedIs DEF Points
<1>4. Rated(p) >= 80
  BY <1>3 DEF Verdict
<1>5. p.age \in Nat
  BY DEF Payloads
<1> QED
  BY <1>1, <1>2, <1>4, <1>5, RatedIs, ThresholdAssumption DEF Points

\* The Pump Portal subscriber asks the brain with a request that has only the bonding
\* progress: whatever that is, the answer is DANGER.
THEOREM PortalDanger ==
    \A progress \in Nat : Verdict(Score(PortalRequest, progress, 0)) = "DANGER"
<1> SUFFICES ASSUME NEW progress \in Nat
             PROVE  Verdict(Score(PortalRequest, progress, 0)) = "DANGER"
  OBVIOUS
<1>1. PortalRequest \in Payloads /\ ~PortalRequest.burned
  BY DEF PortalRequest, Payloads, Labels
<1>2. Capped(PortalRequest) \in Int /\ Capped(PortalRequest) <= 50
  BY <1>1, CappedInt
<1>3. Momentum(progress) \in Int /\ Momentum(progress) <= 15 /\ Velocity(progress, 0) = 0
  BY DEF Momentum, Velocity
<1>4. /\ Points(~PortalRequest.renounced, 50) = 50
      /\ Points(~PortalRequest.socials, 20) = 20
      /\ Points(PortalRequest.gold, 30) = 0
      /\ Points(PortalRequest.insider = "High", 40) = 0
      /\ Reputation(PortalRequest.reputation) = 0
  BY DEF PortalRequest, Points, Reputation
<1>5. Score(PortalRequest, progress, 0) \in Int /\ Score(PortalRequest, progress, 0) <= -5
  BY <1>2, <1>3, <1>4 DEF Score
<1> QED
  BY <1>5 DEF Verdict
\* The score of a token whose liquidity is not burned is capped at 50 before the bonuses,
\* which lift it to SAFE again, whatever the thresholds.
THEOREM BonusesExceedCap == \E p \in Payloads : ~p.burned /\ Verdict(Rated(p)) = "SAFE"
<1> DEFINE p == [age |-> MinWalletAge, concentration |-> 0, burned |-> FALSE,
                 funding |-> TRUE, renounced |-> TRUE, socials |-> TRUE, gold |-> TRUE,
                 reputation |-> "Unknown", insider |-> "Low", erred |-> FALSE]
<1>1. p \in Payloads /\ ~p.burned
  BY ThresholdAssumption DEF Payloads, Labels
<1>2. Basics(p) = 100
  BY ThresholdAssumption DEF Basics, Points
<1>3. Capped(p) = 50
  BY <1>2 DEF Capped
<1>4. Score(p, 0, 0) = 80
  BY <1>3 DEF Score, Points, Momentum, Velocity, Reputation
<1> QED
  BY <1>1, <1>4 DEF Rated, Verdict
-----------------------------------------------------------------------------
(***************************************************************************)
(* The induction.                                                          *)
(***************************************************************************)
\* A claim is a payload with nothing found yet.
LEMMA ClaimIs ==
    ASSUME Typed, NEW a \in Analyses
    PROVE  claim[a] \in Payloads /\ ~claim[a].erred
BY ClaimAssumption DEF Typed

\* Where a Redis key may be after a step.
LpTyped(k)  == k = {} \/ \E e \in Entries : k = {e}
RepTyped(k) == k = {} \/ \E label \in EnricherLabels : k = {label}

\* A step of one analysis that leaves the chain alone, moves it to l with the payload r
\* and keeps what the keys promise, preserves the invariant if r fits there.
LEMMA Moved ==
    ASSUME IInv, NEW a \in Analyses, NEW r \in Payloads, NEW l \in Positions,
           Learn(a, r, l), UNCHANGED env, Fits(r, claim[a], l, facts),
           LpTyped(lpKey'), RepTyped(repKey'),
           \A e \in lpKey' : e.burned /\ ~e.erred => facts.authority = "none"
    PROVE  IInv'
<1>1. /\ pc' = [pc EXCEPT ![a] = l] /\ q' = [q EXCEPT ![a] = r]
      /\ facts' = facts /\ claim' = claim
  BY DEF Learn, Goto, env
<1>2. Typed'
  BY <1>1 DEF IInv, Typed, LpTyped, RepTyped
<1>3. LpInv'
  BY <1>1 DEF LpInv
<1>4. AllFit'
  <2> SUFFICES ASSUME NEW b \in Analyses
               PROVE  Fits(q'[b], claim'[b], pc'[b], facts')
    BY DEF AllFit
  <2>1. CASE b = a
    <3>1. q'[b] = r /\ pc'[b] = l /\ claim'[b] = claim[a] /\ facts' = facts
      BY <1>1, <2>1 DEF IInv, Typed
    <3> QED
      BY <3>1
  <2>2. CASE b # a
    <3>1. q'[b] = q[b] /\ pc'[b] = pc[b] /\ claim'[b] = claim[b] /\ facts' = facts
      BY <1>1, <2>2 DEF IInv, Typed
    <3>2. Fits(q[b], claim[b], pc[b], facts)
      BY DEF IInv, AllFit
    <3> QED
      BY <3>1, <3>2
  <2> QED
    BY <2>1, <2>2
<1> QED
  BY <1>2, <1>3, <1>4 DEF IInv

\* The same for a step that leaves the keys alone.
LEMMA MovedAlone ==
    ASSUME IInv, NEW a \in Analyses, NEW r \in Payloads, NEW l \in Positions,
           Learn(a, r, l), UNCHANGED <<env, keys>>, Fits(r, claim[a], l, facts)
    PROVE  IInv'
<1>1. lpKey' = lpKey /\ repKey' = repKey /\ UNCHANGED env
  BY DEF keys
<1>2. LpTyped(lpKey') /\ RepTyped(repKey')
  BY <1>1 DEF IInv, Typed, LpTyped, RepTyped
<1>3. \A e \in lpKey' : e.burned /\ ~e.erred => facts.authority = "none"
  BY <1>1 DEF IInv, LpInv
<1> QED
  BY <1>1, <1>2, <1>3, Moved

\* A step that only moves has learnt what it knew.
LEMMA GotoLearns ==
    ASSUME Typed, NEW a \in Analyses, NEW l, Goto(a, l), q' = q
    PROVE  Learn(a, q[a], l)
BY DEF Typed, Goto, Learn

\* The webhook's payload, with the default for its holders.
LEMMA DecodeSafe ==
    ASSUME IInv, NEW a \in Analyses, Decode(a)
    PROVE  IInv'
<1> DEFINE r == [claim[a] EXCEPT !.concentration = IF @ = 0 THEN 50 ELSE @]
           l == IF facts.key THEN "age" ELSE "brain"
<1>1. claim[a] \in Payloads /\ ~claim[a].erred
  BY ClaimIs DEF IInv
<1>2. r \in Payloads
  BY <1>1 DEF Payloads
<1>3. l \in Positions
  BY DEF Positions
<1>4. Learn(a, r, l) /\ UNCHANGED <<env, keys>>
  BY DEF Decode
<1>5. /\ r.concentration = Holders(claim[a]) /\ r.age = claim[a].age
      /\ r.burned = claim[a].burned
  BY <1>1 DEF Payloads, Holders
<1>6. claim[a].age \in Nat
  BY <1>1 DEF Payloads
<1>7. Fits(r, claim[a], l, facts)
  BY <1>5, <1>6 DEF Fits, AfterAsset, AfterGold
<1> HIDE DEF r, l
<1> QED
  BY <1>2, <1>3, <1>4, <1>7, MovedAlone

\* What the invariant says of one analysis.
LEMMA AtOne ==
    ASSUME IInv, NEW a \in Analyses
    PROVE  /\ q[a] \in Payloads /\ q[a].age \in Nat
           /\ claim[a] \in Payloads /\ claim[a].age \in Nat /\ ~claim[a].erred
           /\ facts \in Facts /\ facts.age \in Nat
           /\ Fits(q[a], claim[a], pc[a], facts)
<1>1. q[a] \in Payloads /\ claim[a] \in Payloads /\ ~claim[a].erred /\ facts \in Facts
  BY ClaimIs DEF IInv, Typed
<1> QED
  BY <1>1 DEF IInv, AllFit, Payloads, Facts

\* An analysis that learns an age at position l.
LEMMA AgeFits ==
    ASSUME IInv, NEW a \in Analyses, pc[a] = "age", NEW n \in Nat, n <= facts.age
    PROVE  /\ [q[a] EXCEPT !.age = n] \in Payloads
           /\ Fits([q[a] EXCEPT !.age = n], claim[a], "lp", facts)
<1> DEFINE r == [q[a] EXCEPT !.age = n]
<1>1. r \in Payloads
  BY AtOne DEF Payloads
<1>2. /\ r.age = n /\ r.concentration = q[a].concentration
      /\ r.burned = q[a].burned /\ r.erred = q[a].erred
  BY AtOne DEF Payloads
<1> HIDE DEF r
<1>3. Fits(r, claim[a], "lp", facts)
  BY <1>2, AtOne DEF Fits, AfterAsset, AfterGold
<1> QED
  BY <1>1, <1>3 DEF r

\* The age is the chain's, none, or what it was.
LEMMA WalletAgeSafe ==
    ASSUME IInv, NEW a \in Analyses, WalletAge(a)
    PROVE  IInv'
<1>1. UNCHANGED <<env, keys>> /\ pc[a] = "age"
  BY DEF WalletAge, At
<1>2. CASE Learn(a, [q[a] EXCEPT !.age = facts.age], "lp")
  BY <1>1, <1>2, AtOne, AgeFits, MovedAlone DEF Positions
<1>3. CASE Learn(a, [q[a] EXCEPT !.age = 0], "lp")
  BY <1>1, <1>3, AtOne, AgeFits, MovedAlone DEF Positions
<1>4. CASE Learn(a, q[a], "lp")
  <2>1. Fits(q[a], claim[a], "lp", facts)
    BY <1>1, AtOne DEF Fits, AfterAsset, AfterGold
  <2> QED
    BY <1>1, <1>4, <2>1, AtOne, MovedAlone DEF Positions
<1> QED
  BY <1>2, <1>3, <1>4 DEF WalletAge

\* "burned" fits if it is marked as taken from an error object or true of the chain.
LEMMA BurnedFits ==
    ASSUME IInv, NEW a \in Analyses, pc[a] \in {"lp", "lprpc"}, NEW l \in {"lpset", "funding"},
           NEW r \in Payloads, r.age = q[a].age, r.concentration = q[a].concentration,
           r.burned /\ ~r.erred => facts.authority = "none"
    PROVE  Fits(r, claim[a], l, facts)
BY AtOne DEF Fits, AfterAsset, AfterGold

\* What another analysis has cached is as good as its own answer.
LEMMA LpCachedSafe ==
    ASSUME IInv, NEW a \in Analyses, LpCached(a)
    PROVE  IInv'
<1>1. UNCHANGED <<env, keys>> /\ pc[a] = "lp"
  BY DEF LpCached, At
<1>2. PICK e \in lpKey :
          Learn(a, [q[a] EXCEPT !.burned = e.burned, !.erred = e.erred], "funding")
  BY DEF LpCached
<1>3. e \in Entries /\ (e.burned /\ ~e.erred => facts.authority = "none")
  BY DEF IInv, Typed, LpInv
<1> DEFINE r == [q[a] EXCEPT !.burned = e.burned, !.erred = e.erred]
<1>4. r \in Payloads
  BY <1>3, AtOne DEF Payloads, Entries
<1>5. /\ r.age = q[a].age /\ r.concentration = q[a].concentration
      /\ r.burned = e.burned /\ r.erred = e.erred
  BY AtOne DEF Payloads
<1>6. Learn(a, r, "funding")
  BY <1>2
<1> HIDE DEF r
<1>7. Fits(r, claim[a], "funding", facts)
  BY <1>1, <1>3, <1>4, <1>5, BurnedFits
<1> QED
  BY <1>1, <1>4, <1>6, <1>7, MovedAlone DEF Positions

\* Liquidity from an answer is the chain's.
LEMMA LpAnswerSafe ==
    ASSUME IInv, NEW a \in Analyses, LpAnswer(a)
    PROVE  IInv'
<1> DEFINE r == [q[a] EXCEPT !.burned = (facts.authority = "none")]
<1>1. UNCHANGED <<env, keys>> /\ pc[a] = "lprpc" /\ Learn(a, r, "lpset")
  BY DEF LpAnswer, At
<1>2. r \in Payloads
  BY AtOne DEF Payloads
<1>3. /\ r.age = q[a].age /\ r.concentration = q[a].concentration
      /\ r.burned = (facts.authority = "none")
  BY AtOne DEF Payloads
<1> HIDE DEF r
<1>4. Fits(r, claim[a], "lpset", facts)
  BY <1>1, <1>2, <1>3, BurnedFits
<1> QED
  BY <1>1, <1>2, <1>4, MovedAlone DEF Positions

\* From an error object it is marked.
LEMMA LpErrorSafe ==
    ASSUME IInv, NEW a \in Analyses, LpError(a)
    PROVE  IInv'
<1> DEFINE r == [q[a] EXCEPT !.burned = TRUE, !.erred = TRUE]
<1>1. UNCHANGED <<env, keys>> /\ pc[a] = "lprpc" /\ Learn(a, r, "lpset")
  BY DEF LpError, At
<1>2. r \in Payloads
  BY AtOne DEF Payloads
<1>3. r.age = q[a].age /\ r.concentration = q[a].concentration /\ r.erred
  BY AtOne DEF Payloads
<1> HIDE DEF r
<1>4. Fits(r, claim[a], "lpset", facts)
  BY <1>1, <1>2, <1>3, BurnedFits
<1> QED
  BY <1>1, <1>2, <1>4, MovedAlone DEF Positions

\* Steps that learn nothing.
LEMMA SkipSafe ==
    ASSUME IInv, NEW a \in Analyses, LpMiss(a) \/ LpFails(a) \/ RepMiss(a)
    PROVE  IInv'
<1>1. UNCHANGED <<env, keys>> /\ q' = q
  BY DEF LpMiss, LpFails, RepMiss
<1>2. PICK l \in {"lprpc", "funding", "reprpc"} :
          /\ Goto(a, l)
          /\ l \in {"lprpc", "funding"} => pc[a] \in {"lp", "lprpc"}
          /\ l = "reprpc" => pc[a] = "rep"
  BY DEF LpMiss, LpFails, RepMiss, At
<1>3. Learn(a, q[a], l)
  BY <1>1, <1>2, GotoLearns DEF IInv
<1>4. Fits(q[a], claim[a], l, facts)
  BY <1>2, AtOne DEF Fits, AfterAsset, AfterGold
<1> QED
  BY <1>1, <1>2, <1>3, <1>4, AtOne, MovedAlone DEF Positions


\* The key gets what the analysis has just been told, or keeps what it held.
LEMMA LpSetSafe ==
    ASSUME IInv, NEW a \in Analyses, LpSet(a)
    PROVE  IInv'
<1> DEFINE e == [burned |-> q[a].burned, erred |-> q[a].erred]
<1>1. /\ UNCHANGED env /\ q' = q /\ repKey' = repKey
      /\ pc[a] = "lpset" /\ Goto(a, "funding")
      /\ lpKey' = {e} \/ lpKey' = lpKey
  BY DEF LpSet, At
<1>2. Learn(a, q[a], "funding")
  BY <1>1, GotoLearns DEF IInv
<1>3. e \in Entries /\ e.burned = q[a].burned /\ e.erred = q[a].erred
  BY AtOne DEF Payloads, Entries
<1> HIDE DEF e
<1>4. Fits(q[a], claim[a], "funding", facts)
      /\ (q[a].burned /\ ~q[a].erred => facts.authority = "none")
  BY <1>1, AtOne DEF Fits, AfterAsset, AfterGold
<1>5. LpTyped(lpKey') /\ RepTyped(repKey')
  BY <1>1, <1>3 DEF IInv, Typed, LpTyped, RepTyped
<1>6. \A f \in lpKey' : f.burned /\ ~f.erred => facts.authority = "none"
  BY <1>1, <1>3, <1>4 DEF IInv, LpInv
<1> QED
  BY <1>1, <1>2, <1>4, <1>5, <1>6, AtOne, Moved DEF Positions

\* Passed or not, the funding is no concern of the invariant.
LEMMA CheckFundingSafe ==
    ASSUME IInv, NEW a \in Analyses, CheckFunding(a)
    PROVE  IInv'
<1>1. UNCHANGED <<env, keys>> /\ pc[a] = "funding"
  BY DEF CheckFunding, At
<1>2. PICK f \in BOOLEAN : Learn(a, [q[a] EXCEPT !.funding = f], "asset")
  BY AtOne DEF CheckFunding, Facts
<1> DEFINE r == [q[a] EXCEPT !.funding = f]
<1>3. r \in Payloads
  BY AtOne DEF Payloads
<1>4. /\ r.age = q[a].age /\ r.concentration = q[a].concentration
      /\ r.burned = q[a].burned /\ r.erred = q[a].erred
  BY AtOne DEF Payloads
<1>5. Learn(a, r, "asset")
  BY <1>2
<1> HIDE DEF r
<1>6. Fits(r, claim[a], "asset", facts)
  BY <1>1, <1>4, AtOne DEF Fits, AfterAsset, AfterGold
<1> QED
  BY <1>1, <1>3, <1>5, <1>6, MovedAlone DEF Positions

\* Of the asset's data nothing is better than the chain's, unless it is marked.
LEMMA AssetFits ==
    ASSUME IInv, NEW a \in Analyses, pc[a] = "asset", NEW r \in Payloads,
           r.age = q[a].age, r.concentration = q[a].concentration, r.burned = q[a].burned,
           ~r.erred => ~q[a].erred,
           ~r.erred => (r.renounced => facts.authority # "mint"),
           ~r.erred => (r.socials => facts.socials)
    PROVE  Fits(r, claim[a], "gold", facts)
BY AtOne DEF Fits, AfterAsset, AfterGold

\* An answer is the chain's word.
LEMMA AssetAnswerSafe ==
    ASSUME IInv, NEW a \in Analyses, AssetAnswer(a)
    PROVE  IInv'
<1> DEFINE r == [q[a] EXCEPT !.renounced = (facts.authority # "mint"),
                             !.socials = facts.socials]
<1>1. UNCHANGED <<env, keys>> /\ pc[a] = "asset" /\ Learn(a, r, "gold")
  BY DEF AssetAnswer, At
<1>2. facts.socials \in BOOLEAN
  BY AtOne DEF Facts
<1>3. r \in Payloads
  BY <1>2, AtOne DEF Payloads
<1>4. /\ r.age = q[a].age /\ r.concentration = q[a].concentration
      /\ r.burned = q[a].burned /\ r.erred = q[a].erred
      /\ r.renounced = (facts.authority # "mint") /\ r.socials = facts.socials
  BY AtOne DEF Payloads
<1> HIDE DEF r
<1>5. Fits(r, claim[a], "gold", facts)
  BY <1>1, <1>3, <1>4, AssetFits
<1> QED
  BY <1>1, <1>3, <1>5, MovedAlone DEF Positions

\* An error object is taken for a renounced token, and marked.
LEMMA AssetErrorSafe ==
    ASSUME IInv, NEW a \in Analyses, AssetError(a)
    PROVE  IInv'
<1> DEFINE r == [q[a] EXCEPT !.renounced = TRUE, !.socials = FALSE, !.erred = TRUE]
<1>1. UNCHANGED <<env, keys>> /\ pc[a] = "asset" /\ Learn(a, r, "gold")
  BY DEF AssetError, At
<1>2. r \in Payloads
  BY AtOne DEF Payloads
<1>3. /\ r.age = q[a].age /\ r.concentration = q[a].concentration
      /\ r.burned = q[a].burned /\ r.erred
  BY AtOne DEF Payloads
<1> HIDE DEF r
<1>4. Fits(r, claim[a], "gold", facts)
  BY <1>1, <1>2, <1>3, AssetFits
<1> QED
  BY <1>1, <1>2, <1>4, MovedAlone DEF Positions

\* After a failure nothing good is believed of the asset.
LEMMA AssetFailsSafe ==
    ASSUME IInv, NEW a \in Analyses, AssetFails(a)
    PROVE  IInv'
<1> DEFINE r == [q[a] EXCEPT !.renounced = FALSE, !.socials = FALSE]
<1>1. UNCHANGED <<env, keys>> /\ pc[a] = "asset" /\ Learn(a, r, "gold")
  BY DEF AssetFails, At
<1>2. r \in Payloads
  BY AtOne DEF Payloads
<1>3. /\ r.age = q[a].age /\ r.concentration = q[a].concentration
      /\ r.burned = q[a].burned /\ r.erred = q[a].erred
      /\ ~r.renounced /\ ~r.socials
  BY AtOne DEF Payloads
<1> HIDE DEF r
<1>4. Fits(r, claim[a], "gold", facts)
  BY <1>1, <1>2, <1>3, AssetFits
<1> QED
  BY <1>1, <1>2, <1>4, MovedAlone DEF Positions

\* Golden buyers are Redis's, or none are found.
LEMMA GoldenWalletsSafe ==
    ASSUME IInv, NEW a \in Analyses, GoldenWallets(a)
    PROVE  IInv'
<1>1. UNCHANGED <<env, keys>> /\ pc[a] = "gold"
  BY DEF GoldenWallets, At
<1>2. PICK g \in BOOLEAN : (g => facts.gold) /\ Learn(a, [q[a] EXCEPT !.gold = g], "rep")
  BY AtOne DEF GoldenWallets, Facts
<1> DEFINE r == [q[a] EXCEPT !.gold = g]
<1>3. r \in Payloads
  BY AtOne DEF Payloads
<1>4. /\ r.age = q[a].age /\ r.concentration = q[a].concentration
      /\ r.burned = q[a].burned /\ r.erred = q[a].erred
      /\ r.renounced = q[a].renounced /\ r.socials = q[a].socials /\ r.gold = g
  BY AtOne DEF Payloads
<1>5. Learn(a, r, "rep")
  BY <1>2
<1> HIDE DEF r
<1>6. Fits(r, claim[a], "rep", facts)
  BY <1>1, <1>2, <1>4, AtOne DEF Fits, AfterAsset, AfterGold
<1> QED
  BY <1>1, <1>3, <1>5, <1>6, MovedAlone DEF Positions

\* Whatever the source, the label is one of the enricher's.
LEMMA ReputedSafe ==
    ASSUME IInv, NEW a \in Analyses, pc[a] \in {"rep", "reprpc"},
           NEW label \in EnricherLabels, NEW l \in {"repset", "brain"},
           Reputed(a, label, l), UNCHANGED <<env, keys>>
    PROVE  IInv'
<1> DEFINE r == [q[a] EXCEPT !.reputation = label, !.insider = "Low"]
<1>1. Learn(a, r, l) /\ l \in Positions
  BY DEF Reputed, Positions
<1>2. r \in Payloads
  <2>1. label \in Labels
    BY DEF EnricherLabels, Labels
  <2> QED
    BY <2>1, AtOne DEF Payloads
<1>3. /\ r.age = q[a].age /\ r.concentration = q[a].concentration
      /\ r.burned = q[a].burned /\ r.erred = q[a].erred
      /\ r.renounced = q[a].renounced /\ r.socials = q[a].socials /\ r.gold = q[a].gold
      /\ r.reputation = label /\ r.insider = "Low"
  BY AtOne DEF Payloads
<1> HIDE DEF r
<1>4. Fits(r, claim[a], l, facts)
  BY <1>3, AtOne DEF Fits, AfterAsset, AfterGold
<1> QED
  BY <1>1, <1>2, <1>4, MovedAlone

\* The label of any number of tokens is one of the enricher's.
LEMMA LabelIs ==
    ASSUME NEW n \in Nat
    PROVE  Label(n) \in EnricherLabels
BY DEF Label, EnricherLabels

\* The reputation comes from the key, from an answer or from a failure.
LEMMA RepSafe ==
    ASSUME IInv, NEW a \in Analyses, RepCached(a) \/ RepAnswer(a)
    PROVE  IInv'
<1>1. UNCHANGED <<env, keys>> /\ pc[a] \in {"rep", "reprpc"}
  BY DEF RepCached, RepAnswer, At
<1>2. Label(facts.items) \in EnricherLabels /\ Label(0) \in EnricherLabels
  BY LabelIs, AtOne DEF Facts
<1>3. \A label \in repKey : label \in EnricherLabels
  BY DEF IInv, Typed
<1>4. PICK label \in EnricherLabels, l \in {"repset", "brain"} : Reputed(a, label, l)
  <2>1. CASE RepCached(a)
    BY <1>3, <2>1 DEF RepCached
  <2>2. CASE RepAnswer(a)
    BY <1>2, <2>2 DEF RepAnswer, EnricherLabels
  <2> QED
    BY <2>1, <2>2
<1> QED
  BY <1>1, <1>4, ReputedSafe

\* The key gets the label just found, or keeps what it held.
LEMMA RepSetSafe ==
    ASSUME IInv, NEW a \in Analyses, RepSet(a)
    PROVE  IInv'
<1>1. /\ UNCHANGED env /\ q' = q /\ lpKey' = lpKey
      /\ pc[a] = "repset" /\ Goto(a, "brain")
      /\ repKey' = {q[a].reputation} \/ repKey' = repKey
  BY DEF RepSet, At
<1>2. Learn(a, q[a], "brain")
  BY <1>1, GotoLearns DEF IInv
<1>3. q[a].reputation \in EnricherLabels /\ Fits(q[a], claim[a], "brain", facts)
  BY <1>1, AtOne DEF Fits, AfterAsset, AfterGold
<1>4. LpTyped(lpKey') /\ RepTyped(repKey')
  BY <1>1, <1>3 DEF IInv, Typed, LpTyped, RepTyped
<1>5. \A f \in lpKey' : f.burned /\ ~f.erred => facts.authority = "none"
  BY <1>1 DEF IInv, LpInv
<1> QED
  BY <1>1, <1>2, <1>3, <1>4, <1>5, AtOne, Moved DEF Positions

\* The brain's answer changes nothing; a message that comes again starts over.
LEMMA BrainSafe ==
    ASSUME IInv, NEW a \in Analyses, Brain(a) \/ Redeliver(a)
    PROVE  IInv'
<1>1. UNCHANGED <<env, keys>>
  BY DEF Brain, Redeliver
<1>2. CASE pc[a] = "brain" /\ Goto(a, "answered") /\ q' = q
  <2>1. Learn(a, q[a], "answered")
    BY <1>2, GotoLearns DEF IInv
  <2>2. Fits(q[a], claim[a], "answered", facts)
    BY <1>2, AtOne DEF Fits, AfterAsset, AfterGold
  <2> QED
    BY <1>1, <2>1, <2>2, AtOne, MovedAlone DEF Positions
<1>3. CASE Learn(a, claim[a], "idle")
  <2>1. Fits(claim[a], claim[a], "idle", facts)
    BY AtOne DEF Fits, AfterAsset, AfterGold
  <2> QED
    BY <1>1, <1>3, <2>1, AtOne, MovedAlone DEF Positions
<1> QED
  BY <1>2, <1>3 DEF Brain, Redeliver, At

\* A key that is gone promises nothing.
LEMMA ExpireSafe ==
    ASSUME IInv, ExpireLp \/ ExpireRep
    PROVE  IInv'
<1>1. /\ facts' = facts /\ claim' = claim /\ pc' = pc /\ q' = q
      /\ lpKey' \in {{}, lpKey} /\ repKey' \in {{}, repKey}
  BY DEF ExpireLp, ExpireRep, env
<1>2. Typed'
  BY <1>1 DEF IInv, Typed
<1>3. LpInv'
  BY <1>1 DEF IInv, LpInv
<1>4. AllFit'
  BY <1>1 DEF IInv, AllFit
<1> QED
  BY <1>2, <1>3, <1>4 DEF IInv

\* Giving up the authority only makes the token better than it was found.
LEMMA RenounceSafe ==
    ASSUME IInv, Renounce
    PROVE  IInv'
<1>1. PICK w \in {"other", "none"} :
          /\ facts.authority = "mint" \/ (facts.authority = "other" /\ w = "none")
          /\ facts' = [facts EXCEPT !.authority = w]
  BY DEF Renounce
<1>2. claim' = claim /\ pc' = pc /\ q' = q /\ lpKey' = lpKey /\ repKey' = repKey
  BY DEF Renounce, keys
<1>3. facts \in Facts
  BY DEF IInv, Typed
<1>4. facts' \in Facts
  BY <1>1, <1>3 DEF Facts
<1>5. /\ facts'.authority = w /\ facts'.socials = facts.socials /\ facts'.age = facts.age
      /\ facts'.gold = facts.gold /\ facts'.key = facts.key
  BY <1>1, <1>3 DEF Facts
<1>6. /\ facts.authority = "none" => facts'.authority = "none"
      /\ facts'.authority # "mint"
  BY <1>1, <1>5
<1>7. Typed'
  BY <1>2, <1>4 DEF IInv, Typed
<1>8. LpInv'
  BY <1>2, <1>6 DEF IInv, LpInv
<1>9. AllFit'
  <2> SUFFICES ASSUME NEW a \in Analyses
               PROVE  Fits(q[a], claim[a], pc[a], facts')
    BY <1>2 DEF AllFit
  <2> QED
    BY <1>5, <1>6, AtOne DEF Fits
<1> QED
  BY <1>7, <1>8, <1>9 DEF IInv

\* The invariant is inductive.
LEMMA InitSafe == Init => IInv
<1> SUFFICES ASSUME Init PROVE IInv
  OBVIOUS
<1>1. Typed
  BY ClaimAssumption, FactAssumption DEF Init, Typed, Positions
<1>2. LpInv
  BY DEF Init, LpInv
<1>3. AllFit
  <2> SUFFICES ASSUME NEW a \in Analyses
               PROVE  Fits(q[a], claim[a], pc[a], facts)
    BY DEF AllFit
  <2>1. claim[a] \in Payloads /\ q[a] = claim[a] /\ pc[a] = "idle"
    BY <1>1, ClaimIs DEF Init
  <2>2. claim[a].age \in Nat
    BY <2>1 DEF Payloads
  <2> QED
    BY <2>1, <2>2 DEF Fits, AfterAsset, AfterGold
<1> QED
  BY <1>1, <1>2, <1>3 DEF IInv

\* Every step preserves the invariant.
LEMMA StepSafe == IInv /\ [Next]_vars => IInv'
<1> SUFFICES ASSUME IInv, [Next]_vars PROVE IInv'
  OBVIOUS
<1>1. CASE UNCHANGED vars
  BY <1>1 DEF vars, IInv, Typed, LpInv, AllFit
<1>2. CASE ExpireLp \/ ExpireRep
  BY <1>2, ExpireSafe
<1>3. CASE Renounce
  BY <1>3, RenounceSafe
<1>4. ASSUME NEW a \in Analyses, Decode(a) \/ Enrich(a) \/ Brain(a) \/ Redeliver(a)
      PROVE  IInv'
  <2>1. CASE Decode(a)
    BY <2>1, DecodeSafe
  <2>2. CASE WalletAge(a)
    BY <2>2, WalletAgeSafe
  <2>3. CASE LpCached(a)
    BY <2>3, LpCachedSafe
  <2>4. CASE LpMiss(a) \/ LpFails(a) \/ RepMiss(a)
    BY <2>4, SkipSafe
  <2>5. CASE LpAnswer(a)
    BY <2>5, LpAnswerSafe
  <2>6. CASE LpError(a)
    BY <2>6, LpErrorSafe
  <2>7. CASE LpSet(a)
    BY <2>7, LpSetSafe
  <2>8. CASE CheckFunding(a)
    BY <2>8, CheckFundingSafe
  <2>9. CASE AssetAnswer(a)
    BY <2>9, AssetAnswerSafe
  <2>10. CASE AssetError(a)
    BY <2>10, AssetErrorSafe
  <2>11. CASE AssetFails(a)
    BY <2>11, AssetFailsSafe
  <2>12. CASE GoldenWallets(a)
    BY <2>12, GoldenWalletsSafe
  <2>13. CASE RepCached(a) \/ RepAnswer(a)
    BY <2>13, RepSafe
  <2>14. CASE RepSet(a)
    BY <2>14, RepSetSafe
  <2>15. CASE Brain(a) \/ Redeliver(a)
    BY <2>15, BrainSafe
  <2> QED
    BY <1>4, <2>1, <2>2, <2>3, <2>4, <2>5, <2>6, <2>7, <2>8, <2>9, <2>10, <2>11, <2>12,
       <2>13, <2>14, <2>15 DEF Enrich
<1> QED
  BY <1>1, <1>2, <1>3, <1>4 DEF Next

\* The invariant holds of every behaviour.
LEMMA Inductive == Spec => []IInv
BY InitSafe, StepSafe, PTL DEF Spec
-----------------------------------------------------------------------------
(***************************************************************************)
(* The theorems.                                                           *)
(***************************************************************************)
LEMMA TypedIsType == IInv => TypeOK
<1> SUFFICES ASSUME IInv PROVE TypeOK
  OBVIOUS
<1>1. Cardinality({}) = 0 /\ \A x : Cardinality({x}) = 1
  BY FS_EmptySet, FS_Singleton
<1>2. lpKey \subseteq [burned : BOOLEAN, erred : BOOLEAN] /\ Cardinality(lpKey) <= 1
  <2>1. CASE lpKey = {}
    BY <1>1, <2>1
  <2>2. CASE \E e \in Entries : lpKey = {e}
    BY <1>1, <2>2 DEF Entries
  <2> QED
    BY <2>1, <2>2 DEF IInv, Typed
<1>3. repKey \subseteq Labels /\ Cardinality(repKey) <= 1
  <2>1. CASE repKey = {}
    BY <1>1, <2>1
  <2>2. CASE \E label \in EnricherLabels : repKey = {label}
    <3>1. PICK label \in EnricherLabels : repKey = {label}
      BY <2>2
    <3>2. label \in Labels
      BY DEF EnricherLabels, Labels
    <3> QED
      BY <1>1, <3>1, <3>2
  <2> QED
    BY <2>1, <2>2 DEF IInv, Typed
<1> QED
  BY <1>2, <1>3 DEF IInv, Typed, TypeOK

\* TypeOK holds for any number of analyses, claims and facts: in particular neither key
\* ever holds two answers.
THEOREM TypeCorrect == Spec => []TypeOK
BY Inductive, TypedIsType, PTL

\* Whatever the webhook claims and the RPCs answer, the bonuses do not outweigh the
\* overrides: SAFE without golden buyers needs burned liquidity, a renounced contract and
\* an old enough wallet, and with them one of the first two.
THEOREM SafeEarned == Spec => []SafeIsEarned
<1>1. IInv => SafeIsEarned
  BY AtOne, SafePayload DEF SafeIsEarned, Answered
<1> QED
  BY <1>1, Inductive, PTL

\* What fits in the end is rated no higher than the best there was to find.
LEMMA AnsweredFits ==
    ASSUME IInv, NEW a \in Answered, facts.key, ~q[a].erred
    PROVE  Rated(q[a]) <= Rated(Best(claim[a]))
<1> DEFINE b == Best(claim[a])
<1>1. a \in Analyses /\ pc[a] = "answered"
  BY DEF Answered
<1>2. /\ q[a] \in Payloads /\ q[a].age \in Nat
      /\ claim[a] \in Payloads /\ claim[a].age \in Nat
      /\ facts \in Facts /\ facts.age \in Nat
      /\ Fits(q[a], claim[a], "answered", facts)
  BY <1>1, AtOne
<1>3. /\ b.age = IF claim[a].age > facts.age THEN claim[a].age ELSE facts.age
      /\ b.concentration = Holders(claim[a])
      /\ b.burned = (claim[a].burned \/ facts.authority = "none") /\ b.funding = TRUE
      /\ b.renounced = (facts.authority # "mint") /\ b.socials = facts.socials
      /\ b.gold = facts.gold /\ b.reputation = "UNKNOWN" /\ b.insider = "Low"
  BY DEF Best, Holders
<1>4. b \in Payloads
  BY <1>2 DEF Best, Payloads, Facts, Labels
<1> HIDE DEF b
<1>5. /\ q[a].age <= b.age
      /\ q[a].concentration = b.concentration
      /\ q[a].reputation \in EnricherLabels /\ q[a].insider = "Low"
  BY <1>2, <1>3 DEF Fits
<1>6. q[a].burned => b.burned
  BY <1>2, <1>3 DEF Fits
<1>7. (q[a].renounced => b.renounced) /\ (q[a].socials => b.socials)
  BY <1>2, <1>3 DEF Fits, AfterAsset
<1>8. q[a].gold => b.gold
  BY <1>2, <1>3 DEF Fits, AfterAsset, AfterGold
<1>9. q[a].funding => b.funding
  BY <1>3
<1>10. b.reputation \in EnricherLabels /\ b.insider = "Low"
  BY <1>3 DEF EnricherLabels
<1>11. Rated(q[a]) <= Rated(b)
  BY <1>2, <1>4, <1>5, <1>6, <1>7, <1>8, <1>9, <1>10, RatedMonotone
<1> QED
  BY <1>11 DEF b

\* However calls fail, answers are cached by others and messages come again, and whenever
\* the authority is given up, no score is above what the chain and the webhook support,
\* but for error objects taken for answers.
THEOREM FailuresSafe == Spec => []FailuresCostTrust
<1>1. IInv => FailuresCostTrust
  BY AnsweredFits DEF FailuresCostTrust
<1> QED
  BY <1>1, Inductive, PTL
=============================================================================
