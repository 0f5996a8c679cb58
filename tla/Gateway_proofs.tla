--------------------------- MODULE Gateway_proofs ---------------------------
(***************************************************************************)
(* Proofs about Gateway, for any number of requests, roles, prices, moves  *)
(* of the market and choices of a role.                                    *)
(***************************************************************************)
EXTENDS Gateway, TLAPS

(***************************************************************************)
(* Types.  A request about to SET a price has it from an exchange.         *)
(***************************************************************************)
OracleTyped ==
    /\ OracleTypeOK
    /\ \A r \in Requests : step[r] = "set" => hand[r] \in Prices

Typed == TypeOK /\ OracleTyped

\* The constant and None are no prices.
LEMMA NoPrices == None \notin Prices /\ HardFallbackPrice \notin Prices /\ None # HardFallbackPrice
  BY PriceAssumption DEF None, HardFallbackPrice

\* Typed holds initially.
LEMMA TypedInit == Init => Typed
<1> SUFFICES ASSUME Init PROVE Typed
  OBVIOUS
<1>1. AuthTypeOK
  BY DEF Init, AuthInit, AuthTypeOK, Positions
<1>2. OracleTyped
  BY DEF Init, OracleInit, OracleTypeOK, OracleTyped
<1>3. \A r \in Requests : pos[r] # "quoting" /\ step[r] = "idle"
  BY DEF Init, AuthInit, OracleInit
<1> QED
  BY <1>1, <1>2, <1>3 DEF Typed, TypeOK, OracleTyped

\* One call of a request keeps the oracle's types, when it is given a price of its kind.
LEMMA CallTyped ==
    ASSUME OracleTyped, NEW r \in Requests, NEW l, NEW k, NEW p, Call(r, l, k, p),
           k \in {"idle", "jupiter", "binance", "set", "redis", "quoted"},
           p \in Prices \cup {None, HardFallbackPrice},
           p # None <=> k \in {"set", "quoted"},
           k = "set" => p \in Prices,
           priceCache' \in Prices \cup {None}
    PROVE  OracleTyped'
  BY DEF OracleTyped, OracleTypeOK, Call

\* The oracle's own steps keep its types, and only a request for a quote has a call.
LEMMA OracleStepTyped ==
    ASSUME OracleTyped, OracleStep
    PROVE  OracleTyped' /\ \A r \in Requests : step'[r] = "idle" <=> step[r] = "idle"
<1>t. /\ market \in Prices /\ priceCache \in Prices \cup {None}
      /\ \A r \in Requests : hand[r] \in Prices \cup {None, HardFallbackPrice}
      /\ \A r \in Requests : hand[r] # None <=> step[r] \in {"set", "quoted"}
      /\ \A r \in Requests : step[r] = "set" => hand[r] \in Prices
  BY DEF OracleTyped, OracleTypeOK
<1>1. ASSUME NEW r \in Requests, NEW l, NEW k, NEW p, Call(r, l, k, p),
             l # "idle", k # "idle"
      PROVE  \A q \in Requests : step'[q] = "idle" <=> step[q] = "idle"
  BY <1>1 DEF Call, OracleTyped, OracleTypeOK
<1>2. ASSUME NEW r \in Requests, JupiterAnswers(r) \/ BinanceAnswers(r) PROVE OracleTyped'
  BY <1>t, <1>2, CallTyped, NoPrices DEF JupiterAnswers, BinanceAnswers
<1>3. ASSUME NEW r \in Requests, JupiterFails(r) \/ BinanceFails(r) PROVE OracleTyped'
  BY <1>t, <1>3, CallTyped, NoPrices DEF JupiterFails, BinanceFails
<1>4. ASSUME NEW r \in Requests, SetPrice(r) PROVE OracleTyped'
  <2>1. hand[r] \in Prices
    BY <1>t, <1>4 DEF SetPrice, Call
  <2>2. priceCache' \in Prices \cup {None}
    BY <1>t, <1>4, <2>1 DEF SetPrice
  <2> QED
    BY <1>4, <2>1, <2>2, CallTyped, NoPrices DEF SetPrice
<1>5. ASSUME NEW r \in Requests, RedisPrice(r) PROVE OracleTyped'
  BY <1>t, <1>5, CallTyped, NoPrices DEF RedisPrice
<1>6. ASSUME NEW r \in Requests, HardFallback(r) PROVE OracleTyped'
  BY <1>t, <1>6, CallTyped, NoPrices DEF HardFallback
<1>7. CASE ExpirePrice
  BY <1>7 DEF ExpirePrice, OracleTyped, OracleTypeOK
<1>8. CASE Move
  BY <1>8 DEF Move, OracleTyped, OracleTypeOK
<1>9. \A r \in Requests : step'[r] = "idle" <=> step[r] = "idle"
  <2>1. CASE ExpirePrice \/ Move
    BY <2>1 DEF ExpirePrice, Move
  <2>2. ASSUME NEW r \in Requests,
               JupiterAnswers(r) \/ JupiterFails(r) \/ BinanceAnswers(r) \/ BinanceFails(r)
               \/ AskRedis(r)
        PROVE  \E l, k, p : Call(r, l, k, p) /\ l # "idle" /\ k # "idle"
    <3>1. CASE JupiterAnswers(r)
      BY <3>1 DEF JupiterAnswers
    <3>2. CASE JupiterFails(r)
      BY <3>2 DEF JupiterFails
    <3>3. CASE BinanceAnswers(r)
      BY <3>3 DEF BinanceAnswers
    <3>4. CASE BinanceFails(r)
      BY <3>4 DEF BinanceFails
    <3>5. CASE AskRedis(r)
      BY <3>5 DEF AskRedis, SetPrice, RedisPrice, HardFallback
    <3> QED
      BY <2>2, <3>1, <3>2, <3>3, <3>4, <3>5
  <2> QED
    BY <1>1, <2>1, <2>2 DEF OracleStep
<1> QED
  BY <1>2, <1>3, <1>4, <1>5, <1>6, <1>7, <1>8, <1>9 DEF OracleStep, AskRedis

\* The middleware's and the handlers' steps keep their types; nobody starts to be quoted.
LEMMA AuthStepTyped ==
    ASSUME AuthTypeOK, AuthStep
    PROVE  AuthTypeOK' /\ \A r \in Requests : pos'[r] = "quoting" <=> pos[r] = "quoting"
<1> DEFINE Same == \A r \in Requests : pos'[r] = "quoting" <=> pos[r] = "quoting"
<1> USE DEF AuthTypeOK, Positions, Goto, keyVars, roleVars
<1>1. ASSUME NEW r \in Requests, PresentToken(r) \/ PresentTeaser(r)
      PROVE  AuthTypeOK' /\ Same
  BY <1>1 DEF PresentToken, PresentTeaser
<1>2. ASSUME NEW r \in Requests, KeyCached(r) \/ KeyNotCached(r) PROVE AuthTypeOK' /\ Same
  BY <1>2 DEF KeyCached, KeyNotCached
<1>3. ASSUME NEW r \in Requests, ReadKey(r) \/ ReadKeyFails(r) PROVE AuthTypeOK' /\ Same
  BY <1>3 DEF ReadKey, ReadKeyFails
<1>4. ASSUME NEW r \in Requests, FillKey(r) PROVE AuthTypeOK' /\ Same
  BY <1>4 DEF FillKey
<1>5. ASSUME NEW r \in Requests, Finish(r) PROVE AuthTypeOK' /\ Same
  BY <1>5 DEF Finish
<1>6. ASSUME NEW r \in Requests, AuthSync(r) PROVE AuthTypeOK' /\ Same
  BY <1>6 DEF AuthSync, SignedIn, SyncUser
<1>7. CASE ExpireKey \/ GenerateAPIKey \/ RevokeKey
  BY <1>7 DEF ExpireKey, GenerateAPIKey, SaveAPIKey, RevokeKey
<1>8. ASSUME NEW r \in Requests, NEW x \in Roles, SaveUserRole(r, x)
      PROVE  AuthTypeOK' /\ Same
  <2>1. /\ role' \in Roles \cup {None, "unassigned"}
        /\ syncs' \in [Roles -> Nat] /\ changes' \in Nat
    BY <1>8 DEF SaveUserRole, UpsertRole, StartSync
  <2>2. settled' \in BOOLEAN
    <3>1. CASE StartSync(x)
      BY <3>1 DEF StartSync
    <3> QED
      BY <1>8, <3>1 DEF SaveUserRole
  <2> QED
    BY <1>8, <2>1, <2>2 DEF SaveUserRole, SignedIn
<1>9. ASSUME NEW x \in Roles, SyncToClerk(x) \/ SyncFails(x) PROVE AuthTypeOK' /\ Same
  <2>1. syncs' \in [Roles -> Nat]
    BY <1>9 DEF SyncToClerk, SyncFails
  <2> QED
    BY <1>9, <2>1 DEF SyncToClerk, SyncFails
<1> QED
  BY <1>1, <1>2, <1>3, <1>4, <1>5, <1>6, <1>7, <1>8, <1>9 DEF AuthStep, LookUpKey, RoleStep

\* Typed is inductive.
LEMMA TypedStep == Typed /\ [Next]_vars => Typed'
<1> SUFFICES ASSUME Typed, [Next]_vars PROVE Typed'
  OBVIOUS
<1> USE DEF Typed, TypeOK
<1>1. CASE UNCHANGED vars
  BY <1>1 DEF vars, authVars, keyVars, roleVars, oracleVars, AuthTypeOK, OracleTyped,
              OracleTypeOK
<1>2. CASE AuthStep /\ UNCHANGED oracleVars
  BY <1>2, AuthStepTyped DEF oracleVars, OracleTyped, OracleTypeOK
<1>3. CASE OracleStep /\ UNCHANGED authVars
  BY <1>3, OracleStepTyped DEF authVars, keyVars, roleVars, AuthTypeOK, OracleTyped
<1>4. ASSUME NEW r \in Requests, Subscribe(r) PROVE Typed'
  <2>1. OracleTyped'
    <3>1. Call(r, "idle", "jupiter", None) /\ priceCache' = priceCache
      BY <1>4 DEF Subscribe, Ask
    <3> QED
      BY <3>1, CallTyped DEF OracleTyped, OracleTypeOK
  <2>2. AuthTypeOK'
    BY <1>4 DEF Subscribe, Goto, AuthTypeOK, Positions, keyVars, roleVars
  <2>3. \A q \in Requests : pos'[q] = "quoting" <=> step'[q] # "idle"
    BY <1>4 DEF Subscribe, Goto, Ask, Call, AuthTypeOK, OracleTypeOK
  <2> QED
    BY <2>1, <2>2, <2>3 DEF OracleTyped
<1>5. ASSUME NEW r \in Requests, Reply(r) PROVE Typed'
  <2>1. OracleTyped'
    <3>1. Call(r, "quoted", "idle", None) /\ priceCache' = priceCache
      BY <1>5 DEF Reply, Quoted
    <3> QED
      BY <3>1, CallTyped DEF OracleTyped, OracleTypeOK
  <2>2. AuthTypeOK'
    BY <1>5 DEF Reply, Goto, AuthTypeOK, Positions, keyVars, roleVars
  <2>3. \A q \in Requests : pos'[q] = "quoting" <=> step'[q] # "idle"
    BY <1>5 DEF Reply, Goto, Quoted, Call, AuthTypeOK, OracleTypeOK
  <2> QED
    BY <2>1, <2>2, <2>3 DEF OracleTyped
<1>6. CASE Crash
  <2>1. AuthTypeOK'
    BY <1>6 DEF Crash, AuthCrash, AuthTypeOK, Positions, keyVars
  <2>2. OracleTyped'
    BY <1>6 DEF Crash, OracleCrash, OracleTyped, OracleTypeOK
  <2>3. \A q \in Requests : pos'[q] = "quoting" <=> step'[q] # "idle"
    BY <1>6 DEF Crash, AuthCrash, OracleCrash
  <2> QED
    BY <2>1, <2>2, <2>3 DEF OracleTyped
<1> QED
  BY <1>1, <1>2, <1>3, <1>4, <1>5, <1>6 DEF Next

\* Typed holds.
LEMMA TypedHolds == Safety => []Typed
  BY TypedInit, TypedStep, PTL DEF Safety

\* Rows, keys and requests keep their types; the constant never gets into Redis.
THEOREM TypeCorrect == Safety => []TypeOK
<1>1. Typed => TypeOK
  BY DEF Typed
<1> QED
  BY <1>1, TypedHolds, PTL
-----------------------------------------------------------------------------
(***************************************************************************)
(* The role.  While it is settled, at most one goroutine is on its way to  *)
(* Clerk, and it has the role that Postgres has.                           *)
(***************************************************************************)
Chosen == IF role \in Roles THEN role ELSE None
Alone(x) == \A y \in Roles : syncs[y] = IF y = x THEN 1 ELSE 0

RoleInv == settled =>
    \/ InFlight = {} /\ clerkRole = Chosen
    \/ role \in Roles /\ Alone(role)

\* RoleInv holds initially.
LEMMA RoleInit == Init => RoleInv
  BY RoleAssumption DEF Init, AuthInit, RoleInv, InFlight, Chosen, None

\* RoleInv is inductive.
LEMMA RoleStepSafe == Typed /\ RoleInv /\ [Next]_vars => RoleInv'
<1> SUFFICES ASSUME Typed, RoleInv, [Next]_vars PROVE RoleInv'
  OBVIOUS
<1>t. role \in Roles \cup {None, "unassigned"} /\ syncs \in [Roles -> Nat]
  BY DEF Typed, TypeOK, AuthTypeOK
<1>1. ASSUME UNCHANGED roleVars PROVE RoleInv'
  BY <1>1 DEF roleVars, RoleInv, InFlight, Chosen, Alone
<1>2. ASSUME NEW r \in Requests, NEW x \in Roles, SaveUserRole(r, x) PROVE RoleInv'
  <2>1. CASE UpsertRole(x) /\ StartSync(x)
    <3>1. ASSUME InFlight = {} PROVE Alone(x)'
      <4>1. \A y \in Roles : syncs[y] = 0
        BY <1>t, <3>1 DEF InFlight
      <4> QED
        BY <1>t, <2>1, <4>1 DEF StartSync, Alone
    <3> QED
      BY <2>1, <3>1 DEF UpsertRole, StartSync, RoleInv
  <2>2. CASE settled' = FALSE
    BY <2>2 DEF RoleInv
  <2>3. CASE UNCHANGED <<role, syncs, settled>>
    BY <1>2, <2>3 DEF SaveUserRole, RoleInv, InFlight, Chosen, Alone
  <2> QED
    BY <1>2, <2>1, <2>2, <2>3 DEF SaveUserRole
<1>3. ASSUME NEW x \in Roles, SyncToClerk(x) PROVE RoleInv'
  <2>1. SUFFICES ASSUME settled PROVE RoleInv'
    BY <1>3 DEF SyncToClerk, RoleInv
  <2>2. role \in Roles /\ Alone(role)
    BY <1>3, <2>1 DEF SyncToClerk, RoleInv, InFlight
  <2>3. x = role
    BY <1>3, <2>2 DEF SyncToClerk, Alone
  <2>4. \A y \in Roles : syncs'[y] = 0
    BY <1>t, <1>3, <2>2, <2>3 DEF SyncToClerk, Alone
  <2> QED
    BY <1>3, <2>2, <2>3, <2>4 DEF SyncToClerk, RoleInv, InFlight, Chosen
<1>4. ASSUME NEW x \in Roles, SyncFails(x) PROVE RoleInv'
  BY <1>4 DEF SyncFails, RoleInv
<1>5. ASSUME NEW r \in Requests, AuthSync(r) PROVE RoleInv'
  <2>1. UNCHANGED <<clerkRole, syncs, settled>> /\ (role \in Roles => role' = role)
        /\ (role \notin Roles => role' \notin Roles)
    BY <1>t, <1>5, RoleAssumption DEF AuthSync, SyncUser
  <2> QED
    BY <2>1 DEF RoleInv, InFlight, Chosen, Alone
<1>6. CASE Crash
  <2>1. InFlight' = {}
    BY <1>6 DEF Crash, AuthCrash, InFlight
  <2>2. ASSUME InFlight = {} PROVE \A y \in Roles : syncs[y] = 0
    BY <1>t, <2>2 DEF InFlight
  <2> QED
    BY <1>6, <2>1, <2>2 DEF Crash, AuthCrash, RoleInv, Chosen, Alone
<1>7. CASE UNCHANGED vars
  BY <1>1, <1>7 DEF vars, authVars
<1>8. CASE AuthStep
  BY <1>1, <1>2, <1>3, <1>4, <1>5, <1>8
     DEF AuthStep, LookUpKey, RoleStep, PresentToken, PresentTeaser, KeyCached, KeyNotCached,
         ReadKey, ReadKeyFails, FillKey, Finish, ExpireKey, GenerateAPIKey, RevokeKey
<1>9. CASE OracleStep /\ UNCHANGED authVars
  BY <1>1, <1>9 DEF authVars
<1> QED
  BY <1>1, <1>6, <1>7, <1>8, <1>9 DEF Next, Subscribe, Reply

\* When the goroutines are done, Clerk shows the role that Postgres has.
THEOREM RolesHold == Safety => []RolesSettle
<1>1. RoleInv => RolesSettle
  BY DEF RoleInv, RolesSettle, InFlight, Chosen, Alone
<1> QED
  BY <1>1, RoleInit, RoleStepSafe, TypedHolds, PTL DEF Safety
-----------------------------------------------------------------------------
(***************************************************************************)
(* The key implements LookAside.                                           *)
(***************************************************************************)
\* An active key is held.
LEMMA ActiveHeld == Active \subseteq KeyHeld /\ KeyHeld \subseteq {User}
  BY DEF Active, KeyHeld

\* A step that lets nobody in by the key is a step of LookAside.
LEMMA KeyLeaves ==
    ASSUME key' = key, keyCache' => keyCache, keyCache' \in BOOLEAN,
           \A r \in Requests : pos'[r] = pos[r] \/ pos'[r] \notin {"fill", "bot", "refused"}
    PROVE  Keys!Next
<1> DEFINE S == {r \in Requests : KeyTold'[r] = "unasked"}
<1>1. \A r \in Requests : KeyTold'[r] \in {KeyTold[r], "unasked"}
  BY DEF KeyTold
<1>2. KeyTold' = [r \in Requests |-> IF r \in S THEN "unasked" ELSE KeyTold[r]]
  BY <1>1 DEF KeyTold
<1>3. Active' = Active /\ KeyHeld' \subseteq KeyHeld
  BY DEF Active, KeyHeld
<1>4. Active \subseteq KeyHeld'
  BY <1>3 DEF Active, KeyHeld
<1>5. S \in SUBSET Requests
  OBVIOUS
<1>6. Keys!Leave(S)
  BY <1>2, <1>3, <1>4 DEF Keys!Leave, Keys!Forget
<1> QED
  BY <1>5, <1>6 DEF Keys!Next

\* So is one that decides about a key that is held, or is not active.
LEMMA KeyTells ==
    ASSUME NEW r \in Requests, NEW a \in {User, "nothing"}, key' = key,
           KeyHeld' \subseteq KeyHeld,
           a \in KeyHeld \cup (IF Active = {} THEN {"nothing"} ELSE {}),
           pos \in [Requests -> Positions],
           pos' = [pos EXCEPT ![r] = IF a = User THEN "bot" ELSE "refused"]
    PROVE  Keys!Next
<1>1. KeyTold' = [KeyTold EXCEPT ![r] = a]
  BY DEF KeyTold, User
<1>2. Active' = Active /\ Active \subseteq KeyHeld'
  BY ActiveHeld DEF Active, KeyHeld
<1>3. Keys!Tell(r, a)
  BY <1>1, <1>2 DEF Keys!Tell, Keys!Forget
<1> QED
  BY <1>3 DEF Keys!Next

\* Every step of the gateway is one of LookAside for the key.
LEMMA KeysStep == Typed /\ [Next]_vars => [Keys!Next]_(Keys!vars)
<1> SUFFICES ASSUME Typed, Next PROVE Keys!Next
  <2>1. CASE UNCHANGED vars
    BY <2>1 DEF vars, authVars, keyVars, Keys!vars, Active, KeyHeld, KeyTold
  <2> QED
    BY <2>1
<1> USE DEF Goto, keyVars
<1>t. pos \in [Requests -> Positions] /\ keyCache \in BOOLEAN /\ key \in {None, "active", "revoked"}
  BY DEF Typed, TypeOK, AuthTypeOK
<1>1. ASSUME NEW r \in Requests,
             PresentToken(r) \/ PresentTeaser(r) \/ KeyNotCached(r) \/ ReadKeyFails(r)
             \/ Finish(r) \/ AuthSync(r) \/ Subscribe(r) \/ Reply(r)
      PROVE  Keys!Next
  BY <1>t, <1>1, KeyLeaves DEF PresentToken, PresentTeaser, KeyNotCached, ReadKeyFails, Finish,
                               AuthSync, Subscribe, Reply
<1>2. ASSUME NEW r \in Requests, NEW x \in Roles, SaveUserRole(r, x) PROVE Keys!Next
  BY <1>t, <1>2, KeyLeaves DEF SaveUserRole
<1>3. ASSUME NEW x \in Roles, SyncToClerk(x) \/ SyncFails(x) PROVE Keys!Next
  BY <1>t, <1>3, KeyLeaves DEF SyncToClerk, SyncFails
<1>4. ASSUME NEW r \in Requests, KeyCached(r) PROVE Keys!Next
  <2>1. User \in KeyHeld /\ KeyHeld' \subseteq {User}
    BY <1>4 DEF KeyCached, KeyHeld, Active
  <2>2. KeyHeld = {User}
    BY <2>1, ActiveHeld
  <2> QED
    BY <1>t, <1>4, <2>1, <2>2, KeyTells DEF KeyCached
<1>5. ASSUME NEW r \in Requests, ReadKey(r) PROVE Keys!Next
  <2>1. CASE key = "active"
    <3>1. Active' = Active /\ KeyHeld' = {User} /\ KeyHeld = {User}
      BY <1>5, <2>1 DEF ReadKey, Active, KeyHeld
    <3>2. \A q \in Requests : KeyTold'[q] = KeyTold[q]
      BY <1>t, <1>5, <2>1 DEF ReadKey, KeyTold
    <3>3. KeyTold' = KeyTold
      BY <3>2 DEF KeyTold
    <3>4. Active \in SUBSET {User}
      BY DEF Active
    <3> QED
      BY <3>1, <3>3, <3>4 DEF Keys!Next, Keys!Change
  <2>2. CASE key # "active"
    <3>1. KeyHeld' \subseteq KeyHeld
      BY <1>t, <1>5, <2>2 DEF ReadKey, Active, KeyHeld
    <3> QED
      BY <1>t, <1>5, <2>2, <3>1, KeyTells DEF ReadKey, Active, User
  <2> QED
    BY <2>1, <2>2
<1>6. ASSUME NEW r \in Requests, FillKey(r) PROVE Keys!Next
  <2>1. KeyHeld = {User} /\ KeyHeld' \subseteq {User}
    BY <1>6 DEF FillKey, KeyHeld, Active
  <2> QED
    BY <1>t, <1>6, <2>1, KeyTells DEF FillKey
<1>7. CASE ExpireKey
  BY <1>7, KeyLeaves DEF ExpireKey
<1>8. CASE GenerateAPIKey \/ RevokeKey
  <2>1. UNCHANGED <<keyCache, pos>>
    BY <1>8 DEF GenerateAPIKey, RevokeKey
  <2>2. KeyTold' = KeyTold
    BY <2>1 DEF KeyTold
  <2>3. Active' \subseteq {User} /\ Active' \subseteq KeyHeld' /\ KeyHeld' \subseteq KeyHeld \cup Active'
    BY <2>1 DEF Active, KeyHeld
  <2> QED
    BY <2>2, <2>3 DEF Keys!Next, Keys!Change
<1>9. CASE Crash
  BY <1>t, <1>9, KeyLeaves DEF Crash, AuthCrash
<1>10. CASE OracleStep /\ UNCHANGED authVars
  BY <1>t, <1>10, KeyLeaves DEF authVars
<1> QED
  BY <1>1, <1>2, <1>3, <1>4, <1>5, <1>6, <1>7, <1>8, <1>9, <1>10
     DEF Next, AuthStep, LookUpKey, RoleStep

\* The key implements LookAside: once Redis and the look-ups have let go of a revoked key
\* nobody is let in by it, and a new key is never refused.
THEOREM KeysRefined == Safety => ServesKeys
<1>1. Init => Keys!Init
  BY DEF Init, AuthInit, Keys!Init, Active, KeyHeld, KeyTold, None
<1> QED
  BY <1>1, KeysStep, TypedHolds, PTL DEF Safety, ServesKeys, Keys!Spec

\* The key is revoked, and neither Redis nor a request on its way to it has the user.
LockedOut ==
    /\ key = "revoked" /\ ~keyCache
    /\ \A r \in Requests : pos[r] \notin {"fill", "bot"}

\* A revoked key is not issued again.
LEMMA KeyStaysRevoked == [Next]_vars /\ key = "revoked" => key' = "revoked"
<1> SUFFICES ASSUME [Next]_vars, key = "revoked" PROVE key' = "revoked"
  OBVIOUS
<1>1. CASE AuthStep
  BY <1>1 DEF AuthStep, LookUpKey, RoleStep, PresentToken, PresentTeaser, KeyCached,
              KeyNotCached, ReadKey, ReadKeyFails, FillKey, Finish, ExpireKey, GenerateAPIKey,
              RevokeKey, SaveUserRole, SyncToClerk, SyncFails, AuthSync, keyVars, None
<1>2. CASE UNCHANGED keyVars
  BY <1>2 DEF keyVars
<1> QED
  BY <1>1, <1>2 DEF Next, Subscribe, Reply, Crash, AuthCrash, vars, authVars

\* A bot that is locked out stays out, whatever the others ask for and whatever fails:
\* no call brings the entry of a revoked key back, so that RevocationEnds needs no more
\* than that the entry expires and look-ups end.
THEOREM RevokedStaysOut == Safety => [](LockedOut => []LockedOut)
<1>1. ASSUME Typed, [Next]_vars, LockedOut PROVE LockedOut'
  <2>1. key' = "revoked"
    BY <1>1, KeyStaysRevoked DEF LockedOut
  <2>2. Active = {} /\ Active' = {} /\ KeyHeld = {} /\ KeyTold \in [Requests -> {"nothing", "unasked"}]
    BY <1>1, <2>1 DEF LockedOut, Active, KeyHeld, KeyTold
  <2>3. KeyHeld' = {} /\ KeyTold' \in [Requests -> {"nothing", "unasked"}]
    BY <1>1, <2>2, KeysStep
       DEF Keys!Next, Keys!vars, Keys!Change, Keys!Leave, Keys!Tell, Keys!Forget
  <2>4. ~keyCache' /\ \A r \in Requests : pos'[r] # "fill"
    BY <2>3 DEF KeyHeld
  <2>5. ASSUME NEW r \in Requests PROVE pos'[r] # "bot"
    BY <2>3 DEF KeyTold, User
  <2> QED
    BY <2>1, <2>4, <2>5 DEF LockedOut
<1> QED
  BY <1>1, TypedHolds, PTL DEF Safety
-----------------------------------------------------------------------------
(***************************************************************************)
(* The oracle implements LookAside.                                        *)
(***************************************************************************)
\* A step of the oracle that quotes nobody a price is a step of LookAside.
LEMMA PriceLeaves ==
    ASSUME market' = market, PricesHeld' \subseteq PricesHeld,
           \A r \in Requests : PriceTold'[r] \in {PriceTold[r], "unasked"}
    PROVE  SolPrice!Next
<1> DEFINE S == {r \in Requests : PriceTold'[r] = "unasked"}
<1>1. PriceTold' = [r \in Requests |-> IF r \in S THEN "unasked" ELSE PriceTold[r]]
  BY DEF PriceTold
<1>2. {market} \subseteq PricesHeld'
  BY DEF PricesHeld
<1>3. S \in SUBSET Requests
  OBVIOUS
<1>4. SolPrice!Leave(S)
  BY <1>1, <1>2 DEF SolPrice!Leave, SolPrice!Forget
<1> QED
  BY <1>3, <1>4 DEF SolPrice!Next

\* So is one that quotes a price that is held, or the constant.
LEMMA PriceTells ==
    ASSUME NEW r \in Requests, NEW a \in Prices \cup {HardFallbackPrice}, market' = market,
           PricesHeld' \subseteq PricesHeld, a \in PricesHeld \cup {HardFallbackPrice},
           PriceTold' = [PriceTold EXCEPT ![r] = a]
    PROVE  SolPrice!Next
<1>1. {market} \subseteq PricesHeld'
  BY DEF PricesHeld
<1>2. SolPrice!Tell(r, a)
  BY <1>1 DEF SolPrice!Tell, SolPrice!Forget
<1> QED
  BY <1>2 DEF SolPrice!Next

\* A request goes on to a call: who holds a price, and who is quoted one, follows.
LEMMA CallStep ==
    ASSUME Typed, NEW r \in Requests, NEW l, NEW k, NEW p, Call(r, l, k, p),
           k = "set" => p \in PricesHeld,
           k = "quoted" => p \in PricesHeld \cup {HardFallbackPrice}
                           /\ p \in Prices \cup {HardFallbackPrice},
           priceCache' \in PricesHeld \cup {None, priceCache}
    PROVE  SolPrice!Next
<1>t. step \in [Requests -> {"idle", "jupiter", "binance", "set", "redis", "quoted"}]
      /\ hand \in [Requests -> Prices \cup {None, HardFallbackPrice}]
  BY DEF Typed, TypeOK, OracleTypeOK
<1>1. market' = market /\ step'[r] = k /\ hand'[r] = p
  BY <1>t DEF Call
<1>2. \A q \in Requests \ {r} : step'[q] = step[q] /\ hand'[q] = hand[q]
  BY <1>t DEF Call
<1>3. PricesHeld' \subseteq PricesHeld
  BY <1>1, <1>2 DEF PricesHeld
<1>4. CASE k # "quoted"
  <2>1. \A q \in Requests : PriceTold'[q] \in {PriceTold[q], "unasked"}
    BY <1>1, <1>2, <1>4 DEF PriceTold
  <2> QED
    BY <1>1, <1>3, <2>1, PriceLeaves
<1>5. CASE k = "quoted"
  <2>1. PriceTold' = [PriceTold EXCEPT ![r] = p]
    BY <1>1, <1>2, <1>5 DEF PriceTold
  <2> QED
    BY <1>1, <1>3, <1>5, <2>1, PriceTells
<1> QED
  BY <1>4, <1>5

\* Every step of the gateway is one of LookAside for the price.
LEMMA PricesStep == Typed /\ [Next]_vars => [SolPrice!Next]_(SolPrice!vars)
<1> SUFFICES ASSUME Typed, Next, ~UNCHANGED oracleVars PROVE SolPrice!Next
  <2>1. CASE UNCHANGED oracleVars
    BY <2>1 DEF oracleVars, SolPrice!vars, PricesHeld, PriceTold
  <2>2. CASE UNCHANGED vars
    BY <2>1, <2>2 DEF vars
  <2> QED
    BY <2>1, <2>2
<1>t. /\ market \in Prices /\ priceCache \in Prices \cup {None}
      /\ \A r \in Requests : step[r] = "set" => hand[r] \in Prices
  BY DEF Typed, OracleTyped, OracleTypeOK
<1>h. market \in PricesHeld /\ (priceCache # None => priceCache \in PricesHeld)
      /\ \A r \in Requests : step[r] = "set" => hand[r] \in PricesHeld
  BY DEF PricesHeld
<1>1. ASSUME NEW r \in Requests, Subscribe(r) \/ Reply(r) PROVE SolPrice!Next
  <2>1. CASE Subscribe(r)
    BY <2>1, CallStep DEF Subscribe, Ask
  <2>2. CASE Reply(r)
    BY <2>2, CallStep DEF Reply, Quoted
  <2> QED
    BY <1>1, <2>1, <2>2
<1>2. ASSUME NEW r \in Requests,
             JupiterAnswers(r) \/ JupiterFails(r) \/ BinanceAnswers(r) \/ BinanceFails(r)
      PROVE  SolPrice!Next
  BY <1>h, <1>2, CallStep DEF JupiterAnswers, JupiterFails, BinanceAnswers, BinanceFails
<1>3. ASSUME NEW r \in Requests, SetPrice(r) PROVE SolPrice!Next
  <2>1. Call(r, "set", "quoted", hand[r]) /\ step[r] = "set"
    BY <1>3 DEF SetPrice, Call
  <2>2. priceCache' \in {hand[r], priceCache}
    BY <1>3 DEF SetPrice
  <2> QED
    BY <1>h, <1>t, <2>1, <2>2, CallStep
<1>4. ASSUME NEW r \in Requests, RedisPrice(r) PROVE SolPrice!Next
  BY <1>h, <1>t, <1>4, CallStep DEF RedisPrice
<1>5. ASSUME NEW r \in Requests, HardFallback(r) PROVE SolPrice!Next
  BY <1>5, CallStep DEF HardFallback
<1>6. CASE ExpirePrice
  BY <1>6, PriceLeaves DEF ExpirePrice, PricesHeld, PriceTold
<1>7. CASE Move
  <2>1. PriceTold' = PriceTold
    BY <1>7 DEF Move, PriceTold
  <2>2. {market'} \subseteq Prices /\ PricesHeld' \subseteq PricesHeld \cup {market'}
    BY <1>7 DEF Move, PricesHeld
  <2>3. {market'} \subseteq PricesHeld'
    BY DEF PricesHeld
  <2> QED
    BY <2>1, <2>2, <2>3 DEF SolPrice!Next, SolPrice!Change
<1>8. CASE Crash
  <2>1. market' = market /\ priceCache' = priceCache /\ \A r \in Requests : step'[r] = "idle"
    BY <1>8 DEF Crash, OracleCrash
  <2> QED
    BY <2>1, PriceLeaves DEF PricesHeld, PriceTold
<1> QED
  BY <1>1, <1>2, <1>3, <1>4, <1>5, <1>6, <1>7, <1>8 DEF Next, OracleStep, AskRedis

\* The oracle implements LookAside: a quote is the market's price, one that Redis or an
\* overlapping quote still held, or the constant.
THEOREM PricesRefined == Safety => ServesPrices
<1>1. Init => SolPrice!Init
  BY DEF Init, OracleInit, SolPrice!Init, PricesHeld, PriceTold
<1> QED
  BY <1>1, PricesStep, TypedHolds, PTL DEF Safety, ServesPrices, SolPrice!Spec
=============================================================================
