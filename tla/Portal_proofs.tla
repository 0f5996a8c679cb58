---------------------------- MODULE Portal_proofs ----------------------------
(* Theorems about Portal, for any number of trades and any window. *)
EXTENDS Portal, FiniteSetTheorems, TLAPS

USE DEF vars
-----------------------------------------------------------------------------
(***************************************************************************)
(* Type correctness.                                                       *)
(***************************************************************************)
Locs == {"wire", "lost", "idle", "store", "spawn", "call", "score", "verdict", "rpc",
         "report", "load", "dropped", "count", "momentum", "dev", "marshal", "set", "done",
         "gone"}

\* TypeOK without the size of cache, which is a set of at most one record.
Typed ==
    /\ tracked \in BOOLEAN /\ state \in States
    /\ pc \in [Procs -> Locs]
    /\ cnt \in [Trades -> Nat]
    /\ buf \in [Cachers -> States]
    /\ cache = {} \/ \E rec \in States : cache = {rec}
    /\ alpha \in BOOLEAN

\* A set of at most one record has at most that size.
LEMMA TypedIsTypeOK == Typed => TypeOK
<1> SUFFICES ASSUME Typed PROVE TypeOK
  OBVIOUS
<1>1. cache \subseteq States /\ Cardinality(cache) <= 1
  <2>1. CASE cache = {}
    BY <2>1, FS_EmptySet
  <2>2. ASSUME NEW rec \in States, cache = {rec} PROVE cache \subseteq States /\ Cardinality(cache) <= 1
    BY <2>2, FS_Singleton
  <2> QED
    BY <2>1, <2>2 DEF Typed
<1> QED
  BY <1>1 DEF Typed, TypeOK, Locs

\* Setting a flag leaves the count and the other flags.
LEMMA FlagSet ==
    ASSUME state \in States, NEW f \in Flags, SetFlag(f)
    PROVE  /\ state' \in States /\ state'.count = state.count
           /\ \A g \in Flags : state'[g] <=> (state[g] \/ g = f)
BY DEF SetFlag, States, Flags

\* A new entry is a TokenState without flags.
LEMMA FreshState == Fresh \in States /\ Fresh.count = 0 /\ \A f \in Flags : ~Fresh[f]
BY DEF Fresh, States, Flags

\* The types hold initially.
LEMMA InitTyped == Init => Typed
<1> SUFFICES ASSUME Init PROVE Typed
  OBVIOUS
<1>1. pc = [p \in Procs |-> IF p \in Messages THEN "wire" ELSE "idle"]
  BY DEF Init
<1>2. pc \in [Procs -> Locs]
  BY <1>1 DEF Locs
<1> QED
  BY <1>2, FreshState DEF Init, Typed

\* The stream preserves the types.
LEMMA MessageTyped ==
    ASSUME Typed, NEW m \in Messages, Receive(m) \/ Miss(m)
    PROVE  Typed'
<1>1. pc' \in [Procs -> Locs]
  BY DEF Typed, Receive, Miss, GoTo, Locs
<1>2. UNCHANGED <<tracked, state, cnt, buf, cache, alpha>>
  BY DEF Receive, Miss
<1> QED
  BY <1>1, <1>2 DEF Typed

\* handleNewToken and its goroutines preserve them.
LEMMA TokenTyped == Typed /\ handleNewToken => Typed'
<1> SUFFICES ASSUME Typed, handleNewToken PROVE Typed'
  OBVIOUS
<1> USE DEF GoTo
<1>1. pc' \in [Procs -> Locs]
  <2>1. CASE StoreToken \/ SpawnScout
    BY <2>1 DEF StoreToken, SpawnScout, Typed, Locs
  <2>2. CASE BrainAnswers \/ BrainFails \/ WriteScore \/ WriteVerdict \/ Scout \/ Report
    BY <2>2 DEF BrainAnswers, BrainFails, WriteScore, WriteVerdict, Scout, Report, Typed, Locs
  <2> QED
    BY <2>1, <2>2 DEF handleNewToken
<1>2. state' \in States /\ tracked' \in BOOLEAN
  <2>1. CASE WriteScore \/ WriteVerdict \/ Report
    BY <2>1, FlagSet DEF WriteScore, WriteVerdict, Report, Typed, Flags
  <2>2. CASE StoreToken
    BY <2>2, FreshState DEF StoreToken
  <2>3. CASE SpawnScout \/ BrainAnswers \/ BrainFails \/ Scout
    BY <2>3 DEF SpawnScout, BrainAnswers, BrainFails, Scout, Typed
  <2> QED
    BY <2>1, <2>2, <2>3 DEF handleNewToken
<1>3. UNCHANGED <<cnt, buf, cache>> /\ alpha' \in BOOLEAN
  BY DEF handleNewToken, StoreToken, SpawnScout, BrainAnswers, BrainFails, WriteScore,
         WriteVerdict, Scout, Report, Typed
<1> QED
  BY <1>1, <1>2, <1>3 DEF Typed

\* So does handleTrade, whose counts are naturals.
LEMMA TradeTyped ==
    ASSUME Typed, NEW t \in Trades, handleTrade(t)
    PROVE  Typed'
<1> USE DEF GoTo
<1>0. cnt[t] \in Nat /\ state.count \in Nat /\ "sniped" \in Flags /\ "momentum" \in Flags
  BY DEF Typed, States, Flags
<1>1. pc' \in [Procs -> Locs]
  <2>1. \E l \in Locs : pc' = [pc EXCEPT ![t] = l]
    BY DEF handleTrade, LoadNothing, ReadCount, WriteCount, CheckMomentum, CheckDev, Locs
  <2> QED
    BY <2>1 DEF Typed
<1>2. state' \in States
  <2>1. CASE WriteCount(t)
    <3>1. state' = [state EXCEPT !.count = cnt[t] + 1] /\ cnt[t] + 1 \in Nat
      BY <1>0, <2>1 DEF WriteCount
    <3> QED
      BY <3>1 DEF Typed, States
  <2>2. CASE CheckMomentum(t) \/ CheckDev(t)
    <3>1. state' = state \/ SetFlag("momentum") \/ SetFlag("sniped")
      BY <2>2 DEF CheckMomentum, CheckDev
    <3> QED
      BY <1>0, <3>1, FlagSet DEF Typed
  <2> QED
    BY <2>1, <2>2 DEF handleTrade, LoadNothing, ReadCount, Typed
<1>3. cnt' \in [Trades -> Nat]
  BY <1>0 DEF handleTrade, LoadNothing, ReadCount, WriteCount, CheckMomentum, CheckDev, Typed
<1>4. UNCHANGED <<tracked, buf, cache, alpha>>
  BY DEF handleTrade, LoadNothing, ReadCount, WriteCount, CheckMomentum, CheckDev
<1> QED
  BY <1>1, <1>2, <1>3, <1>4 DEF Typed

\* So does cacheState, which writes one record.
LEMMA CacheTyped ==
    ASSUME Typed, NEW p \in Cachers, cacheState(p)
    PROVE  Typed'
<1> USE DEF GoTo
<1>1. CASE Marshal(p)
  BY <1>1 DEF Marshal, Typed, Locs
<1>2. CASE SetCache(p)
  <2>1. buf[p] \in States /\ buf' \in [Cachers -> States]
    BY <1>2, FreshState DEF SetCache, Typed
  <2>2. pc' \in [Procs -> Locs]
    BY <1>2 DEF SetCache, Typed, Locs
  <2>3. cache' = {} \/ \E rec \in States : cache' = {rec}
    BY <1>2, <2>1 DEF SetCache, Typed
  <2>4. UNCHANGED <<tracked, state, cnt, alpha>>
    BY <1>2 DEF SetCache
  <2> QED
    BY <2>1, <2>2, <2>3, <2>4 DEF Typed
<1> QED
  BY <1>1, <1>2 DEF cacheState

\* Every step preserves the types.
LEMMA StepTyped == Typed /\ [Next]_vars => Typed'
<1> SUFFICES ASSUME Typed, [Next]_vars PROVE Typed'
  OBVIOUS
<1>1. CASE UNCHANGED vars
  BY <1>1 DEF Typed
<1>2. CASE ExpireCache \/ ExpireAlpha
  BY <1>2 DEF ExpireCache, ExpireAlpha, Typed
<1>3. CASE Crash
  <2>1. pc' \in [Procs -> Locs]
    BY <1>3 DEF Crash, Locs
  <2>2. state' \in States /\ buf' \in [Cachers -> States] /\ cnt' \in [Trades -> Nat]
    BY <1>3, FreshState DEF Crash
  <2> QED
    BY <1>3, <2>1, <2>2 DEF Crash, Typed
<1> QED
  BY <1>1, <1>2, <1>3, MessageTyped, TokenTyped, TradeTyped, CacheTyped DEF Next

\* The types hold of every behaviour.
LEMMA TypedHolds == Spec => []Typed
<1> QED
  BY InitTyped, StepTyped, PTL DEF Spec

\* Whatever is stored, marshalled and cached is a TokenState, and the key holds at most one.
THEOREM TypeCorrect == Spec => []TypeOK
  BY TypedHolds, TypedIsTypeOK, PTL
-----------------------------------------------------------------------------
(***************************************************************************)
(* The life of the entry: everything that touches it happens between its   *)
(* creation and a crash, and the key is empty before.                      *)
(***************************************************************************)
BirthInv ==
    /\ tracked => pc["create"] \notin {"wire", "store", "lost"}
    /\ ~tracked => /\ Handled = {}
                   /\ \A p \in Cachers : pc[p] \notin {"marshal", "set"}
                   /\ pc["brain"] \notin {"spawn", "call", "score", "verdict"}
    /\ pc["create"] \in {"wire", "store", "lost"} => cache = {}

(***************************************************************************)
(* The counter: every value in it, read for it or copied from it is at     *)
(* most the number of trades counted, which only grows.                    *)
(***************************************************************************)
CountInv ==
    tracked =>
        /\ state.count <= Cardinality(Counted)
        /\ Counted # {} => state.count >= 1
        /\ \A t \in Trades :
              /\ pc[t] = "count" => cnt[t] <= Cardinality(Counted)
              /\ pc[t] \in {"momentum", "dev"} => cnt[t] + 1 <= Cardinality(Counted)
        /\ \A p \in Cachers : pc[p] = "set" => buf[p].count <= Cardinality(Counted)
        /\ \A rec \in cache : rec.count <= Cardinality(Counted)

(***************************************************************************)
(* The flags: set for a reason, copied only after they are set.            *)
(***************************************************************************)
FlagInv ==
    tracked =>
        /\ (Checked \cap DevTrades # {} /\ Cardinality(Handled) <= Window) => state.sniped
        /\ state.sniped => Checked \cap DevTrades # {}
        /\ \A p \in Cachers, f \in Flags : pc[p] = "set" /\ buf[p][f] => state[f]
        /\ \A rec \in cache, f \in Flags : rec[f] => state[f]

IInv == Typed /\ BirthInv /\ CountInv /\ FlagInv
-----------------------------------------------------------------------------
(***************************************************************************)
(* How the sets of trades move.  All but three actions leave them alone.   *)
(***************************************************************************)
Same == Handled' = Handled /\ Counted' = Counted /\ Checked' = Checked

\* The sets of trades by the handlers' positions.
LEMMA Locations ==
    /\ Handled = {t \in Trades : pc[t] \in {"count", "momentum", "dev", "marshal", "set", "done"}}
    /\ Counted = {t \in Trades : pc[t] \in {"momentum", "dev", "marshal", "set", "done"}}
    /\ Checked = {t \in Trades : pc[t] \in {"marshal", "set", "done"}}
BY DEF Handled, Counted, Checked

\* The same after a step.
LEMMA NextLocations ==
    /\ Handled' = {t \in Trades : pc'[t] \in {"count", "momentum", "dev", "marshal", "set", "done"}}
    /\ Counted' = {t \in Trades : pc'[t] \in {"momentum", "dev", "marshal", "set", "done"}}
    /\ Checked' = {t \in Trades : pc'[t] \in {"marshal", "set", "done"}}
BY DEF Handled, Counted, Checked

\* A goroutine that stays within its stage changes none of the sets.
LEMMA SameMove ==
    ASSUME Typed, NEW p \in Procs, NEW l, pc' = [pc EXCEPT ![p] = l],
           p \in Trades =>
             \/ {pc[p], l} \subseteq {"wire", "lost", "load", "dropped"}
             \/ {pc[p], l} \subseteq {"momentum", "dev"}
             \/ {pc[p], l} \subseteq {"marshal", "set", "done"}
    PROVE  Same
<1>1. \A t \in Trades : t # p => pc'[t] = pc[t]
  BY DEF Typed, Procs, Messages
<1>2. p \in Trades => pc'[p] = l
  BY DEF Typed
<1> QED
  BY <1>1, <1>2, Locations, NextLocations DEF Same

\* The trades, and the sizes of the sets.
LEMMA Sizes ==
    /\ Cardinality(Handled) \in Nat /\ Cardinality(Handled') \in Nat
    /\ Cardinality(Counted) \in Nat /\ Cardinality(Counted') \in Nat
    /\ IsFiniteSet(Counted) /\ IsFiniteSet(Handled)
    /\ Cardinality(Counted) <= Cardinality(Handled)
    /\ Counted \subseteq Counted' => Cardinality(Counted) <= Cardinality(Counted')
    /\ Handled \subseteq Handled' => Cardinality(Handled) <= Cardinality(Handled')
<1>1. /\ Handled \subseteq Trades /\ Handled' \subseteq Trades
      /\ Counted \subseteq Handled /\ Counted' \subseteq Trades
  BY Locations, NextLocations
<1>2. /\ IsFiniteSet(Handled) /\ IsFiniteSet(Handled') /\ IsFiniteSet(Counted)
      /\ IsFiniteSet(Counted')
  BY <1>1, TradeAssumption, FS_Subset
<1> QED
  BY <1>1, <1>2, FS_Subset, FS_CardinalityType

\* Reading the count takes a trade in hand.
LEMMA ReadMoves ==
    ASSUME Typed, NEW t \in Trades, ReadCount(t)
    PROVE  Handled \subseteq Handled' /\ Counted' = Counted /\ Checked' = Checked
<1>1. /\ pc[t] = "load" /\ pc'[t] = "count"
      /\ \A q \in Trades : q # t => pc'[q] = pc[q]
  BY DEF ReadCount, GoTo, Typed, Procs, Messages
<1> QED
  BY <1>1, Locations, NextLocations

\* Writing the count counts one more trade.
LEMMA WriteMoves ==
    ASSUME Typed, NEW t \in Trades, WriteCount(t)
    PROVE  /\ Handled' = Handled /\ Checked' = Checked
           /\ Counted' = Counted \cup {t}
           /\ Cardinality(Counted') = Cardinality(Counted) + 1
<1>1. /\ pc[t] = "count" /\ pc'[t] = "momentum"
      /\ \A q \in Trades : q # t => pc'[q] = pc[q]
  BY DEF WriteCount, GoTo, Typed, Procs, Messages
<1>2. Handled' = Handled /\ Checked' = Checked
  BY <1>1, Locations, NextLocations
<1>3. Counted' = Counted \cup {t} /\ t \notin Counted
  BY <1>1, Locations, NextLocations
<1> QED
  BY <1>2, <1>3, Sizes, FS_AddElement

\* The sniping check makes a trade a checked one.
LEMMA CheckMoves ==
    ASSUME Typed, NEW t \in Trades, CheckDev(t)
    PROVE  Handled' = Handled /\ Counted' = Counted /\ Checked' = Checked \cup {t}
<1>1. /\ pc[t] = "dev" /\ pc'[t] = "marshal"
      /\ \A q \in Trades : q # t => pc'[q] = pc[q]
  BY DEF CheckDev, GoTo, Typed, Procs, Messages
<1> QED
  BY <1>1, Locations, NextLocations

\* The stream changes none of the sets.
LEMMA MessageMoves ==
    ASSUME Typed, NEW m \in Messages, Receive(m) \/ Miss(m)
    PROVE  Same
<1>1. m \in Procs /\ (m \in Trades => m # "create") /\ pc[m] = "wire"
  BY NameAssumption DEF Procs, Receive, Miss, AtHead
<1>2. CASE Receive(m)
  <2>1. pc' = [pc EXCEPT ![m] = IF m = "create" THEN "store" ELSE "load"]
    BY <1>2 DEF Receive, GoTo
  <2> QED
    BY <1>1, <2>1, SameMove
<1>3. CASE Miss(m)
  <2>1. pc' = [pc EXCEPT ![m] = "lost"]
    BY <1>3 DEF Miss, GoTo
  <2> QED
    BY <1>1, <2>1, SameMove
<1> QED
  BY <1>2, <1>3

\* Nor does handleNewToken.
LEMMA TokenMoves == Typed /\ handleNewToken => Same
<1> SUFFICES ASSUME Typed, handleNewToken PROVE Same
  OBVIOUS
<1>1. \A t \in Trades : t \notin {"create", "brain", "scout"} /\ t \in Procs
  BY NameAssumption DEF Procs, Messages
<1>2. \A t \in Trades : pc'[t] = pc[t]
  <2>1. CASE StoreToken \/ SpawnScout
    BY <1>1, <2>1 DEF StoreToken, SpawnScout, GoTo, Typed
  <2>2. CASE BrainAnswers \/ BrainFails \/ WriteScore \/ WriteVerdict \/ Scout \/ Report
    BY <1>1, <2>2 DEF BrainAnswers, BrainFails, WriteScore, WriteVerdict, Scout, Report,
                      GoTo, Typed
  <2> QED
    BY <2>1, <2>2 DEF handleNewToken
<1> QED
  BY <1>2, Locations, NextLocations DEF Same

\* Nor does cacheState.
LEMMA CacheMoves ==
    ASSUME Typed, NEW p \in Cachers, cacheState(p)
    PROVE  Same
<1>1. p \in Procs
  BY DEF Cachers, Procs
<1>2. CASE Marshal(p)
  <2>1. pc[p] = "marshal" /\ pc' = [pc EXCEPT ![p] = "set"]
    BY <1>2 DEF Marshal, GoTo
  <2> QED
    BY <1>1, <2>1, SameMove
<1>3. CASE SetCache(p)
  <2>1. pc[p] = "set" /\ pc' = [pc EXCEPT ![p] = "done"]
    BY <1>3 DEF SetCache, GoTo
  <2> QED
    BY <1>1, <2>1, SameMove
<1> QED
  BY <1>2, <1>3 DEF cacheState

\* Nor do the rest of handleTrade's steps.
LEMMA OtherTradeMoves ==
    ASSUME Typed, NEW t \in Trades, LoadNothing(t) \/ CheckMomentum(t)
    PROVE  Same
<1>1. t \in Procs
  BY DEF Procs, Messages
<1>2. \/ pc[t] = "load" /\ pc' = [pc EXCEPT ![t] = "dropped"]
      \/ pc[t] = "momentum" /\ pc' = [pc EXCEPT ![t] = "dev"]
  BY DEF LoadNothing, CheckMomentum, GoTo
<1> QED
  BY <1>1, <1>2, SameMove
-----------------------------------------------------------------------------
\* BirthInv is inductive.
LEMMA BirthStep == Typed /\ BirthInv /\ [Next]_vars => BirthInv'
<1> SUFFICES ASSUME Typed, BirthInv, [Next]_vars PROVE BirthInv'
  OBVIOUS
<1>p. /\ pc \in [Procs -> Locs]
      /\ Procs = Trades \cup {"create", "brain", "scout"}
      /\ Cachers = Trades \cup {"create", "brain"}
      /\ \A t \in Trades : t \notin {"create", "brain", "scout"}
  BY NameAssumption DEF Typed, Procs, Cachers, Messages
<1> USE DEF GoTo
<1>1. CASE UNCHANGED vars
  BY <1>1, Locations, NextLocations DEF BirthInv
<1>2. ASSUME NEW m \in Messages, Receive(m) \/ Miss(m) PROVE BirthInv'
  <2>1. Same
    BY <1>2, MessageMoves
  <2>2. /\ pc[m] = "wire" /\ UNCHANGED <<tracked, cache>>
        /\ \E l \in {"store", "load", "lost"} :
              pc' = [pc EXCEPT ![m] = l] /\ (m = "create" => l # "load")
    BY <1>2 DEF Receive, Miss, AtHead
  <2>3. m \in Trades \/ m = "create"
    BY DEF Messages
  <2> QED
    BY <1>p, <2>1, <2>2, <2>3 DEF BirthInv, Same
<1>3. CASE StoreToken
  BY <1>3, <1>p DEF StoreToken, BirthInv
<1>4. CASE SpawnScout \/ BrainAnswers \/ BrainFails \/ WriteScore \/ WriteVerdict
  <2>1. tracked
    BY <1>4 DEF SpawnScout, BrainAnswers, BrainFails, WriteScore, WriteVerdict, BirthInv
  <2>2. tracked' = tracked /\ cache' = cache /\ pc'["create"] = pc["create"]
    BY <1>4, <1>p DEF SpawnScout, BrainAnswers, BrainFails, WriteScore, WriteVerdict
  <2> QED
    BY <2>1, <2>2 DEF BirthInv
<1>5. CASE Scout \/ Report
  <2>1. Same
    BY <1>5, TokenMoves DEF handleNewToken
  <2>2. /\ tracked' = tracked /\ cache' = cache
        /\ \A p \in Cachers : pc'[p] = pc[p]
    BY <1>5, <1>p DEF Scout, Report
  <2> QED
    BY <1>p, <2>1, <2>2 DEF BirthInv, Same
<1>6. ASSUME NEW t \in Trades, handleTrade(t) PROVE BirthInv'
  <2>1. UNCHANGED <<tracked, cache>> /\ pc'["create"] = pc["create"]
    BY <1>6, <1>p DEF handleTrade, LoadNothing, ReadCount, WriteCount, CheckMomentum, CheckDev
  <2>2. CASE tracked
    BY <2>1, <2>2 DEF BirthInv
  <2>3. CASE ~tracked
    <3>1. LoadNothing(t)
      BY <1>6, <2>3, Locations DEF BirthInv, handleTrade, ReadCount, WriteCount,
                                   CheckMomentum, CheckDev
    <3>2. Same
      BY <3>1, OtherTradeMoves
    <3>3. pc' = [pc EXCEPT ![t] = "dropped"]
      BY <3>1 DEF LoadNothing
    <3> QED
      BY <1>p, <2>1, <2>3, <3>2, <3>3 DEF BirthInv, Same
  <2> QED
    BY <2>2, <2>3
<1>7. ASSUME NEW p \in Cachers, cacheState(p) PROVE BirthInv'
  <2>1. tracked /\ tracked' = tracked
    BY <1>7 DEF cacheState, Marshal, SetCache, BirthInv
  <2>2. \E l \in {"set", "done"} : pc' = [pc EXCEPT ![p] = l]
    BY <1>7 DEF cacheState, Marshal, SetCache
  <2>3. pc'["create"] \notin {"wire", "store", "lost"}
    BY <1>p, <2>1, <2>2 DEF BirthInv
  <2> QED
    BY <2>1, <2>3 DEF BirthInv
<1>8. CASE ExpireCache \/ ExpireAlpha
  <2>1. UNCHANGED <<tracked, pc>> /\ (cache' = cache \/ cache' = {})
    BY <1>8 DEF ExpireCache, ExpireAlpha
  <2> QED
    BY <2>1, Locations, NextLocations DEF BirthInv
<1>9. CASE Crash
  <2>1. /\ tracked' = FALSE /\ cache' = cache
        /\ \A p \in Procs : pc'[p] = IF pc[p] = "wire" THEN "wire" ELSE "gone"
    BY <1>9 DEF Crash
  <2>2. Handled' = {}
    BY <1>p, <2>1, NextLocations
  <2>3. pc'["brain"] \notin {"spawn", "call", "score", "verdict"}
    BY <1>p, <2>1
  <2> QED
    BY <1>p, <2>1, <2>2, <2>3 DEF BirthInv
<1> QED
  BY <1>1, <1>2, <1>3, <1>4, <1>5, <1>6, <1>7, <1>8, <1>9 DEF Next, handleNewToken
-----------------------------------------------------------------------------
\* The counter.  A step that counts no trade and changes no number keeps every bound.
LEMMA CountKept ==
    ASSUME Typed, CountInv, tracked, Counted' = Counted, state'.count = state.count,
           \A t \in Trades : pc'[t] \in {"count", "momentum", "dev"} =>
                              /\ cnt'[t] = cnt[t]
                              /\ \/ pc'[t] = pc[t]
                                 \/ {pc[t], pc'[t]} \subseteq {"momentum", "dev"},
           \A p \in Cachers : pc'[p] = "set" => pc[p] = "set" /\ buf'[p] = buf[p],
           cache' \subseteq cache
    PROVE  CountInv'
BY DEF CountInv

\* CountInv is inductive: only ReadCount, WriteCount, Marshal and SetCache move counts.
LEMMA CountStep == Typed /\ Typed' /\ BirthInv /\ CountInv /\ [Next]_vars => CountInv'
<1> SUFFICES ASSUME Typed, Typed', BirthInv, CountInv, [Next]_vars, tracked' PROVE CountInv'
  BY DEF CountInv
<1>p. /\ pc \in [Procs -> Locs]
      /\ Procs = Trades \cup {"create", "brain", "scout"}
      /\ Cachers = Trades \cup {"create", "brain"}
      /\ \A t \in Trades : t \notin {"create", "brain", "scout"}
  BY NameAssumption DEF Typed, Procs, Cachers, Messages
<1>n. /\ cnt \in [Trades -> Nat] /\ state.count \in Nat
      /\ \A p \in Cachers : buf[p] \in States /\ buf[p].count \in Nat
      /\ Cardinality(Counted) \in Nat
  BY Sizes DEF Typed, States
<1> USE DEF GoTo
<1>1. CASE UNCHANGED vars
  <2>1. Counted' = Counted
    BY <1>1, Locations, NextLocations
  <2> QED
    BY <1>1, <2>1, CountKept
<1>2. ASSUME NEW m \in Messages, Receive(m) \/ Miss(m) PROVE CountInv'
  <2>1. Same
    BY <1>2, MessageMoves
  <2>2. /\ UNCHANGED <<tracked, state, cnt, buf, cache>>
        /\ \E l \in {"store", "load", "lost"} : pc' = [pc EXCEPT ![m] = l]
    BY <1>2 DEF Receive, Miss, AtHead
  <2> QED
    BY <1>p, <2>1, <2>2, CountKept DEF Same
<1>3. CASE StoreToken
  <2>1. /\ ~tracked /\ cache' = {} /\ state'.count = 0
        /\ \A t \in Trades : pc'[t] = pc[t]
        /\ \A p \in Cachers : pc'[p] # "set"
    BY <1>3, <1>p, FreshState DEF StoreToken, BirthInv
  <2>2. Counted' = {} /\ \A t \in Trades : pc'[t] \notin {"count", "momentum", "dev"}
    BY <2>1, Locations, NextLocations DEF BirthInv
  <2> QED
    BY <2>1, <2>2, FS_EmptySet DEF CountInv
<1>4. CASE handleNewToken /\ ~StoreToken
  <2>1. Same
    BY <1>4, TokenMoves
  <2>2. /\ UNCHANGED <<tracked, cnt, buf, cache>>
        /\ \A t \in Trades : pc'[t] = pc[t]
        /\ \A p \in Cachers : pc'[p] = "set" => pc[p] = "set"
    BY <1>4, <1>p DEF handleNewToken, SpawnScout, BrainAnswers, BrainFails, WriteScore,
                      WriteVerdict, Scout, Report
  <2>3. state'.count = state.count
    <3>1. \/ state' = state
          \/ \E f \in Flags : SetFlag(f)
      BY <1>4 DEF handleNewToken, SpawnScout, BrainAnswers, BrainFails, WriteScore,
                  WriteVerdict, Scout, Report, Flags
    <3> QED
      BY <3>1, FlagSet DEF Typed
  <2> QED
    BY <2>1, <2>2, <2>3, CountKept DEF Same
<1>5. ASSUME NEW t \in Trades, ReadCount(t) PROVE CountInv'
  <2>1. /\ UNCHANGED <<tracked, state, buf, cache>>
        /\ cnt' = [cnt EXCEPT ![t] = state.count]
        /\ pc' = [pc EXCEPT ![t] = "count"]
    BY <1>5 DEF ReadCount
  <2>2. Counted' = Counted
    BY <1>5, ReadMoves
  <2> QED
    BY <1>p, <1>n, <2>1, <2>2 DEF CountInv
<1>6. ASSUME NEW t \in Trades, WriteCount(t) PROVE CountInv'
  <2>1. /\ UNCHANGED <<tracked, cnt, buf, cache>> /\ pc[t] = "count"
        /\ state'.count = cnt[t] + 1
        /\ pc' = [pc EXCEPT ![t] = "momentum"]
    BY <1>6 DEF WriteCount, Typed, States
  <2>2. Cardinality(Counted') = Cardinality(Counted) + 1
    BY <1>6, WriteMoves
  <2>3. cnt[t] <= Cardinality(Counted)
    BY <2>1 DEF CountInv
  <2>4. \A rec \in cache : rec.count \in Nat
    BY DEF Typed, States
  <2>5. \A q \in Trades :
          /\ pc'[q] = "count" => cnt'[q] <= Cardinality(Counted')
          /\ pc'[q] \in {"momentum", "dev"} => cnt'[q] + 1 <= Cardinality(Counted')
    BY <1>p, <1>n, <2>1, <2>2, <2>3 DEF CountInv
  <2>6. \A p \in Cachers : pc'[p] = "set" => buf'[p].count <= Cardinality(Counted')
    BY <1>p, <1>n, <2>1, <2>2 DEF CountInv
  <2>7. \A rec \in cache' : rec.count <= Cardinality(Counted')
    BY <1>n, <2>1, <2>2, <2>4 DEF CountInv
  <2> QED
    BY <1>n, <2>1, <2>2, <2>3, <2>5, <2>6, <2>7 DEF CountInv
<1>7. ASSUME NEW t \in Trades, LoadNothing(t) \/ CheckMomentum(t) \/ CheckDev(t)
      PROVE  CountInv'
  <2>1. Counted' = Counted
    BY <1>7, OtherTradeMoves, CheckMoves DEF Same
  <2>2. /\ UNCHANGED <<tracked, cnt, buf, cache>>
        /\ \/ pc' = [pc EXCEPT ![t] = "dropped"]
           \/ pc[t] = "momentum" /\ pc' = [pc EXCEPT ![t] = "dev"]
           \/ pc' = [pc EXCEPT ![t] = "marshal"]
    BY <1>7 DEF LoadNothing, CheckMomentum, CheckDev
  <2>3. state'.count = state.count
    <3>1. state' = state \/ SetFlag("momentum") \/ SetFlag("sniped")
      BY <1>7 DEF LoadNothing, CheckMomentum, CheckDev
    <3>2. "momentum" \in Flags /\ "sniped" \in Flags
      BY DEF Flags
    <3> QED
      BY <3>1, <3>2, FlagSet DEF Typed
  <2> QED
    BY <1>p, <2>1, <2>2, <2>3, CountKept
<1>8. ASSUME NEW p \in Cachers, Marshal(p) PROVE CountInv'
  <2>1. Counted' = Counted
    BY <1>8, CacheMoves DEF cacheState, Same
  <2>2. /\ UNCHANGED <<tracked, state, cnt, cache>>
        /\ pc' = [pc EXCEPT ![p] = "set"] /\ buf' = [buf EXCEPT ![p] = state]
    BY <1>8 DEF Marshal
  <2>3. \A q \in Cachers : pc'[q] = "set" => buf'[q] = state \/ (pc[q] = "set" /\ buf'[q] = buf[q])
    BY <1>p, <2>2 DEF Typed
  <2> QED
    BY <1>p, <2>1, <2>2, <2>3 DEF CountInv
<1>9. ASSUME NEW p \in Cachers, SetCache(p) PROVE CountInv'
  <2>1. Counted' = Counted
    BY <1>9, CacheMoves DEF cacheState, Same
  <2>2. /\ UNCHANGED <<tracked, state, cnt>> /\ pc[p] = "set"
        /\ pc' = [pc EXCEPT ![p] = "done"] /\ buf' = [buf EXCEPT ![p] = Fresh]
        /\ cache' = {buf[p]} \/ cache' = cache
    BY <1>9 DEF SetCache
  <2>3. \A q \in Cachers : pc'[q] = "set" => pc[q] = "set" /\ buf'[q] = buf[q]
    BY <1>p, <2>2 DEF Typed
  <2> QED
    BY <1>p, <2>1, <2>2, <2>3 DEF CountInv
<1>10. CASE ExpireCache \/ ExpireAlpha
  <2>1. UNCHANGED <<tracked, state, pc, cnt, buf>> /\ cache' \subseteq cache
    BY <1>10 DEF ExpireCache, ExpireAlpha
  <2>2. Counted' = Counted
    BY <2>1, Locations, NextLocations
  <2> QED
    BY <2>1, <2>2, CountKept
<1>11. ~Crash
  BY DEF Crash
<1> QED
  BY <1>1, <1>2, <1>3, <1>4, <1>5, <1>6, <1>7, <1>8, <1>9, <1>10, <1>11
  DEF Next, handleTrade, cacheState
-----------------------------------------------------------------------------
\* The flags.  A step that checks no trade, sets no record and takes no flag back keeps
\* what is said of them.
LEMMA FlagKept ==
    ASSUME Typed, FlagInv, tracked, Checked' = Checked, Handled \subseteq Handled',
           state'.sniped = state.sniped, \A f \in Flags : state[f] => state'[f],
           \A p \in Cachers : pc'[p] = "set" => pc[p] = "set" /\ buf'[p] = buf[p],
           cache' \subseteq cache
    PROVE  FlagInv'
<1>1. Cardinality(Handled) <= Cardinality(Handled')
  BY Sizes
<1>2. Cardinality(Handled) \in Nat /\ Cardinality(Handled') \in Nat /\ Window \in Nat
  BY Sizes, WindowAssumption
<1>3. Cardinality(Handled') <= Window => Cardinality(Handled) <= Window
  BY <1>1, <1>2
<1> QED
  BY <1>3 DEF FlagInv

\* FlagInv is inductive: only CheckDev, Marshal and SetCache need an argument.
LEMMA FlagStep ==
    Typed /\ Typed' /\ BirthInv /\ CountInv /\ FlagInv /\ [Next]_vars => FlagInv'
<1> SUFFICES ASSUME Typed, Typed', BirthInv, CountInv, FlagInv, [Next]_vars, tracked'
             PROVE  FlagInv'
  BY DEF FlagInv
<1>p. /\ pc \in [Procs -> Locs]
      /\ Procs = Trades \cup {"create", "brain", "scout"}
      /\ Cachers = Trades \cup {"create", "brain"}
      /\ \A t \in Trades : t \notin {"create", "brain", "scout"}
  BY NameAssumption DEF Typed, Procs, Cachers, Messages
<1> USE DEF GoTo
<1>1. CASE UNCHANGED vars
  <2>1. Same
    BY <1>1, Locations, NextLocations DEF Same
  <2> QED
    BY <1>1, <2>1, FlagKept DEF Same
<1>2. ASSUME NEW m \in Messages, Receive(m) \/ Miss(m) PROVE FlagInv'
  <2>1. Same
    BY <1>2, MessageMoves
  <2>2. /\ UNCHANGED <<tracked, state, cnt, buf, cache>>
        /\ \E l \in {"store", "load", "lost"} : pc' = [pc EXCEPT ![m] = l]
    BY <1>2 DEF Receive, Miss, AtHead
  <2> QED
    BY <1>p, <2>1, <2>2, FlagKept DEF Same
<1>3. CASE StoreToken
  <2>1. /\ ~tracked /\ cache' = {} /\ ~state'.sniped
        /\ \A p \in Cachers : pc'[p] # "set"
    BY <1>3, <1>p, FreshState DEF StoreToken, BirthInv, Flags
  <2>2. Checked' = {}
    BY <1>3, <2>1, TokenMoves, Locations DEF BirthInv, Same, handleNewToken
  <2> QED
    BY <2>1, <2>2 DEF FlagInv
<1>4. CASE handleNewToken /\ ~StoreToken
  <2>1. Same
    BY <1>4, TokenMoves
  <2>2. /\ UNCHANGED <<tracked, cnt, buf, cache>>
        /\ \A p \in Cachers : pc'[p] = "set" => pc[p] = "set"
    BY <1>4, <1>p DEF handleNewToken, SpawnScout, BrainAnswers, BrainFails, WriteScore,
                      WriteVerdict, Scout, Report
  <2>3. state'.sniped = state.sniped /\ \A f \in Flags : state[f] => state'[f]
    <3>1. \/ state' = state
          \/ \E f \in Flags \ {"sniped"} : SetFlag(f)
      BY <1>4 DEF handleNewToken, SpawnScout, BrainAnswers, BrainFails, WriteScore,
                  WriteVerdict, Scout, Report, Flags
    <3>2. ASSUME NEW f \in Flags \ {"sniped"}, SetFlag(f)
          PROVE  state'.sniped = state.sniped
      BY <3>2 DEF SetFlag, Flags, Typed, States
    <3> QED
      BY <3>1, <3>2, FlagSet DEF Typed
  <2> QED
    BY <2>1, <2>2, <2>3, FlagKept DEF Same
<1>5. ASSUME NEW t \in Trades, ReadCount(t) \/ WriteCount(t) PROVE FlagInv'
  <2>1. /\ UNCHANGED <<tracked, buf, cache>>
        /\ \E l \in {"count", "momentum"} : pc' = [pc EXCEPT ![t] = l]
    BY <1>5 DEF ReadCount, WriteCount
  <2>2. Handled \subseteq Handled' /\ Checked' = Checked
    BY <1>5, ReadMoves, WriteMoves
  <2>3. state'.sniped = state.sniped /\ \A f \in Flags : state'[f] = state[f]
    BY <1>5 DEF ReadCount, WriteCount, Typed, States, Flags
  <2> QED
    BY <1>p, <2>1, <2>2, <2>3, FlagKept
<1>6. ASSUME NEW t \in Trades, LoadNothing(t) \/ CheckMomentum(t) PROVE FlagInv'
  <2>1. Same
    BY <1>6, OtherTradeMoves
  <2>2. /\ UNCHANGED <<tracked, buf, cache>>
        /\ \E l \in {"dropped", "dev"} : pc' = [pc EXCEPT ![t] = l]
    BY <1>6 DEF LoadNothing, CheckMomentum
  <2>3. state'.sniped = state.sniped /\ \A f \in Flags : state[f] => state'[f]
    <3>1. state' = state \/ SetFlag("momentum")
      BY <1>6 DEF LoadNothing, CheckMomentum
    <3>2. SetFlag("momentum") => state'.sniped = state.sniped
      BY DEF SetFlag, Typed, States
    <3>3. "momentum" \in Flags
      BY DEF Flags
    <3> QED
      BY <3>1, <3>2, <3>3, FlagSet DEF Typed
  <2> QED
    BY <1>p, <2>1, <2>2, <2>3, FlagKept DEF Same
<1>7. ASSUME NEW t \in Trades, CheckDev(t) PROVE FlagInv'
  <2>1. /\ UNCHANGED <<tracked, cnt, buf, cache>> /\ pc[t] = "dev"
        /\ pc' = [pc EXCEPT ![t] = "marshal"]
        /\ \E c \in {cnt[t] + 1, state.count} :
              IF c <= Window /\ t \in DevTrades THEN SetFlag("sniped") ELSE state' = state
    BY <1>7 DEF CheckDev
  <2>2. Handled' = Handled /\ Counted' = Counted /\ Checked' = Checked \cup {t}
    BY <1>7, CheckMoves
  <2>3. tracked /\ "sniped" \in Flags
    BY <2>1 DEF Flags
  <2>4. \A f \in Flags : state[f] => state'[f]
    BY <2>1, <2>3, FlagSet DEF Typed
  <2>5. \A p \in Cachers : pc'[p] = "set" => pc[p] = "set" /\ buf'[p] = buf[p]
    BY <1>p, <2>1
  <2>6. (t \in DevTrades /\ Cardinality(Handled') <= Window) => state'.sniped
    <3>1. /\ cnt[t] + 1 <= Cardinality(Counted) /\ state.count <= Cardinality(Counted)
          /\ Cardinality(Counted) <= Cardinality(Handled)
          /\ cnt[t] \in Nat /\ state.count \in Nat /\ Window \in Nat
          /\ Cardinality(Counted) \in Nat /\ Cardinality(Handled) \in Nat
      BY <2>1, Sizes, WindowAssumption DEF CountInv, Typed, States
    <3>2. Cardinality(Handled) <= Window => cnt[t] + 1 <= Window /\ state.count <= Window
      BY <3>1
    <3>3. SetFlag("sniped") => state'.sniped
      BY <2>3, FlagSet DEF Typed
    <3> QED
      BY <2>1, <2>2, <3>2, <3>3
  <2>7. state'.sniped => state.sniped \/ t \in DevTrades
    BY <2>1
  <2>8. (Checked' \cap DevTrades # {} /\ Cardinality(Handled') <= Window) => state'.sniped
    <3>1. Checked \cap DevTrades # {} /\ Cardinality(Handled) <= Window => state.sniped
      BY <2>1 DEF FlagInv
    <3>2. Checked' \cap DevTrades # {} => Checked \cap DevTrades # {} \/ t \in DevTrades
      BY <2>2
    <3> QED
      BY <2>2, <2>3, <2>4, <2>6, <3>1, <3>2
  <2>9. state'.sniped => Checked' \cap DevTrades # {}
    BY <2>1, <2>2, <2>7 DEF FlagInv
  <2>10. \A p \in Cachers, f \in Flags : pc'[p] = "set" /\ buf'[p][f] => state'[f]
    BY <2>1, <2>4, <2>5 DEF FlagInv
  <2>11. \A rec \in cache', f \in Flags : rec[f] => state'[f]
    BY <2>1, <2>4 DEF FlagInv
  <2> QED
    BY <2>8, <2>9, <2>10, <2>11 DEF FlagInv
<1>8. ASSUME NEW p \in Cachers, Marshal(p) PROVE FlagInv'
  <2>1. Same
    BY <1>8, CacheMoves DEF cacheState
  <2>2. /\ UNCHANGED <<tracked, state, cnt, cache>>
        /\ pc' = [pc EXCEPT ![p] = "set"] /\ buf' = [buf EXCEPT ![p] = state]
    BY <1>8 DEF Marshal
  <2>3. \A q \in Cachers : pc'[q] = "set" => buf'[q] = state \/ (pc[q] = "set" /\ buf'[q] = buf[q])
    BY <1>p, <2>2 DEF Typed
  <2> QED
    BY <2>1, <2>2, <2>3 DEF FlagInv, Same
<1>9. ASSUME NEW p \in Cachers, SetCache(p) PROVE FlagInv'
  <2>1. Same
    BY <1>9, CacheMoves DEF cacheState
  <2>2. /\ UNCHANGED <<tracked, state, cnt>> /\ pc[p] = "set"
        /\ pc' = [pc EXCEPT ![p] = "done"] /\ buf' = [buf EXCEPT ![p] = Fresh]
        /\ cache' = {buf[p]} \/ cache' = cache
    BY <1>9 DEF SetCache
  <2>3. \A q \in Cachers : pc'[q] = "set" => pc[q] = "set" /\ buf'[q] = buf[q]
    BY <1>p, <2>2 DEF Typed
  <2> QED
    BY <2>1, <2>2, <2>3 DEF FlagInv, Same
<1>10. CASE ExpireCache \/ ExpireAlpha
  <2>1. UNCHANGED <<tracked, state, pc, cnt, buf>> /\ cache' \subseteq cache
    BY <1>10 DEF ExpireCache, ExpireAlpha
  <2>2. Same
    BY <2>1, Locations, NextLocations DEF Same
  <2> QED
    BY <2>1, <2>2, FlagKept DEF Same
<1>11. ~Crash
  BY DEF Crash
<1> QED
  BY <1>1, <1>2, <1>3, <1>4, <1>5, <1>6, <1>7, <1>8, <1>9, <1>10, <1>11
  DEF Next, handleTrade, cacheState
-----------------------------------------------------------------------------
(***************************************************************************)
(* The theorems.                                                           *)
(***************************************************************************)
LEMMA Invariance == Spec => []IInv
<1>1. Init => IInv
  <2> SUFFICES ASSUME Init PROVE IInv
    OBVIOUS
  <2>1. /\ ~tracked /\ cache = {}
        /\ \A p \in Procs : pc[p] \in {"wire", "idle"}
    BY DEF Init
  <2>2. Trades \subseteq Procs /\ Cachers \subseteq Procs /\ "brain" \in Procs
    BY DEF Procs, Cachers, Messages
  <2>3. Handled = {} /\ BirthInv
    BY <2>1, <2>2, Locations DEF BirthInv
  <2> QED
    BY <2>1, <2>3, InitTyped DEF IInv, CountInv, FlagInv
<1>2. IInv /\ [Next]_vars => IInv'
  BY StepTyped, BirthStep, CountStep, FlagStep DEF IInv
<1> QED
  BY <1>1, <1>2, PTL DEF Spec

\* Racing handlers lose increments of TradeCount but never add any, neither in memory
\* nor in the cached record, for any number of trades.
THEOREM CountSafe == Spec => []CountNeverAhead
<1>1. IInv => CountNeverAhead
  BY DEF IInv, CountInv, CountNeverAhead
<1> QED
  BY <1>1, Invariance, PTL

\* The dev-sniping check catches every creator's trade it sees before more than Window
\* trades are in its handlers, and flags nobody else, for any number of trades and any Window.
THEOREM SnipingSafe == Spec => []EarlyDevTradeFlagged
<1>1. IInv => EarlyDevTradeFlagged
  BY DEF IInv, FlagInv, EarlyDevTradeFlagged
<1> QED
  BY <1>1, Invariance, PTL

\* A record in Redis never warns of what the entry does not, however late it is written.
THEOREM CacheSafe == Spec => []CacheNotAhead
<1>1. IInv => CacheNotAhead
  BY DEF IInv, FlagInv, CacheNotAhead
<1> QED
  BY <1>1, Invariance, PTL

\* While the token stays tracked no step clears a flag.
LEMMA FlagsGrow ==
    ASSUME Typed, BirthInv, [Next]_vars, tracked, tracked'
    PROVE  \A f \in Flags : state[f] => state'[f]
<1>1. CASE handleNewToken
  <2>1. ~StoreToken
    BY DEF StoreToken, BirthInv
  <2>2. state' = state \/ \E f \in Flags : SetFlag(f)
    BY <1>1, <2>1 DEF handleNewToken, SpawnScout, BrainAnswers, BrainFails, WriteScore,
                      WriteVerdict, Scout, Report, Flags
  <2> QED
    BY <2>2, FlagSet DEF Typed
<1>2. ASSUME NEW t \in Trades, handleTrade(t) PROVE \A f \in Flags : state[f] => state'[f]
  <2>1. CASE WriteCount(t)
    BY <2>1 DEF WriteCount, Typed, States, Flags
  <2>2. CASE ~WriteCount(t)
    <3>1. state' = state \/ \E f \in Flags : SetFlag(f)
      BY <1>2, <2>2 DEF handleTrade, LoadNothing, ReadCount, CheckMomentum, CheckDev, Flags
    <3> QED
      BY <3>1, FlagSet DEF Typed
  <2> QED
    BY <2>1, <2>2
<1>3. CASE \/ \E m \in Messages : Receive(m) \/ Miss(m)
           \/ \E p \in Cachers : cacheState(p)
           \/ ExpireCache \/ ExpireAlpha \/ UNCHANGED vars
  <2>1. state' = state
    BY <1>3 DEF Receive, Miss, cacheState, Marshal, SetCache, ExpireCache, ExpireAlpha
  <2> QED
    BY <2>1
<1>4. ~Crash
  BY DEF Crash
<1> QED
  BY <1>1, <1>2, <1>3, <1>4 DEF Next

\* Between a creation and a crash no step takes a warning back: GetSniperVerdict hands out
\* the live entry, and every goroutine only adds to it.
THEOREM WarningsSafe == Spec => WarningsStay
<1>1. IInv /\ [Next]_vars =>
        \A s \in GetSniperVerdict, n \in GetSniperVerdict', f \in Flags : s[f] => n[f]
  BY FlagsGrow DEF IInv, GetSniperVerdict
<1> QED
  BY <1>1, Invariance, PTL DEF Spec, WarningsStay
=============================================================================
