------------------------------- MODULE Portal -------------------------------
(***************************************************************************)
(* The Pump Portal subscriber (internal/processor/portal_subscriber.go):   *)
(* a WebSocket stream of one token's messages, a goroutine for each of     *)
(* them, and one TokenState that all of these goroutines read and write    *)
(* without a lock, bots included.                                          *)
(*                                                                         *)
(* One token is enough: entries of different mints share nothing.  Every   *)
(* access of a handler to a field of TokenState is a step of its own, so   *)
(* that racing goroutines lose increments.  json.Marshal is one step, as   *)
(* no property relates two fields of a cached record.  Words are not torn  *)
(* on the 64-bit builds, strings are: a torn Verdict is the old one, the   *)
(* new one or a crash, and all three are here.                             *)
(*                                                                         *)
(* Left out: LastProgress, TradesPerMin and VelocityRank, which each trade *)
(* overwrites, and tokenCreators, which nothing reads.  Score, Verdict and *)
(* CreatorReputation are TRUE once set: each has a single writer.          *)
(***************************************************************************)
EXTENDS Naturals, FiniteSets

CONSTANTS
    Trades,     \* the buys and sells of the token
    DevTrades,  \* those of them whose trader is the token's creator
    Hot,        \* those of them at 50% of the bonding curve or more
    Window,     \* 10 in the code
    Faults      \* TRUE: messages, brain and Redis may fail, the process may crash

ASSUME TradeAssumption == IsFiniteSet(Trades) /\ DevTrades \subseteq Trades /\ Hot \subseteq Trades
ASSUME NameAssumption == Trades \cap {"create", "brain", "scout"} = {}
ASSUME WindowAssumption == Window \in Nat /\ Faults \in BOOLEAN

\* The goroutines: a message each, and the two a creation leaves behind.
Messages == Trades \cup {"create"}
Procs    == Messages \cup {"brain", "scout"}
Cachers  == Messages \cup {"brain"}

\* TokenState.
Flags  == {"sniped", "momentum", "score", "verdict", "reputation"}
States == [count : Nat, sniped : BOOLEAN, momentum : BOOLEAN, score : BOOLEAN,
           verdict : BOOLEAN, reputation : BOOLEAN]
Fresh  == [count |-> 0, sniped |-> FALSE, momentum |-> FALSE, score |-> FALSE,
           verdict |-> FALSE, reputation |-> FALSE]

VARIABLES
    tracked,  \* tokenStats has an entry
    state,    \* the entry, Fresh without one
    pc,       \* what a goroutine does next
    cnt,      \* the TradeCount a trade's handler has read
    buf,      \* the record a cacheState has marshalled
    cache,    \* key sniper:v1:<mint>: the empty set or its record
    alpha     \* the mint is in the set potential_alpha_tokens

vars == <<tracked, state, pc, cnt, buf, cache, alpha>>

Init ==
    /\ tracked = FALSE /\ state = Fresh
    /\ pc = [p \in Procs |-> IF p \in Messages THEN "wire" ELSE "idle"]
    /\ cnt = [t \in Trades |-> 0]
    /\ buf = [p \in Cachers |-> Fresh]
    /\ cache = {} /\ alpha = FALSE
-----------------------------------------------------------------------------
GoTo(p, l) == pc' = [pc EXCEPT ![p] = l]
SetFlag(f) == state' = [state EXCEPT ![f] = TRUE]

\* The next message of the stream, where a token is announced before its trades.
AtHead(m) == pc[m] = "wire" /\ (m = "create" \/ pc["create"] # "wire")

\* connectAndListen reads a message and starts its handler.
Receive(m) ==
    /\ AtHead(m)
    /\ GoTo(m, IF m = "create" THEN "store" ELSE "load")
    /\ UNCHANGED <<tracked, state, cnt, buf, cache, alpha>>

\* Sent while the connection was down, or not parsed.
Miss(m) ==
    /\ Faults
    /\ AtHead(m)
    /\ GoTo(m, "lost")
    /\ UNCHANGED <<tracked, state, cnt, buf, cache, alpha>>

\* Mutant: the creation is counted as a trade.
StoreTokenCounted ==
    /\ pc["create"] = "store"
    /\ tracked' = TRUE /\ state' = [Fresh EXCEPT !.count = 1]
    /\ pc' = [pc EXCEPT !["create"] = "marshal", !["brain"] = "spawn"]
    /\ UNCHANGED <<cnt, buf, cache, alpha>>

\* handleNewToken: the entry is stored, the analysis started, the entry cached.
StoreToken ==
    /\ pc["create"] = "store"
    /\ tracked' = TRUE /\ state' = Fresh
    /\ pc' = [pc EXCEPT !["create"] = "marshal", !["brain"] = "spawn"]
    /\ UNCHANGED <<cnt, buf, cache, alpha>>

\* Without a brain client nothing is analysed; without an enricher nobody scouts.
SpawnScout ==
    /\ pc["brain"] = "spawn"
    /\ \/ pc' = [pc EXCEPT !["brain"] = "call", !["scout"] = "rpc"]
       \/ GoTo("brain", "call")
       \/ GoTo("brain", "done")
    /\ UNCHANGED <<tracked, state, cnt, buf, cache, alpha>>

BrainAnswers ==
    /\ pc["brain"] = "call"
    /\ GoTo("brain", "score")
    /\ UNCHANGED <<tracked, state, cnt, buf, cache, alpha>>

\* An error, or no answer within five seconds: the entry keeps no score.
BrainFails ==
    /\ Faults
    /\ pc["brain"] = "call"
    /\ GoTo("brain", "done")
    /\ UNCHANGED <<tracked, state, cnt, buf, cache, alpha>>

WriteScore ==
    /\ pc["brain"] = "score"
    /\ SetFlag("score")
    /\ GoTo("brain", "verdict")
    /\ UNCHANGED <<tracked, cnt, buf, cache, alpha>>

WriteVerdict ==
    /\ pc["brain"] = "verdict"
    /\ SetFlag("verdict")
    /\ GoTo("brain", "marshal")
    /\ UNCHANGED <<tracked, cnt, buf, cache, alpha>>

\* checkCreatorReputation has answered: a trusted creator's token is announced.
Scout ==
    /\ pc["scout"] = "rpc"
    /\ \/ alpha' = TRUE
       \/ UNCHANGED alpha
    /\ GoTo("scout", "report")
    /\ UNCHANGED <<tracked, state, cnt, buf, cache>>

\* The reputation is written, and not cached.
Report ==
    /\ pc["scout"] = "report"
    /\ SetFlag("reputation")
    /\ GoTo("scout", "done")
    /\ UNCHANGED <<tracked, cnt, buf, cache, alpha>>
-----------------------------------------------------------------------------
\* handleTrade of a token that is not tracked (yet).
LoadNothing(t) ==
    /\ pc[t] = "load"
    /\ ~tracked
    /\ GoTo(t, "dropped")
    /\ UNCHANGED <<tracked, state, cnt, buf, cache, alpha>>

\* state.TradeCount++, the read and the write.
ReadCount(t) ==
    /\ pc[t] = "load"
    /\ tracked
    /\ cnt' = [cnt EXCEPT ![t] = state.count]
    /\ GoTo(t, "count")
    /\ UNCHANGED <<tracked, state, buf, cache, alpha>>

\* Mutant: the handler stores a new entry in place of the one it loaded.
WriteCountAnew(t) ==
    /\ pc[t] = "count"
    /\ state' = [Fresh EXCEPT !.count = cnt[t] + 1]
    /\ GoTo(t, "momentum")
    /\ UNCHANGED <<tracked, cnt, buf, cache, alpha>>

WriteCount(t) ==
    /\ pc[t] = "count"
    /\ state' = [state EXCEPT !.count = cnt[t] + 1]
    /\ GoTo(t, "momentum")
    /\ UNCHANGED <<tracked, cnt, buf, cache, alpha>>

\* A hot trade within two minutes of the creation.
CheckMomentum(t) ==
    /\ pc[t] = "momentum"
    /\ \/ t \in Hot /\ SetFlag("momentum")
       \/ UNCHANGED state
    /\ GoTo(t, "dev")
    /\ UNCHANGED <<tracked, cnt, buf, cache, alpha>>

\* Mutant: < instead of <=.
CheckDevOneLess(t) ==
    /\ pc[t] = "dev"
    /\ \E c \in {cnt[t] + 1, state.count} :
          IF c < Window /\ t \in DevTrades THEN SetFlag("sniped") ELSE UNCHANGED state
    /\ GoTo(t, "marshal")
    /\ UNCHANGED <<tracked, cnt, buf, cache, alpha>>

\* The count compared is the one just written or, loaded again, the current one.
CheckDev(t) ==
    /\ pc[t] = "dev"
    /\ \E c \in {cnt[t] + 1, state.count} :
          IF c <= Window /\ t \in DevTrades THEN SetFlag("sniped") ELSE UNCHANGED state
    /\ GoTo(t, "marshal")
    /\ UNCHANGED <<tracked, cnt, buf, cache, alpha>>

\* Mutant: the record is marked from the message, not from the entry.
MarshalMarked(p) ==
    /\ pc[p] = "marshal"
    /\ buf' = [buf EXCEPT ![p] = [state EXCEPT !.sniped = @ \/ p \in DevTrades]]
    /\ GoTo(p, "set")
    /\ UNCHANGED <<tracked, state, cnt, cache, alpha>>

\* cacheState: the entry is marshalled and, another call, set for 60 seconds; an error
\* is only logged.
Marshal(p) ==
    /\ pc[p] = "marshal"
    /\ buf' = [buf EXCEPT ![p] = state]
    /\ GoTo(p, "set")
    /\ UNCHANGED <<tracked, state, cnt, cache, alpha>>

\* Mutant: the record is pushed to a list.
SetCachePushed(p) ==
    /\ pc[p] = "set"
    /\ cache' = cache \cup {buf[p]}
    /\ buf' = [buf EXCEPT ![p] = Fresh]
    /\ GoTo(p, "done")
    /\ UNCHANGED <<tracked, state, cnt, alpha>>

SetCache(p) ==
    /\ pc[p] = "set"
    /\ \/ cache' = {buf[p]}
       \/ Faults /\ UNCHANGED cache
    /\ buf' = [buf EXCEPT ![p] = Fresh]
    /\ GoTo(p, "done")
    /\ UNCHANGED <<tracked, state, cnt, alpha>>

ExpireCache ==
    /\ cache # {}
    /\ cache' = {}
    /\ UNCHANGED <<tracked, state, pc, cnt, buf, alpha>>

ExpireAlpha ==
    /\ alpha
    /\ alpha' = FALSE
    /\ UNCHANGED <<tracked, state, pc, cnt, buf, cache>>

\* The process dies and restarts (without Redis it does at the first cacheState, whose
\* client is nil); the token is not announced again.
Crash ==
    /\ Faults
    /\ tracked' = FALSE /\ state' = Fresh
    /\ pc' = [p \in Procs |-> IF pc[p] = "wire" THEN "wire" ELSE "gone"]
    /\ cnt' = [t \in Trades |-> 0]
    /\ buf' = [p \in Cachers |-> Fresh]
    /\ UNCHANGED <<cache, alpha>>

handleNewToken ==
    \/ StoreToken \/ SpawnScout \/ BrainAnswers \/ BrainFails \/ WriteScore \/ WriteVerdict
    \/ Scout \/ Report
handleTrade(t) ==
    \/ LoadNothing(t) \/ ReadCount(t) \/ WriteCount(t) \/ CheckMomentum(t) \/ CheckDev(t)
cacheState(p) == Marshal(p) \/ SetCache(p)

\* What a bot is told: nothing, or the entry itself.
GetSniperVerdict == IF tracked THEN {state} ELSE {}

Next ==
    \/ \E m \in Messages : Receive(m) \/ Miss(m)
    \/ handleNewToken
    \/ \E t \in Trades : handleTrade(t)
    \/ \E p \in Cachers : cacheState(p)
    \/ ExpireCache \/ ExpireAlpha \/ Crash

Spec == Init /\ [][Next]_vars
-----------------------------------------------------------------------------
(***************************************************************************)
(* Properties                                                              *)
(***************************************************************************)
TypeOK ==
    /\ tracked \in BOOLEAN /\ state \in States
    /\ pc \in [Procs -> {"wire", "lost", "idle", "store", "spawn", "call", "score", "verdict",
                         "rpc", "report", "load", "dropped", "count", "momentum", "dev",
                         "marshal", "set", "done", "gone"}]
    /\ cnt \in [Trades -> Nat]
    /\ buf \in [Cachers -> States]
    /\ cache \subseteq States /\ Cardinality(cache) <= 1
    /\ alpha \in BOOLEAN

\* Trades this process has counted, and those it has checked as well.
Checked == {t \in Trades : pc[t] \in {"marshal", "set", "done"}}
Counted == {t \in Trades : pc[t] \in {"momentum", "dev"}} \cup Checked
Handled == {t \in Trades : pc[t] = "count"} \cup Counted

\* Increments are lost when handlers race, so TradeCount may fall behind the trades
\* handled, down to 1; it never runs ahead of them, in memory or in the cache, which
\* would close the window of the dev-sniping check too early.
CountNeverAhead ==
    tracked => /\ state.count <= Cardinality(Counted)
               /\ Counted # {} => state.count >= 1
               /\ \A rec \in cache : rec.count <= Cardinality(Counted)

\* "Dev Sniping Check: first 10 trades" means the first to be handled, which need not be
\* the first of the stream: however handlers race, a creator's trade that was checked while
\* the process had handled no more than Window trades is flagged; and nobody is flagged
\* but for a trade of the creator.
EarlyDevTradeFlagged ==
    tracked => /\ (Checked \cap DevTrades # {} /\ Cardinality(Handled) <= Window) => state.sniped
               /\ state.sniped => Checked \cap DevTrades # {}

\* A warning once given to a bot is never taken back while the token is tracked: no
\* handler, brain answer or scout undoes what another goroutine has set.
WarningsStay ==
    [][\A s \in GetSniperVerdict, n \in GetSniperVerdict', f \in Flags : s[f] => n[f]]_vars

\* The cached record lags behind the entry, it never claims what the entry does not.
CacheNotAhead ==
    tracked => \A rec \in cache, f \in Flags : rec[f] => state[f]
=============================================================================
