------------------------------- MODULE Oracle -------------------------------
(***************************************************************************)
(* The SOL price: GetSolPriceUSD of internal/pay/oracle.go.  It asks       *)
(* Jupiter, then Binance, then Redis, then takes a constant; what an       *)
(* exchange answers is kept in Redis for a day.                            *)
(*                                                                         *)
(* Abstractions.  Both exchanges quote the market; the conversion to an    *)
(* amount of SOL is left out.  Each failure is a call that errs, answers   *)
(* another status than 200, or has no positive price in its body.          *)
(***************************************************************************)
EXTENDS HttpServer, Naturals

CONSTANTS
    Prices,
    MaxMoves    \* bound on moves of the market

HardFallbackPrice == "91.2"
ASSUME PriceAssumption == {None, HardFallbackPrice} \cap Prices = {} /\ MaxMoves \in Nat

VARIABLES
    market,     \* the price now
    priceCache, \* solana_cutoff_price in Redis
    step,       \* step[r]: the call that request r is in
    hand,       \* hand[r]: the price it has found
    moves       \* moves of the market so far

oracleVars == <<market, priceCache, step, hand, moves>>

OracleInit ==
    /\ market \in Prices
    /\ priceCache = None
    /\ step = [r \in Requests |-> "idle"]
    /\ hand = [r \in Requests |-> None]
    /\ moves = 0

\* Request r, in call l, goes on to call k with price p.
Call(r, l, k, p) ==
    /\ step[r] = l
    /\ step' = [step EXCEPT ![r] = k]
    /\ hand' = [hand EXCEPT ![r] = p]
    /\ UNCHANGED <<market, moves>>
-----------------------------------------------------------------------------
Ask(r) == Call(r, "idle", "jupiter", None) /\ UNCHANGED priceCache

\* Mutant: a price that does not parse, or is not positive, is taken for an answer.
JupiterAnswersAny(r) ==
    /\ \E p \in {market, None} : Call(r, "jupiter", "set", p)
    /\ UNCHANGED priceCache

JupiterAnswers(r) == Call(r, "jupiter", "set", market) /\ UNCHANGED priceCache

\* Mutant: Jupiter is asked again until it answers.
JupiterFailsRetried(r) == Call(r, "jupiter", "jupiter", None) /\ UNCHANGED priceCache

JupiterFails(r) == Call(r, "jupiter", "binance", None) /\ UNCHANGED priceCache

BinanceAnswers(r) == Call(r, "binance", "set", market) /\ UNCHANGED priceCache

BinanceFails(r) == Call(r, "binance", "redis", None) /\ UNCHANGED priceCache

\* updateRedisPrice, of an exchange's answer; its error is dropped.
SetPrice(r) ==
    /\ Call(r, "set", "quoted", hand[r])
    /\ priceCache' \in {hand[r]} \cup (IF Faults THEN {priceCache} ELSE {})

RedisPrice(r) ==
    /\ priceCache # None
    /\ Call(r, "redis", "quoted", priceCache)
    /\ UNCHANGED priceCache

\* Mutant: the constant is kept in Redis like an answer.
HardFallbackKept(r) ==
    /\ priceCache = None \/ Faults
    /\ Call(r, "redis", "quoted", HardFallbackPrice)
    /\ priceCache' = HardFallbackPrice

\* No entry, or a Redis error.
HardFallback(r) ==
    /\ priceCache = None \/ Faults
    /\ Call(r, "redis", "quoted", HardFallbackPrice)
    /\ UNCHANGED priceCache

Quoted(r) == Call(r, "quoted", "idle", None) /\ UNCHANGED priceCache

ExpirePrice ==
    /\ priceCache # None /\ priceCache' = None
    /\ UNCHANGED <<market, step, hand, moves>>

Move ==
    /\ moves < MaxMoves
    /\ moves' = moves + 1
    /\ market' \in Prices \ {market}
    /\ UNCHANGED <<priceCache, step, hand>>

OracleCrash ==
    /\ step' = [r \in Requests |-> "idle"]
    /\ hand' = [r \in Requests |-> None]
    /\ UNCHANGED <<market, priceCache, moves>>
-----------------------------------------------------------------------------
AskRedis(r) == SetPrice(r) \/ RedisPrice(r) \/ HardFallback(r)

OracleStep ==
    \/ \E r \in Requests :
          \/ JupiterAnswers(r) \/ JupiterFails(r)
          \/ BinanceAnswers(r) \/ BinanceFails(r) \/ AskRedis(r)
    \/ ExpirePrice \/ Move

\* httpClient gives Jupiter up after ten seconds, and Redis answers or errs.  Nothing
\* bounds the call of Binance, which is made with the default client.
OracleFairness ==
    \A r \in Requests : WF_oracleVars(JupiterFails(r)) /\ WF_oracleVars(AskRedis(r))
-----------------------------------------------------------------------------
OracleTypeOK ==
    /\ market \in Prices
    /\ priceCache \in Prices \cup {None}
    /\ step \in [Requests -> {"idle", "jupiter", "binance", "set", "redis", "quoted"}]
    /\ hand \in [Requests -> Prices \cup {None, HardFallbackPrice}]
    /\ \A r \in Requests : hand[r] # None <=> step[r] \in {"set", "quoted"}
    /\ moves \in Nat

\* A quote is made at the market's price, or at one that Redis or an overlapping quote
\* still held, or at the constant; the constant never gets into Redis, and an old price
\* that was let go of does not come back.
PricesHeld == {market} \cup ({priceCache} \ {None})
    \cup {hand[r] : r \in {q \in Requests : step[q] = "set"}}
PriceTold == [r \in Requests |-> IF step[r] = "quoted" THEN hand[r] ELSE "unasked"]
SolPrice == INSTANCE LookAside WITH
    Readers <- Requests, Values <- Prices, Fallbacks <- {HardFallbackPrice},
    current <- {market}, held <- PricesHeld, told <- PriceTold
ServesPrices == SolPrice!Spec

\* A request for a quote ends although every source of a price is down, unless it hangs
\* in the call of Binance.
QuotesEnd == \A r \in Requests : step[r] # "idle" ~> step[r] \in {"idle", "binance"}
=============================================================================
