# TLA+ models of itswork-epic

ItsWork rates Solana tokens. A Go service (the "ingestor") receives webhooks and a
WebSocket stream, asks a Python service (the "brain") for a score, keeps verdicts in
Postgres with Redis in front, and sells access to them: free scans, subscriptions,
credits and single payments. This directory holds TLA+ modules of the parts of that
service where interleavings, failures and restarts decide whether it is right, the TLC
configurations that check them, and TLAPS proofs of the most important results.

Source paths below are relative to `src/`.

## The system

| component | state it keeps | operations | modelled in |
|---|---|---|---|
| access control and charging (`internal/repository/payment.go`, `internal/ingestor/handler.go`) | Postgres `user_credits`, `payments`, `user_subscriptions`, `users`; Redis `payment_verified`, `free:user`, `usage:user`, `sub_active`, `sub_limit` | CheckAccess, CommitUsage, GetFreeUsage, GetQuotaRemaining, IsProSubscriber, DeductCredit | `AccessGate`, abstract: `Subscription` |
| payments and subscriptions (`internal/ingestor/pay_handler.go`, `internal/pay/service.go`, `payment.go`) | `payments`, `user_subscriptions`, `usage:user`; the chain | CreateSubscriptionPayment, VerifyPayment, VerifyTransaction, UpdatePaymentStatus, ActivateSubscription | `Fulfilment`, abstract: `Subscription` |
| ingestion pipeline (`handler.go`, `internal/ingestor/publisher.go`, `internal/processor/subscriber.go`, `internal/app/app.go`) | the publish channel, Pub/Sub, `token_analysis`; the process's life cycle | HeliusWebhookHandler, worker, handleMessage, SaveAnalysis, RunMain, Shutdown | `Ingest`, abstract: `Delivery` |
| verdict store (`internal/repository/token_analysis.go`) | `wallets`, `token_analysis`, Redis `token_verdict` | SaveAnalysis, GetAnalysis | `VerdictStore`, abstract: `LookAside` |
| Pump Portal subscriber (`internal/processor/portal_subscriber.go`) | in-memory `tokenStats`, Redis `sniper:v1`, `potential_alpha_tokens` | HandleMessage, handleNewToken, handleTrade, cacheState, GetSniperVerdict | `Portal` |
| middleware, API keys and users (`internal/ingestor/middleware.go`, `internal/repository/auth.go`, `handler.go`) | `api_keys`, `users`, Redis `api_key_user`, Clerk metadata | DualAuthMiddleware, GetUserIDByAPIKey, GenerateAPIKey, SaveUserRole, AuthSync | `Auth`, abstract: `LookAside`; composed in `Gateway` |
| enricher (`internal/processor/enricher.go`) | Redis `enrich:mint`, `reputation:creator` | Enrich and its seven checks, doWithRetry | `Analysis` |
| brain (`internal/brain/services.py`, `internal/processor/grpc_client.go`) | none | AnalyzeToken | `Analysis` |
| price oracle (`internal/pay/oracle.go`) | Redis `solana_cutoff_price` | GetSolPriceUSD | `Oracle`, abstract: `LookAside`; composed in `Gateway` |
| CORS, set-up, telemetry, migrations, web pages | none that the rest depends on | | not modelled |

How they interact. A request goes through the middleware (user and authentication
method), then `CheckAccess`, then the work (`GetAnalysis` or `GetSniperVerdict`), then
`CommitUsage`; every arrow is a call of its own to Redis or Postgres, on a goroutine of its
own, and no lock spans two of them. Payments change the rows and keys CheckAccess reads.
The pipeline writes the verdicts GetAnalysis reads. The router lets only JWT users
reach TokenAnalysisHandler and only API keys SniperVerdictHandler (`handler.go:100-135`), so
the `isAPI` branch of TokenAnalysisHandler is unreachable and not modelled.

What is hard about it: check and charge are separate calls; the cached copies (`sub_active`,
`sub_limit`, free counters) outlive what they copy; Redis and Postgres are changed one
after the other, so that a crash or an error leaves one of them behind; the fulfilment
transaction reads a row it does not lock; clients may verify a payment as often as they like,
twice at once too; the pipeline holds answered messages in memory; and Shutdown closes
brain and database before the handlers are known to be done. `PROJECT.json` lists each
hazard at its line with the properties that watch it.

What makes each component right:
- access: nobody is granted more than the accounts allow, up to a bounded number of
  requests in flight; a request is charged to one account, in order, and not when it is
  not served; cached access was earned.
- fulfilment: nothing is fulfilled that was not finalized on the chain; what was accepted
  was activated; tier, paid time and quota follow what was bought.
- pipeline: an event Pub/Sub has is analysed, saved and only then acknowledged; shutdown
  ends and leaves nothing in a worker's hands.
- analysis: a call that fails, a cached answer or a message handled again never makes a token
  look better than it is; SAFE is earned by liquidity, contract and wallet, not by bonuses.
- verdict store: a reader is told the row, or what a cache or an overlapping reader still had of it; once
  let go of, an old verdict is not told again; a failing save blocks nobody.
- middleware, keys and roles: a revoked key is locked out in the end, a new one at once let in;
  Clerk shows the role that Postgres has, unless goroutines overlapped or failed.
- price oracle: a quote ends whatever is down, and an old price does not come back.
- Pump Portal: racing handlers neither invent trades nor take back a warning, an early
  trade of the creator is flagged, and the cached record claims no more than the entry.

## The modules

### AccessGate

One process per request. `pc[r]` is the next Redis or Postgres call of the request; each action
is that call with the local computation up to the next one, so all interleavings of calls
of concurrent requests are explored. `CacheHit/CacheMiss` are checkCache, `FreeTake`,
`FreeReplyLost`, `FreeRefuse` checkFreeTier around the Lua script (`FreeIncr`), `SubCacheHit` to
`SubFill` IsProSubscriber, `LimitCached` to `UsageSpent` GetQuotaRemaining,
`CreditLeft` to `SingleUnpaid` checkCredits, `BridgePaid/BridgeUnpaid` the handler's emergency
bridge, `WorkSucceeds/WorkFails` the work, `IncrementUsage`, `DeductCredit`, `CacheAccess`
CommitUsage. Around them: `SyncFreeUsage` is the goroutine that persists a free use, `DashMiss`,
`DashRead`, `DashSet` are GetFreeUsage, `MarkPaid/CachePaid` UpdatePaymentStatus for a single
payment, `Activate/ResetUsage` a renewal's commit and the DEL after it, and keys and
subscriptions expire. With `Faults`, a Redis or database call may fail and a reply may be
lost, in each case with what the code does about it, and the process may crash.

A request whose context is cancelled (the client is gone) behaves like one whose remaining
calls fail, so it is covered by `Faults`. A nil Redis client makes CheckAccess grant every
free use (`payment.go:274-276`) and is not modelled: without Redis there is no counter to be right.

### Fulfilment

One user, several references (payments) and several verifications at once, each a process with
one RPC, statement or Redis call per step. ActivateSubscription is a transaction at READ
COMMITTED: `FetchSubscription` takes the snapshot (`vold`, `vnow`), and `NewSubscription`,
`Upgrade`, `QueueDowngrade` or `Renew` choose by the snapshot but update the row as it then is:
the SET expressions of a single UPDATE see the current row. `user_id` is UNIQUE, so the
second INSERT of a race fails. The chain is external: a reference may get several
transactions, each finalized or failed; VerifyTransaction looks at the newest only. A lost reply
to COMMIT is an outcome of its own. `MCFulfilment` shortens a week to one day and a month to
two, and gives the plans quotas 1, 2, 3: only their order and that they are positive matter.

What the model shows and no property judges: verifying a reference again activates its plan
again; a queued downgrade writes `pending_plan`, which no code reads, and resets the usage
counter; a plan name without a branch (`SUB_ENTERPRISE`, or any other string) is
accepted and not fulfilled; a reference whose row could not be saved can be paid and never
verified.

### Subscription

AccessGate and Fulfilment share a user's row of `user_subscriptions` and his counter `usage:user`: one spends what
the other sells. `Subscription` is what they promise each other about the two: a row is never deleted, it becomes
active only by a commit, a use is counted only for a user who has a row, and the counter is cleared only by
somebody to whom a committed activation is owed (`owed`, the DEL after COMMIT). It allows what the code
cannot exclude: a DEL that fails or dies with the process (`Forget`), and a commit that leaves the row lapsed.
Each side implements it: in AccessGate, where selling is the sketch `Activate`, `ResetUsage`, `Lapse`,
the row is `sub` and the debt `renewing`; in Fulfilment, where spending is the sketch `Scan`, the row is
`RowState` of the columns and the clock, and the debt is a verification at the DEL (`Owing`). Both are the property `FollowsSubscription`.
So what either module assumes of the other side is what the other is shown to do.

### Ingest and Delivery

`where[e]` says who holds event e: Helius, a handler, the channel, a worker, the Pub/Sub
library's batch, the topic, or nobody (`acked`, `lost`). The workers' `select` is
`StopWorker` or `Dequeue`, whichever is enabled; `rpc[r]` is the position of a receiver in
handleMessage; `main` is where RunMain is: running, the call Shutdown makes next, or down.
Closing the brain connection and the database are steps of `main` that make the receivers'
calls fail. Pub/Sub (external) delivers at least once, in any order, to several receivers at once.

`Delivery` is what the pipeline promises: an event goes from offered to accepted (held in memory,
may be lost) to durable, and from there only to analysed or, if it names no token, discarded.
`Ingest` implements it under the mapping `status`, which is the property `ImplementsDelivery`.
So the loss of events answered 200 but still in memory is part of the promise: the code makes
no better one (`publisher.go:86` returns although the channel may hold messages).

### Portal

One token, since entries of different mints share nothing. A process per message of the
stream (`connectAndListen` starts a goroutine for each), the `brain` goroutine that handleNewToken
leaves behind, and the `scout` goroutine of that one, which looks up the creator's reputation. They share
one `TokenState` without a lock: each access to a field is a step, so `state.TradeCount++` is
`ReadCount` and `WriteCount`, and increments are lost as in the code. In `CheckDev` the compiler may
reuse the count it has just stored or load the field again; both are allowed. `Marshal` and `SetCache` are
cacheState: the record is taken first and written to Redis later, so an older one can replace a newer.
`Miss` is a message sent while Start reconnects; `Crash` empties the maps. The handlers of
different trades run in any order, so TradeCount counts them in the order they are handled: the first trade
of the stream may be counted last, and "first 10 trades" (`portal_subscriber.go:232`) means
the first ten handled.

The data races are modelled as the amd64 and arm64 builds produce them: words are not torn, and
a torn string (Verdict is a pointer and a length) is the old one, the new one, or a crash.
Without Redis the client is nil and the first cacheState panics, although `app.go` starts "without
cache if expected": that is `Crash`. Nothing in the repository reads `sniper:v1`.

### Analysis

Several messages about one token. Each walks through Enrich, one RPC or Redis call per step: `WalletAge`,
`LpCached` to `LpSet` with the key `enrich:mint`, `CheckFunding`, `AssetAnswer/AssetError/AssetFails`,
`GoldenWallets`, `RepCached` to `RepSet` with the key `reputation:creator`, and `Brain`, which answers
`Rated` of the payload or fails. `Redeliver` is a verdict that was not saved or a message delivered twice.
The chain is external: `Renounce` gives up an authority while messages are being handled. The brain is an operator: `Basics`,
`Capped`, `Momentum`, `Velocity`, `Reputation`, `Score`, `Verdict` are the rules of `services.py` in their order.

An RPC answers, fails, or returns a JSON error object. The enricher looks at no status
but 429, so an error object decodes into an empty result and is taken for an answer: a token without authorities
is "burned" and "renounced", a wallet without tokens "TRUSTED", whatever the comment "Pessimistic fallback"
(`enricher.go:242`) says of failures. The history field `erred` marks payloads and cache entries
that stem from one for liquidity or the contract, and `FailuresCostTrust` excepts exactly those.
doWithRetry resends a request whose body has been read; whatever the retry brings is one of the three outcomes,
so the retries are inside the call. Wallets do not age during a run; a nil Redis client or enricher, which `app.go` never
passes on a healthy start, is not modelled.

What the module shows besides its properties: the request the Pump Portal subscriber sends is
always answered DANGER (theorem `PortalDanger`), since it says "not burned, not
renounced, no socials" of every token; "Auto-Danger" (`services.py:74`) takes 50 points and does not by itself
mean DANGER; and
`test_analyze_token_safe_token` expects 100 of a request without `is_renounced` and `has_socials`, for which
the rules give 30.

### LookAside

What a look-aside cache promises, in three variables: the values that are `current`, those still
`held` by a cache or by a reader on its way to one, and what each reader was `told`. A value may be told
while it is held; when it is let go of it is not told again unless it becomes current again; "nothing" is
only told while nothing is current, so refusals are never cached. Nothing bounds how long a value is
held: a reader that read the truth before a change may still put it into the cache after it,
which is what the code does. Three components implement it, each by a refinement mapping of its own:
`ServesStore` (verdicts), `ServesKeys` (API keys) and `ServesPrices` (the SOL price).

### VerdictStore

One token. A writer is a goroutine in SaveAnalysis: `UpsertWallet` takes the lock on the creator's row, `ReadClock` is the
`time.Now()` among the arguments of the second statement, `UpsertAnalysis` takes the lock on the token's row,
`CommitAnalysis` ends the transaction, and `SaveFails` is an error of any statement with the deferred Rollback.
A reader is a goroutine in GetAnalysis: `CacheHit/CacheMiss`, `ReadRow/NotFound/ReadFails`,
`Fill`. `Crash` rolls open transactions back and forgets the readers.

`ProcessedInOrder` says how far `processed_at` can be trusted: two saves for one creator wait for each other at the wallet
*before* they read the clock, so the later clock commits later; two messages that name different creators do not wait,
and an older analysis may replace a newer one. Saving does not delete the key: the old verdict
is told until the entry expires (`ReadersCatchUp`), and a look-up that overlapped the save may put it
back once more.

The model assumes the constraint UNIQUE(mint_address) that `ON CONFLICT (mint_address)`
(`token_analysis.go:68`) needs. No migration creates it, so on a database built from them alone every SaveAnalysis
fails. ON CONFLICT does not set `creator_id`: the row keeps the first creator. The COALESCE of GetAnalysis
never applies to a row written by SaveAnalysis, which stores '' and not NULL.

### HttpServer, Auth, Oracle and Gateway

`HttpServer` declares the requests that `Auth` and `Oracle` share; `Gateway` composes the two.
`Auth` is one user before the router. A request with a key reads Redis (`KeyCached/KeyNotCached`), then the row (`ReadKey`), then
fills the cache (`FillKey`); one with a bearer token is let in when Clerk's library accepts it, one with
`?teaser=true` as a guest. `SaveUserRole` is the upsert and the goroutine it leaves behind, `SyncToClerk` and `SyncFails` are
that goroutine's call; the two are apart because the goroutine outlives its request. The upsert and the start of the goroutine
are one step: the goroutine may run at any later time, so nothing is lost. `settled` is a
history variable, FALSE once syncs overlapped or failed since the last role was chosen. Keys are revoked by an
operator (`RevokeKey`): no code of the repository does it, and no route leads to GenerateAPIKey.

`Oracle` is GetSolPriceUSD, a call per step. A response of an exchange may be older than the market when it is
written to Redis (`SetPrice`), so an old price can replace a newer one there. `Gateway` hands a request
that was let in to the oracle (`Subscribe`) and answers it (`Reply`); any user id will do, guest_teaser too
(`pay_handler.go:60`). What becomes of the payment is Fulfilment's.

## The runs

| run | instance | what it shows |
|---|---|---|
| `races` | 2 requests of 1 user for 1 mint, both handlers, free limits 1 (UI) and 0 (API), quota 1, balance 1, no faults | every account is exhausted by two requests racing for its last unit; charges and overshoot stay bounded, the quota counter follows the row |
| `faults` | 1 request, 1 quota page, single payments, faults and crashes, one counter loss | what lost replies, half-done updates and crashes can do to the free counter and the access cache |
| `plans` | three plans, one reference each, 2 verifiers | upgrades, downgrades and new subscriptions racing; the counter is cleared after commits only |
| `renewals` | the same plan twice, up to 2 transactions each, 2 verifiers, faults and crashes | nothing unpaid is fulfilled, nothing accepted is forgotten, no renewal lost |
| `ingest` | 2 events (one unusable), 2 workers, 2 receivers, channel of 1, faults, one exit | the refinement of Delivery, through full queue, shutdown, crash and restart; retries end, shutdown ends |
| `portal_stream` | 2 trades, one of them the creator's, the other hot, window of 1 trade, faults and crashes | what survives of TradeCount, of the sniping check and of the warnings when handlers, brain and scout race |
| `verdicts` | 2 messages, the calls of one may fail; a webhook that praises the token; tokens fresh, half renounced, and without an API key | what failures, shared cache entries, redeliveries and a change of authority can do to a score |
| `lookups` | 2 analyses that name different creators, 2 writers, 2 readers, at most 3 saves, faults and crashes | the look-aside cache of verdicts implements LookAside; locks are let go of; readers catch up |
| `users` | 2 requests, 2 roles, 2 choices of a role, 2 prices, one move of the market, faults and crashes | the caches of keys and prices implement LookAside; revocation takes effect; quotes end; roles settle |
| `free_tier` | expected violation of `FreeTierLimit` | the quota page's backfill overwrites the counter of a grant |
| `tier_race` | expected violation of `TierProtected` | a lower plan verified at the same time replaces the higher tier |
| `rugger` | expected violation of `RuggerNeverSafe`, 1 message, no faults | a serial rugger is rated SAFE |

Deadlock is not checked: the systems stop where their bounds are reached and where nobody asks for
anything.

Bounds. `MaxAllowance` limits how often a free counter can be lost to overwriting or expiry
(each time it hands out another free tier), `MaxOver` failed deductions beyond the balance,
`MaxTime` the days, `MaxTxs` transactions per reference, `MaxCommits` activations, `MaxUsage` scans,
`MaxExits` shutdowns and crashes, `MaxSaves` calls of SaveAnalysis (two that race and one after them),
`MaxChanges` choices of a role (two goroutines overlap), `MaxMoves` moves of the market (one price to be out of
date). In `users` the market opens at one of the prices (`MCInit`), which are interchangeable. Two requests, two verifiers, two workers and two receivers are
enough for every check-then-act race in the code, since each involves one reader
and one writer of a shared row or key; limits and quotas of 1 make the second request
the one too many. `Window` is 10 in the code and 1 in `portal_stream`, with two trades: one is the
last inside the window, the other the first outside. In `verdicts` one of two messages
is `Flaky`: one that fails and one that does not are enough for an entry of either to be read by the other.
In `ingest` one of the events names no token, and the other takes every way through the
pipeline, alone and behind it. The theorems remove the bounds on the
number of users, requests, payments, verifiers, events, workers, receivers, messages and trades, on the window, the thresholds
and the claims of a webhook.

Fairness. In `ingest`: weak fairness of the batches, workers, receivers and of
`main`: Go schedules every goroutine, and a supervisor (Cloud Run) restarts the process. Strong
fairness of `Deliver` per event: Pub/Sub redelivers what is not acknowledged. Strong fairness
of `Analyse` and `Save` per event: the brain and the database do not fail for ever on the same
message. Nothing is assumed of Helius, of the signal or of crashes. `EventuallyAnalysed` allows for a
process that could not create its Pub/Sub client (`client` FALSE): `SetupApp` goes on without
(`app.go:93-97`), and nothing is then delivered.

In `lookups`: a statement that waits for nobody returns (weak fairness), and a lock that is let go of again and again is granted
to everybody who waits for it (strong fairness; Postgres queues the waiters). No failure is fair: a wait
for a lock has no time limit of its own, so `SavesEnd` rests on the others' Rollback. Look-ups return, and Redis
drops an entry in the end. In `users`: look-ups and handlers return, Redis drops the key of a revoked user, and
`JupiterFails` is weakly fair because `httpClient` gives up after ten seconds. Nothing is assumed of Binance, which
`oracle.go:80` asks with the default client, without a time limit: `QuotesEnd` excepts a request that hangs there.

## What is proved

TLAPS checks the modules `AccessGate_proofs`, `Fulfilment_proofs`, `Ingest_proofs`, `Analysis_proofs`,
`Portal_proofs`, `VerdictStore_proofs` and `Gateway_proofs`, for every value of the constants that meets the named assumptions (limits, quotas, durations, thresholds and the window are
naturals, `Requests` is finite and not empty, `Trades` is finite, names of goroutines and markers are no trades or events).

AccessGate:
- `TypeCorrect`. TypeOK is inductive; the balance stays a natural because of the guard of DeductCredit.
- `FreeGrantsSafe`, `PersistedUsageSafe` rest on `FreeInv`: the grants never exceed the
  allowance, the unused allowance is at least what the counter still has to give (`freeGrants + FreeLimit <=
  allowance + freeCnt`), and the database with its pending writes never counts more than was
  granted. The second conjunct is what makes the first inductive: the script only looks at the counter.
- `UsageOvershootSafe`, `CreditOvershootSafe` (without faults): used plus in flight is at most quota plus
  the number of requests minus one. A grant needs the counter below its limit and adds one to the
  flight, which then holds at most all requests; a charge moves one from the flight to the counter.
  The cardinality lemmas `FlightSize`, `ChargeSize`, `OtherSize` carry that count.
- `ChargedOnceSafe`, `UnservedSafe`, with faults and crashes, rest on `ChargeInv`, which says for each position of a
  request what it can have been charged; `commit` is reached uncharged, because a free grant skips it. What a fault adds is one
  free use (`LostUse`): the script ran, its reply was lost, and CheckAccess went on to the next account.
- `FreeFirstSafe` (without faults) rests on `OrderInv`: a request that the free tier refused saw its counter at the limit,
  and a counter only drops together with a fresh allowance (`GoneStays`).
- `CachedAccessSafe` rests on `EarnedInv`: a request past its work has delivered, and what is
  being cached for a payment was paid.
- `GrantsSafe` looks at every request at work: the row of its subscription, the payment for its token, or an earned
  look-up is there, and an API key was not let in by credits or a single payment. It rests on `GrantInv`, which follows
  what a request has seen from call to call; rows, payments and look-ups only grow (`Keeps`), so a stale answer is still true.
- `SubscriptionFollowed`: every step is one of Subscription or leaves its variables alone. `Use` needs GrantInv,
  since INCR does not look at the row: that it exists was seen some calls before.

Fulfilment:
- `TypeCorrect` rests on `Inv`: TypeOK and that only plans with a duration and a quota reach the transaction.
- `QuotaSafe`: the invariant also bounds the quota in every snapshot by what was bought when it was taken.
- `PaidTimeSafe`, for a user who buys one plan: the expiry covers all committed activations, because the
  CASE of the renewal reads the row as it is.
- `TierSafe`: a step that drops an unexpired tier, or shortens paid time without an upgrade, is a commit
  whose snapshot differs from the row. Needs `NowInv`: no transaction's time is in the future. `PaidTimeKept` says
  it of the expiry alone, an expired one included.
- `CarryOverIgnoresUsage`: `current_usage` is zero in every row and snapshot, so an upgrade carries over the
  whole quota of the row it read.
- `OrderSafe` rests on `SettledInv`, which follows a verification from the transaction it saw to its answer (`ChainGrows`
  says that what is final stays final), and on `PaidInv`: whoever is inside ActivateSubscription has made the payment a success.
- `SubscriptionFollowed`: the branch that is applied is a Commit (`AppliedCommits`), the clock a Lapse or nothing, and the
  DEL a Reset, because only a commit leads to it; a commit whose reply is lost owes nothing and clears nothing.

Ingest:
- `TypeCorrect`, `ShutdownSafe` and the refinement rest on `IInv`: the channel holds an event once and only one that is
  there (`ChannelInv`), a worker's event is in no other hands (`WorkerInv`), a receiver only handles what the topic has or
  what is acknowledged (`ReceiverInv`), what is saved is in the topic or acknowledged and what is acknowledged was saved or unusable (`EventInv`).
- `DeliveryRefined`: under the mapping `status` every step moves one event as Delivery does (`OneMoves`), moves none
  (`NoneMoves`), or is the loss of what the process held in memory (`SomeLost`). Without
  ReceiverInv an acknowledgement could discard an event that was never analysed. The refinement is proved of `Safety`, without fairness.
- `CleanExitSafe`: a shutdown that comes to its end loses only what no worker had taken from the channel. What a worker
  held is in the batch, and the batch is sent, because Publisher.Shutdown cancels, waits and stops the topic in this order.
  It needs `HeldInv`, the converse of WorkerInv: no event is with a worker that let go of it. Of a crash the same is false.

Analysis:
- `SafeEarned` is arithmetic over every payload (`SafePayload`): without golden buyers the bonuses sum to 10, and each
  override leaves at most 60, a young wallet 70.
- `FailuresSafe` rests on `Fits`, which says at each position of Enrich what the payload may claim, and
  on `LpInv`: a cached "burned" from a real answer was true of the chain, which never takes an authority back. `RatedMonotone` turns
  the comparison of payloads into one of scores.
- `PortalDanger` is proved for every bonding progress and every threshold, `BonusesExceedCap` for every threshold.

Portal:
- `TypeCorrect` rests on `Typed`, which says of the cache that it is empty or a singleton, so that no
  cardinality is needed until the end.
- `CountSafe` rests on `CountInv`: the count, what each handler has read, and every record marshalled or
  cached are at most the number of trades counted; a handler that has read but not written is
  not counted itself, so the number it will write is covered by the count that then includes it.
- `SnipingSafe` adds that what a handler compares is bounded by the trades handled, hence by
  `Window` when no more were handled, and that flags are set only by the creator's trades.
- `CacheSafe` and `WarningsSafe` rest on `FlagInv`: flags are only set, so what was marshalled
  earlier is below the entry. `BirthInv` says that nothing but the stream runs before the token is stored.

VerdictStore (of `Safety`, without fairness):
- `TypeCorrect` rests on `Typed`: a goroutine inside a save has an analysis, and a look-up about to fill the cache has one.
- `OrderSafe` rests on `OrderInv`: a writer past the first upsert holds the row of its creator, so a `processed_at` it
  has read is not older than that of any verdict committed for the same creator; when a writer commits,
  no other writer of the same creator can hold a time that has now been overtaken.
- `DeadlockFree`, the safety half of `SavesEnd`: while some save waits, one can go on. `LockInv` says that a lock belongs to a
  transaction that has passed its statement, so whoever holds the token's row waits for nobody, whoever waits for
  that row holds only the creator's, and whoever waits for the creator's holds nothing.
- `StoreRefined`: a step that tells nobody anything is LookAside's Leave (lemma `Leaves`), the last call of a look-up its Tell
  (`Tells`), a commit its Change. Only that each answer was held when it was given has to be shown, call by call.
- `HeldOnlyDwindles`, the safety half of `ReadersCatchUp`: while the row stays, no step adds to the answers that may still be told.

Gateway (of `Safety`, without fairness):
- `TypeCorrect` rests on `Typed`: a request about to SET a price has it from an exchange, so the constant is never kept.
- `RolesHold` rests on `RoleInv`: while settled, either no goroutine is on its way and Clerk shows the role, or there is
  exactly one and it has the role of the row. The second part is what makes the first inductive.
- `KeysRefined`, `PricesRefined` go as `StoreRefined` does; `CallStep` treats all calls of the oracle at once.
- `RevokedStaysOut`, the safety half of `RevocationEnds`: once Redis and every look-up let go of a revoked key, it is locked
  out for good.

Only model-checked: the liveness properties `EventuallyAnalysed`, `ShutdownEnds`, `SavesEnd`, `ReadersCatchUp`, `RevocationEnds` and
`QuotesEnd`, which are out of the prover's reach; the theorems called their safety halves say that no step
undoes what fairness has achieved. The three theorems of AccessGate that say "without faults" are false
with them, as TLC finds: a call that fails skips the free tier, or leaves a served request uncharged.

## Where code and text disagree

The three violation runs. `free_tier`: the limit of free scans is
not a limit once the quota page writes back what it read. `tier_race`: "Protect current
high-tier status" does not survive two verifications at once. `rugger`: the enricher says
"SERIAL_RUGGER" and the brain looks for "SerialRugger", so "SERIAL RUGGER DETECTED (-60)" is never taken off.

Two more are theorems. `CarryOverIgnoresUsage`: "New Plan Quota + Leftover" (`payment.go:485`) carries over quota that was
used, since scans count in the Redis key `usage:user` and no statement raises `current_usage`; the test expects
"leftover = 50 - 10 = 40" (`payment_test.go:561`) of a row that no code writes. `BonusesExceedCap`: "LP is not
burned (Score capped at 50)" (`services.py:72`) is applied before the bonuses, which lift such a token to 80 and SAFE; the
test says "Even a perfect token otherwise should be capped at 50 if LP is not burned".

Without either: the free tier is charged before the work
(`payment.go:283`), so "Analysis failed, quota NOT deducted" (`handler.go:306`) is not true of a free scan; `UnservedKeepsQuota`
checks what is left of it.
The strongest forms that do hold are checked beside them: `UnservedKeepsQuota`,
`FreeGrantsWithinAllowance`, `TierProtectedAlone`, `QuotaWasBought`,
`EarlyDevTradeFlagged`, `SafeIsEarned`.

Read in the code and not judged by a property: VerifyTransaction looks at neither amount nor
recipient of the transaction; migration 000006 alters `users` before 000009 creates it, and the two
migrations numbered 000007 give `plan_tier` different types; CreatePaymentHandler has no route.

## Plan

Done: AccessGate, Fulfilment, Ingest with Delivery, Analysis, Portal, VerdictStore and Gateway (Auth, Oracle) with LookAside,
Subscription, and the proofs above. The order was that of what is at stake: money first, then losing events, then wrong verdicts,
then stale copies. AccessGate and Fulfilment are put together by the abstract `Subscription` that both implement, and not in
one module: their product is out of TLC's reach, and each has a sketch of the other.

Not planned: web pages, telemetry, generated code, terraform, the stress tool and the
migrations, which keep no state the properties depend on.
