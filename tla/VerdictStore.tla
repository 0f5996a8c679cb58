---------------------------- MODULE VerdictStore ----------------------------
(***************************************************************************)
(* The verdict of one token in Postgres and Redis: SaveAnalysis and        *)
(* GetAnalysis of internal/repository/token_analysis.go, with the          *)
(* receivers of handleMessage that save and the two kinds of requests to   *)
(* TokenAnalysisHandler (internal/ingestor/handler.go) that read, the      *)
(* teaser for everybody and the full answer.  One token is enough: the     *)
(* rows and keys of two tokens share only the wallets.                     *)
(*                                                                         *)
(* A save is one transaction of two upserts.  The first takes the lock on  *)
(* the creator's row in wallets, the second the lock on the token's row;   *)
(* both are kept until the transaction ends.  Between them the process     *)
(* reads its clock for processed_at.                                       *)
(*                                                                         *)
(* Abstractions.  An analysis is its identity: score, verdict, reason,     *)
(* reputation and risk are written and read together.  The constraint that *)
(* ON CONFLICT (mint_address) needs is assumed (the migrations do not      *)
(* create it).  Charging is in AccessGate; the key is token_verdict:<mint>.*)
(***************************************************************************)
EXTENDS Naturals

CONSTANTS
    Analyses,   \* the brain's answers about this token
    CreatorOf,  \* [Analyses -> creators]: the creator each message named
    Writers,    \* goroutines inside SaveAnalysis
    Readers,    \* goroutines inside GetAnalysis
    Faults,     \* TRUE: statements and Redis calls may fail, the process may crash
    MaxSaves    \* bound on calls of SaveAnalysis

Creators == {CreatorOf[a] : a \in Analyses}
None == "none"

ASSUME NameAssumption ==
    /\ {None, "nothing", "error", "unasked"} \cap Analyses = {}
    /\ None \notin Writers
ASSUME BoundAssumption == Faults \in BOOLEAN /\ MaxSaves \in Nat

VARIABLES
    row,        \* the analysis in token_analysis, or None
    at,         \* its processed_at
    walletLock, \* [Creators -> the writer whose transaction has the row of wallets]
    rowLock,    \* the writer whose transaction has the token's row
    clock,      \* the process's clock: how often it was read
    wpc, job, stamp,    \* writer: next statement, analysis, its processed_at
    saves,      \* calls of SaveAnalysis so far
    cache,      \* the analysis in Redis, or None
    rpc, hand   \* reader: next call, the answer it has read

dbVars     == <<row, at, walletLock, rowLock>>
writerVars == <<clock, wpc, job, stamp, saves>>
readerVars == <<cache, rpc, hand>>
vars == <<dbVars, writerVars, readerVars>>

Init ==
    /\ row = None /\ at = 0
    /\ walletLock = [c \in Creators |-> None] /\ rowLock = None
    /\ clock = 0
    /\ wpc = [w \in Writers |-> "idle"]
    /\ job = [w \in Writers |-> None]
    /\ stamp = [w \in Writers |-> 0]
    /\ saves = 0
    /\ cache = None
    /\ rpc = [r \in Readers |-> "idle"]
    /\ hand = [r \in Readers |-> None]
-----------------------------------------------------------------------------
Released(w) ==
    /\ walletLock' = [c \in Creators |-> IF walletLock[c] = w THEN None ELSE walletLock[c]]
    /\ rowLock' = IF rowLock = w THEN None ELSE rowLock

\* A message was analysed, for the first time or again.
BeginSave(w, a) ==
    /\ wpc[w] = "idle" /\ saves < MaxSaves
    /\ saves' = saves + 1
    /\ job' = [job EXCEPT ![w] = a]
    /\ wpc' = [wpc EXCEPT ![w] = "wallet"]
    /\ UNCHANGED <<dbVars, clock, stamp, readerVars>>

\* Mutant: ON CONFLICT DO NOTHING, which waits for nobody and locks nothing.
UpsertWalletUnlocked(w) ==
    /\ wpc[w] = "wallet"
    /\ wpc' = [wpc EXCEPT ![w] = "clock"]
    /\ UNCHANGED <<dbVars, clock, job, stamp, saves, readerVars>>

\* INSERT INTO wallets ... ON CONFLICT DO UPDATE: waits for a transaction that has the row.
UpsertWallet(w) ==
    LET c == CreatorOf[job[w]]  IN
    /\ wpc[w] = "wallet" /\ walletLock[c] = None
    /\ walletLock' = [walletLock EXCEPT ![c] = w]
    /\ wpc' = [wpc EXCEPT ![w] = "clock"]
    /\ UNCHANGED <<row, at, rowLock, clock, job, stamp, saves, readerVars>>

\* time.Now(), an argument of the second statement.
ReadClock(w) ==
    /\ wpc[w] = "clock"
    /\ clock' = clock + 1
    /\ stamp' = [stamp EXCEPT ![w] = clock + 1]
    /\ wpc' = [wpc EXCEPT ![w] = "analysis"]
    /\ UNCHANGED <<dbVars, job, saves, readerVars>>

\* Mutant: the new verdict is written through to Redis before the commit.
UpsertAnalysisCached(w) ==
    /\ wpc[w] = "analysis" /\ rowLock = None
    /\ rowLock' = w
    /\ cache' = job[w]
    /\ wpc' = [wpc EXCEPT ![w] = "commit"]
    /\ UNCHANGED <<row, at, walletLock, clock, job, stamp, saves, rpc, hand>>

UpsertAnalysis(w) ==
    /\ wpc[w] = "analysis" /\ rowLock = None
    /\ rowLock' = w
    /\ wpc' = [wpc EXCEPT ![w] = "commit"]
    /\ UNCHANGED <<row, at, walletLock, clock, job, stamp, saves, readerVars>>

EndSave(w) ==
    /\ Released(w)
    /\ wpc' = [wpc EXCEPT ![w] = "idle"]
    /\ job' = [job EXCEPT ![w] = None]
    /\ stamp' = [stamp EXCEPT ![w] = 0]
    /\ UNCHANGED <<clock, saves, readerVars>>

\* The analysis replaces whatever the row held.  A lost reply is an error of SaveAnalysis
\* all the same; the message is nacked and analysed again.
CommitAnalysis(w) ==
    /\ wpc[w] = "commit"
    /\ row' = job[w] /\ at' = stamp[w]
    /\ EndSave(w)

\* Mutant: without the deferred Rollback the transaction stays open.
SaveFailsOpen(w) ==
    /\ Faults
    /\ wpc[w] \in {"wallet", "analysis", "commit"}
    /\ wpc' = [wpc EXCEPT ![w] = "idle"]
    /\ job' = [job EXCEPT ![w] = None]
    /\ stamp' = [stamp EXCEPT ![w] = 0]
    /\ UNCHANGED <<dbVars, clock, saves, readerVars>>

\* A statement or the COMMIT fails: the deferred Rollback ends the transaction.
SaveFails(w) ==
    /\ Faults
    /\ wpc[w] \in {"wallet", "analysis", "commit"}
    /\ EndSave(w)
    /\ UNCHANGED <<row, at>>
-----------------------------------------------------------------------------
\* Every reader's step but these leaves Postgres and the writers alone.
Goto(r, l) ==
    /\ rpc' = [rpc EXCEPT ![r] = l]
    /\ UNCHANGED <<dbVars, writerVars>>

\* A teaser at once, a full answer when CheckAccess has granted it.
Ask(r) ==
    /\ rpc[r] = "idle"
    /\ Goto(r, "get")
    /\ UNCHANGED <<cache, hand>>

\* Mutant: a hit writes the entry back and so extends its life.
CacheHitRefreshed(r) ==
    /\ rpc[r] = "get" /\ cache # None
    /\ hand' = [hand EXCEPT ![r] = cache]
    /\ Goto(r, "fill")
    /\ UNCHANGED cache

CacheHit(r) ==
    /\ rpc[r] = "get" /\ cache # None
    /\ hand' = [hand EXCEPT ![r] = cache]
    /\ Goto(r, "told")
    /\ UNCHANGED cache

\* No entry, one that does not decode, or a Redis error: the database is asked.
CacheMiss(r) ==
    /\ rpc[r] = "get" /\ (cache = None \/ Faults)
    /\ Goto(r, "select")
    /\ UNCHANGED <<cache, hand>>

ReadRow(r) ==
    /\ rpc[r] = "select" /\ row # None
    /\ hand' = [hand EXCEPT ![r] = row]
    /\ Goto(r, "fill")
    /\ UNCHANGED cache

\* Mutant: "not found" is cached like an answer.
NotFoundCached(r) ==
    /\ rpc[r] = "select" /\ row = None
    /\ hand' = [hand EXCEPT ![r] = "nothing"]
    /\ cache' = "nothing"
    /\ Goto(r, "told")

\* ErrNoRows: "analysis not found", which is not cached.
NotFound(r) ==
    /\ rpc[r] = "select" /\ row = None
    /\ hand' = [hand EXCEPT ![r] = "nothing"]
    /\ Goto(r, "told")
    /\ UNCHANGED cache

ReadFails(r) ==
    /\ Faults
    /\ rpc[r] = "select"
    /\ hand' = [hand EXCEPT ![r] = "error"]
    /\ Goto(r, "told")
    /\ UNCHANGED cache

\* SET for five minutes; its failure is only logged.
Fill(r) ==
    /\ rpc[r] = "fill"
    /\ cache' = hand[r] \/ (Faults /\ cache' = cache)
    /\ Goto(r, "told")
    /\ UNCHANGED hand

\* The handler writes its response: 200, 404 or 500.
Respond(r) ==
    /\ rpc[r] = "told"
    /\ hand' = [hand EXCEPT ![r] = None]
    /\ Goto(r, "idle")
    /\ UNCHANGED cache

Expire ==
    /\ cache # None
    /\ cache' = None
    /\ UNCHANGED <<dbVars, writerVars, rpc, hand>>

\* The process dies: open transactions roll back, rows and keys stay.
Crash ==
    /\ Faults
    /\ walletLock' = [c \in Creators |-> None] /\ rowLock' = None
    /\ wpc' = [w \in Writers |-> "idle"]
    /\ job' = [w \in Writers |-> None] /\ stamp' = [w \in Writers |-> 0]
    /\ rpc' = [r \in Readers |-> "idle"] /\ hand' = [r \in Readers |-> None]
    /\ UNCHANGED <<row, at, clock, saves, cache>>
-----------------------------------------------------------------------------
SaveAnalysis(w) ==
    \/ UpsertWallet(w) \/ ReadClock(w) \/ UpsertAnalysis(w) \/ CommitAnalysis(w)
    \/ SaveFails(w)

GetAnalysis(r) ==
    \/ CacheHit(r) \/ CacheMiss(r) \/ ReadRow(r) \/ NotFound(r) \/ ReadFails(r)
    \/ Fill(r) \/ Respond(r)

Next ==
    \/ \E w \in Writers, a \in Analyses : BeginSave(w, a)
    \/ \E w \in Writers : SaveAnalysis(w)
    \/ \E r \in Readers : Ask(r) \/ GetAnalysis(r)
    \/ Expire \/ Crash

Safety == Init /\ [][Next]_vars

\* A call that waits for nobody returns, a lock that is let go of again and again is
\* granted to everybody who waits for it, and Redis drops an entry when its time has
\* come.  Nothing has to fail: a wait for a lock has no time limit of its own.
Fairness ==
    /\ \A w \in Writers : SF_vars(UpsertWallet(w)) /\ SF_vars(UpsertAnalysis(w))
    /\ \A w \in Writers : WF_vars(ReadClock(w)) /\ WF_vars(CommitAnalysis(w))
    /\ \A r \in Readers : WF_vars(GetAnalysis(r))
    /\ WF_vars(Expire)

Spec == Safety /\ Fairness
-----------------------------------------------------------------------------
(***************************************************************************)
(* Properties                                                              *)
(***************************************************************************)
Answers == Analyses \cup {"nothing", "error"}

TypeOK ==
    /\ row \in Analyses \cup {None} /\ at \in Nat
    /\ walletLock \in [Creators -> Writers \cup {None}]
    /\ rowLock \in Writers \cup {None}
    /\ clock \in Nat
    /\ wpc \in [Writers -> {"idle", "wallet", "clock", "analysis", "commit"}]
    /\ job \in [Writers -> Analyses \cup {None}]
    /\ stamp \in [Writers -> Nat]
    /\ saves \in Nat
    /\ cache \in Analyses \cup {None}
    /\ rpc \in [Readers -> {"idle", "get", "select", "fill", "told"}]
    /\ hand \in [Readers -> Answers \cup {None}]

\* processed_at only goes back when the analysis of a message that named another creator
\* is replaced: saves for one creator wait for each other at the wallet before they read
\* the clock.
ProcessedInOrder ==
    [][at' < at => CreatorOf[row'] # CreatorOf[row]]_vars

\* Readers are told the row, or an analysis that the cache or an overlapping look-up
\* still had; a replaced one is not told again once they have let go of it, and "not
\* found" is never told of a token that has been analysed.
Current == {row} \ {None}
Held == Current \cup ({cache} \ {None}) \cup {hand[r] : r \in {q \in Readers : rpc[q] = "fill"}}
Told == [r \in Readers |-> IF rpc[r] = "told" THEN hand[r] ELSE "unasked"]
Store == INSTANCE LookAside WITH
    Values <- Analyses, Fallbacks <- {"error"},
    current <- Current, held <- Held, told <- Told
ServesStore == Store!Spec

\* No save waits for ever, whatever becomes of the others: a transaction that fails lets
\* go of the creator's row.
SavesEnd == \A w \in Writers : wpc[w] # "idle" ~> wpc[w] = "idle"

\* When the saves are over, every reader is told the last of them in the end, although no
\* save touches the cache.
ReadersCatchUp == <>[](Held = Current)
=============================================================================
