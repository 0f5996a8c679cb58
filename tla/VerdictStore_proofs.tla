------------------------- MODULE VerdictStore_proofs -------------------------
(***************************************************************************)
(* Proofs about VerdictStore, for any number of analyses, creators,        *)
(* writers, readers and saves.                                             *)
(***************************************************************************)
EXTENDS VerdictStore, TLAPS

\* A writer inside a save has an analysis, a reader that fills the cache has one too, and
\* CreatorOf gives each analysis its creator.
Typed ==
    /\ TypeOK
    /\ \A w \in Writers : wpc[w] # "idle" => job[w] \in Analyses
    /\ \A r \in Readers : rpc[r] = "fill" => hand[r] \in Analyses
    /\ \A r \in Readers : rpc[r] = "told" => hand[r] \in Answers

\* Typed holds initially.
LEMMA TypedInit == Init => Typed
  BY DEF Init, Typed, TypeOK, Answers, None

\* Releasing locks keeps their types.
LEMMA ReleasedType ==
    ASSUME TypeOK, NEW w \in Writers, Released(w)
    PROVE  /\ walletLock' \in [Creators -> Writers \cup {None}]
           /\ rowLock' \in Writers \cup {None}
  BY DEF TypeOK, Released

\* A step of a writer keeps Typed.
LEMMA WriterTyped ==
    ASSUME Typed, NEW w \in Writers,
           SaveAnalysis(w) \/ \E a \in Analyses : BeginSave(w, a)
    PROVE  Typed'
<1> USE DEF Typed
<1>1. ASSUME NEW a \in Analyses, BeginSave(w, a) PROVE Typed'
  BY <1>1 DEF BeginSave, TypeOK, dbVars, readerVars
<1>2. CASE UpsertWallet(w)
  BY <1>2 DEF UpsertWallet, TypeOK, readerVars
<1>3. CASE ReadClock(w)
  BY <1>3 DEF ReadClock, TypeOK, dbVars, readerVars
<1>4. CASE UpsertAnalysis(w)
  BY <1>4 DEF UpsertAnalysis, TypeOK, readerVars
<1>5. ASSUME EndSave(w), row' \in Analyses \cup {None}, at' \in Nat PROVE Typed'
  BY <1>5, ReleasedType DEF EndSave, TypeOK, readerVars
<1>6. CASE CommitAnalysis(w)
  BY <1>5, <1>6 DEF CommitAnalysis, TypeOK
<1>7. CASE SaveFails(w)
  BY <1>5, <1>7 DEF SaveFails, TypeOK
<1> QED
  BY <1>1, <1>2, <1>3, <1>4, <1>6, <1>7 DEF SaveAnalysis

\* A step of a reader keeps Typed.
LEMMA ReaderTyped ==
    ASSUME Typed, NEW r \in Readers, Ask(r) \/ GetAnalysis(r)
    PROVE  Typed'
<1> USE DEF Typed, TypeOK, Goto, dbVars, writerVars, Answers
<1>1. CASE Ask(r)
  BY <1>1 DEF Ask
<1>2. CASE CacheHit(r)
  BY <1>2, NameAssumption DEF CacheHit
<1>3. CASE CacheMiss(r)
  BY <1>3 DEF CacheMiss
<1>4. CASE ReadRow(r)
  BY <1>4 DEF ReadRow
<1>5. CASE NotFound(r)
  BY <1>5 DEF NotFound
<1>6. CASE ReadFails(r)
  BY <1>6 DEF ReadFails
<1>7. CASE Fill(r)
  BY <1>7 DEF Fill
<1>8. CASE Respond(r)
  BY <1>8 DEF Respond
<1> QED
  BY <1>1, <1>2, <1>3, <1>4, <1>5, <1>6, <1>7, <1>8 DEF GetAnalysis

\* Typed is inductive.
LEMMA TypedStep == Typed /\ [Next]_vars => Typed'
<1> SUFFICES ASSUME Typed, [Next]_vars PROVE Typed'
  OBVIOUS
<1>1. CASE UNCHANGED vars
  BY <1>1 DEF vars, dbVars, writerVars, readerVars, Typed, TypeOK
<1>2. CASE Expire
  BY <1>2 DEF Expire, dbVars, writerVars, Typed, TypeOK
<1>3. CASE Crash
  BY <1>3 DEF Crash, Typed, TypeOK
<1> QED
  BY <1>1, <1>2, <1>3, WriterTyped, ReaderTyped DEF Next

\* Typed holds.
LEMMA TypedHolds == Safety => []Typed
  BY TypedInit, TypedStep, PTL DEF Safety

\* Rows, locks, keys and goroutines keep their types; only answers are ever cached.
THEOREM TypeCorrect == Safety => []TypeOK
<1>1. Typed => TypeOK
  BY DEF Typed
<1> QED
  BY <1>1, TypedHolds, PTL
-----------------------------------------------------------------------------
(***************************************************************************)
(* The order of processed_at.  A writer that has read its clock holds its  *)
(* creator's row, so nobody has committed for that creator since.          *)
(***************************************************************************)
Stamped(w) == wpc[w] \in {"analysis", "commit"}

OrderInv ==
    /\ row = None => at = 0
    /\ at <= clock
    /\ \A w \in Writers : wpc[w] \in {"clock", "analysis", "commit"}
                            => walletLock[CreatorOf[job[w]]] = w
    /\ \A w \in Writers : Stamped(w) => stamp[w] <= clock
    /\ \A w \in Writers : Stamped(w) /\ row # None /\ CreatorOf[row] = CreatorOf[job[w]]
                            => at <= stamp[w]

\* Every analysis names one of the creators.
LEMMA CreatorType == \A a \in Analyses : CreatorOf[a] \in Creators
  BY DEF Creators

\* OrderInv holds initially.
LEMMA OrderInit == Init => OrderInv
  BY DEF Init, OrderInv, Stamped

\* The steps that end a save keep OrderInv.
LEMMA EndOrder ==
    ASSUME Typed, OrderInv, NEW w \in Writers, CommitAnalysis(w) \/ SaveFails(w)
    PROVE  OrderInv'
<1> USE DEF Typed
<1>t. /\ at \in Nat /\ clock \in Nat /\ \A u \in Writers : stamp[u] \in Nat
      /\ wpc[w] # "idle" /\ job[w] \in Analyses
  BY DEF TypeOK, CommitAnalysis, SaveFails
<1>1. EndSave(w)
  BY DEF CommitAnalysis, SaveFails
<1>2. wpc'[w] = "idle" /\ clock' = clock
  BY <1>1 DEF EndSave, TypeOK
<1>3. \A u \in Writers \ {w} : wpc'[u] = wpc[u] /\ job'[u] = job[u] /\ stamp'[u] = stamp[u]
  BY <1>1 DEF EndSave, TypeOK
<1>4. ASSUME NEW u \in Writers, wpc'[u] \in {"clock", "analysis", "commit"}
      PROVE  walletLock'[CreatorOf[job'[u]]] = u
  <2>1. u # w /\ wpc[u] = wpc'[u] /\ job'[u] = job[u]
    BY <1>2, <1>3, <1>4
  <2>2. walletLock[CreatorOf[job[u]]] = u /\ CreatorOf[job[u]] \in Creators
    BY <1>4, <2>1, CreatorType DEF OrderInv
  <2> QED
    BY <1>1, <2>1, <2>2 DEF EndSave, Released
<1>5. ASSUME NEW u \in Writers, Stamped(u)'
      PROVE  u # w /\ Stamped(u) /\ stamp'[u] = stamp[u] /\ job'[u] = job[u]
  BY <1>2, <1>3, <1>5 DEF Stamped
<1>6. CASE SaveFails(w)
  BY <1>2, <1>4, <1>5, <1>6 DEF SaveFails, OrderInv
<1>7. CASE CommitAnalysis(w)
  <2>1. row' = job[w] /\ at' = stamp[w] /\ row' # None /\ stamp[w] <= clock
    BY <1>7, <1>t, NameAssumption DEF CommitAnalysis, OrderInv, Stamped
  <2>2. ASSUME NEW u \in Writers, Stamped(u)' PROVE CreatorOf[row'] # CreatorOf[job'[u]]
    <3>1. walletLock[CreatorOf[job[w]]] = w /\ walletLock[CreatorOf[job[u]]] = u /\ u # w
      BY <1>5, <1>7, <2>2 DEF CommitAnalysis, OrderInv, Stamped
    <3> QED
      BY <1>5, <2>1, <2>2, <3>1
  <2> QED
    BY <1>2, <1>4, <1>5, <2>1, <2>2 DEF OrderInv
<1> QED
  BY <1>6, <1>7

\* OrderInv is inductive.
LEMMA OrderStep == Typed /\ OrderInv /\ [Next]_vars => OrderInv'
<1> SUFFICES ASSUME Typed, OrderInv, [Next]_vars PROVE OrderInv'
  OBVIOUS
<1> USE DEF Typed
<1>t. at \in Nat /\ clock \in Nat /\ \A u \in Writers : stamp[u] \in Nat
  BY DEF TypeOK
<1>1. ASSUME UNCHANGED <<dbVars, writerVars>> PROVE OrderInv'
  BY <1>1 DEF dbVars, writerVars, OrderInv, Stamped
<1>2. ASSUME NEW w \in Writers, NEW a \in Analyses, BeginSave(w, a) PROVE OrderInv'
  BY <1>2 DEF BeginSave, dbVars, OrderInv, Stamped, TypeOK
<1>3. ASSUME NEW w \in Writers, UpsertWallet(w) PROVE OrderInv'
  <2>1. CreatorOf[job[w]] \in Creators /\ walletLock[CreatorOf[job[w]]] = None
    BY <1>3, CreatorType DEF UpsertWallet
  <2>2. \A u \in Writers : wpc'[u] \in {"clock", "analysis", "commit"}
                             => walletLock'[CreatorOf[job'[u]]] = u
    BY <1>3, <2>1, NameAssumption DEF UpsertWallet, OrderInv, TypeOK
  <2>3. \A u \in Writers : Stamped(u)' => Stamped(u)
    BY <1>3 DEF UpsertWallet, Stamped, TypeOK
  <2> QED
    BY <1>3, <2>2, <2>3 DEF UpsertWallet, OrderInv
<1>4. ASSUME NEW w \in Writers, ReadClock(w) PROVE OrderInv'
  <2>1. /\ clock' = clock + 1 /\ stamp'[w] = clock + 1
        /\ row' = row /\ at' = at /\ job' = job /\ walletLock' = walletLock
    BY <1>4 DEF ReadClock, TypeOK, dbVars
  <2>2. \A u \in Writers \ {w} : wpc'[u] = wpc[u] /\ stamp'[u] = stamp[u]
    BY <1>4 DEF ReadClock, TypeOK
  <2>3. wpc[w] = "clock"
    BY <1>4 DEF ReadClock
  <2> QED
    BY <1>t, <2>1, <2>2, <2>3 DEF OrderInv, Stamped
<1>5. ASSUME NEW w \in Writers, UpsertAnalysis(w) PROVE OrderInv'
  BY <1>5 DEF UpsertAnalysis, OrderInv, Stamped, TypeOK
<1>6. CASE Crash
  BY <1>6 DEF Crash, OrderInv, Stamped
<1>7. ASSUME NEW r \in Readers, Ask(r) \/ GetAnalysis(r) PROVE OrderInv'
  BY <1>1, <1>7 DEF Ask, GetAnalysis, CacheHit, CacheMiss, ReadRow, NotFound, ReadFails,
                    Fill, Respond, Goto
<1>8. CASE Expire
  BY <1>1, <1>8 DEF Expire
<1>9. CASE UNCHANGED vars
  BY <1>1, <1>9 DEF vars
<1> QED
  BY <1>2, <1>3, <1>4, <1>5, <1>6, <1>7, <1>8, <1>9, EndOrder DEF Next, SaveAnalysis

\* processed_at goes back only when the replaced analysis named another creator: the lock
\* on the creator's row orders the clocks of the saves that name him.
THEOREM OrderSafe == Safety => ProcessedInOrder
<1>1. ASSUME Typed, OrderInv, Next, at' < at PROVE CreatorOf[row'] # CreatorOf[row]
  <2>t. at \in Nat /\ \A u \in Writers : stamp[u] \in Nat
    BY <1>1 DEF Typed, TypeOK
  <2>1. PICK w \in Writers : CommitAnalysis(w)
    BY <1>1, <2>t DEF Next, SaveAnalysis, BeginSave, UpsertWallet, ReadClock, UpsertAnalysis,
          SaveFails, Ask, GetAnalysis, CacheHit, CacheMiss, ReadRow, NotFound, ReadFails, Fill,
          Respond, Goto, Expire, Crash, dbVars
  <2>2. row' = job[w] /\ at' = stamp[w] /\ Stamped(w)
    BY <2>1 DEF CommitAnalysis, Stamped
  <2>3. row # None
    BY <1>1, <2>t, <2>2 DEF OrderInv
  <2> QED
    BY <1>1, <2>t, <2>2, <2>3 DEF OrderInv
<1>2. Typed /\ OrderInv /\ [Next]_vars => [at' < at => CreatorOf[row'] # CreatorOf[row]]_vars
  BY <1>1
<1> QED
  BY <1>2, OrderInit, OrderStep, TypedHolds, PTL DEF Safety, ProcessedInOrder
-----------------------------------------------------------------------------
(***************************************************************************)
(* The locks.  A writer waits for the creator's row before it has any lock *)
(* and for the token's row when it has the creator's, so those who hold    *)
(* the token's row wait for nobody; and no lock outlives its transaction.  *)
(***************************************************************************)
\* The writer whose transaction w's next statement waits for, or None.
BlockedBy(w) ==
    IF w = None THEN None
    ELSE IF wpc[w] = "wallet" THEN walletLock[CreatorOf[job[w]]]
    ELSE IF wpc[w] = "analysis" THEN rowLock ELSE None

MayGoOn(w) == w \in Writers /\ wpc[w] # "idle" /\ BlockedBy(w) = None

\* Whoever waits for a lock waits for a save that may go on, or for one that waits for a
\* save that may: no circle of transactions, and no lock that nobody lets go of.
NoDeadlock ==
    \A w \in Writers : wpc[w] # "idle" =>
        \E u \in {w, BlockedBy(w), BlockedBy(BlockedBy(w))} : MayGoOn(u)

\* A lock is held by a transaction that is past the statement that took it.
LockInv ==
    /\ \A c \in Creators : walletLock[c] # None
                             => wpc[walletLock[c]] \in {"clock", "analysis", "commit"}
    /\ rowLock # None => wpc[rowLock] = "commit"

\* The steps that end a save keep LockInv: they release what the writer holds.
LEMMA EndLocks ==
    ASSUME Typed, LockInv, NEW w \in Writers, EndSave(w)
    PROVE  LockInv'
<1>1. \A u \in Writers \ {w} : wpc'[u] = wpc[u]
  BY DEF EndSave, Typed, TypeOK
<1>2. ASSUME NEW c \in Creators, walletLock'[c] # None
      PROVE  wpc'[walletLock'[c]] \in {"clock", "analysis", "commit"}
  <2>1. walletLock'[c] = walletLock[c] /\ walletLock[c] \in Writers \ {w}
    BY <1>2 DEF EndSave, Released, Typed, TypeOK
  <2> QED
    BY <1>1, <1>2, <2>1 DEF LockInv
<1>3. ASSUME rowLock' # None PROVE wpc'[rowLock'] = "commit"
  <2>1. rowLock' = rowLock /\ rowLock \in Writers \ {w}
    BY <1>3 DEF EndSave, Released, Typed, TypeOK
  <2> QED
    BY <1>1, <1>3, <2>1 DEF LockInv
<1> QED
  BY <1>2, <1>3 DEF LockInv

\* LockInv is inductive.
LEMMA LockStep == Typed /\ LockInv /\ [Next]_vars => LockInv'
<1> SUFFICES ASSUME Typed, LockInv, [Next]_vars PROVE LockInv'
  OBVIOUS
<1>t. /\ walletLock \in [Creators -> Writers \cup {None}]
      /\ rowLock \in Writers \cup {None}
      /\ wpc \in [Writers -> {"idle", "wallet", "clock", "analysis", "commit"}]
  BY DEF Typed, TypeOK
<1>1. ASSUME UNCHANGED <<walletLock, rowLock, wpc>> PROVE LockInv'
  BY <1>1 DEF LockInv
<1>2. ASSUME NEW w \in Writers, NEW a \in Analyses, BeginSave(w, a) PROVE LockInv'
  BY <1>t, <1>2 DEF BeginSave, LockInv, dbVars
<1>3. ASSUME NEW w \in Writers, UpsertWallet(w) PROVE LockInv'
  BY <1>t, <1>3 DEF UpsertWallet, LockInv
<1>4. ASSUME NEW w \in Writers, ReadClock(w) PROVE LockInv'
  BY <1>t, <1>4 DEF ReadClock, LockInv, dbVars
<1>5. ASSUME NEW w \in Writers, UpsertAnalysis(w) PROVE LockInv'
  BY <1>t, <1>5 DEF UpsertAnalysis, LockInv
<1>6. ASSUME NEW w \in Writers, CommitAnalysis(w) \/ SaveFails(w) PROVE LockInv'
  BY <1>6, EndLocks DEF CommitAnalysis, SaveFails
<1>7. CASE Crash
  BY <1>7 DEF Crash, LockInv
<1>8. ASSUME NEW r \in Readers, Ask(r) \/ GetAnalysis(r) PROVE LockInv'
  BY <1>1, <1>8 DEF Ask, GetAnalysis, CacheHit, CacheMiss, ReadRow, NotFound, ReadFails,
                    Fill, Respond, Goto, dbVars, writerVars
<1>9. CASE Expire \/ UNCHANGED vars
  BY <1>1, <1>9 DEF Expire, vars, dbVars, writerVars
<1> QED
  BY <1>2, <1>3, <1>4, <1>5, <1>6, <1>7, <1>8, <1>9 DEF Next, SaveAnalysis

\* The saves of several goroutines never wait for each other in a circle, whatever fails
\* and wherever the process dies: the safety half of SavesEnd, without its fairness.
THEOREM DeadlockFree == Safety => []NoDeadlock
<1>1. Init => LockInv
  BY DEF Init, LockInv
<1>2. ASSUME Typed, LockInv PROVE NoDeadlock
  <2> USE NameAssumption
  <2> SUFFICES ASSUME NEW w \in Writers, wpc[w] # "idle"
               PROVE  \E u \in {w, BlockedBy(w), BlockedBy(BlockedBy(w))} : MayGoOn(u)
    BY DEF NoDeadlock
  <2>1. ASSUME NEW u \in Writers, wpc[u] \in {"clock", "commit"} PROVE MayGoOn(u)
    BY <2>1 DEF MayGoOn, BlockedBy
  <2>2. ASSUME NEW u \in Writers, wpc[u] = "analysis"
        PROVE  MayGoOn(u) \/ MayGoOn(BlockedBy(u))
    <3>1. CASE rowLock = None
      BY <2>2, <3>1 DEF MayGoOn, BlockedBy
    <3>2. CASE rowLock # None
      <4>1. rowLock \in Writers /\ wpc[rowLock] = "commit" /\ BlockedBy(u) = rowLock
        BY <1>2, <2>2, <3>2 DEF Typed, TypeOK, LockInv, BlockedBy
      <4> QED
        BY <2>1, <4>1
    <3> QED
      BY <3>1, <3>2
  <2>3. CASE wpc[w] = "wallet"
    <3>1. CASE BlockedBy(w) = None
      BY <2>3, <3>1 DEF MayGoOn
    <3>2. CASE BlockedBy(w) # None
      <4>1. CreatorOf[job[w]] \in Creators
        BY <1>2, CreatorType DEF Typed
      <4>2. /\ BlockedBy(w) \in Writers
            /\ wpc[BlockedBy(w)] \in {"clock", "analysis", "commit"}
        BY <1>2, <2>3, <3>2, <4>1 DEF Typed, TypeOK, LockInv, BlockedBy
      <4> QED
        BY <2>1, <2>2, <4>2
    <3> QED
      BY <3>1, <3>2
  <2>4. wpc[w] \in {"wallet", "clock", "analysis", "commit"}
    BY <1>2 DEF Typed, TypeOK
  <2> QED
    BY <2>1, <2>2, <2>3, <2>4
<1> QED
  BY <1>1, <1>2, LockStep, TypedHolds, PTL DEF Safety
-----------------------------------------------------------------------------
(***************************************************************************)
(* The refinement of LookAside.                                            *)
(***************************************************************************)
\* A step that leaves what is current alone, lets go of what it likes, and tells nobody
\* anything new is a step of LookAside.
LEMMA Leaves ==
    ASSUME Current' = Current, Current \subseteq Held', Held' \subseteq Held,
           \A r \in Readers : Told'[r] \in {Told[r], "unasked"}
    PROVE  Store!Next
<1> DEFINE S == {r \in Readers : Told'[r] = "unasked"}
<1>1. Told' = [r \in Readers |-> IF r \in S THEN "unasked" ELSE Told[r]]
  BY DEF Told
<1>2. S \in SUBSET Readers
  OBVIOUS
<1>3. Store!Leave(S)
  BY <1>1 DEF Store!Leave, Store!Forget
<1> QED
  BY <1>2, <1>3 DEF Store!Next

\* So is one that tells a reader what is held, or what stands for no value.
LEMMA Tells ==
    ASSUME NEW r \in Readers, NEW a \in Answers, Current' = Current,
           Current \subseteq Held', Held' \subseteq Held,
           a \in Held \cup {"error"} \cup (IF Current = {} THEN {"nothing"} ELSE {}),
           Told' = [Told EXCEPT ![r] = a]
    PROVE  Store!Next
<1>1. Store!Tell(r, a)
  BY DEF Store!Tell, Store!Forget
<1>2. a \in Analyses \cup {"error"} \cup {"nothing"}
  BY DEF Answers
<1> QED
  BY <1>1, <1>2 DEF Store!Next

\* What is current is held.
LEMMA CurrentHeld == Current \subseteq Held
  BY DEF Held

\* Nobody is told anything new by a step that leaves the readers alone.
LEMMA QuietStep ==
    ASSUME UNCHANGED <<row, readerVars>>
    PROVE  Store!Next
<1>1. Current' = Current /\ Held' = Held /\ Told' = Told
  BY DEF readerVars, Current, Held, Told
<1> QED
  BY <1>1, CurrentHeld, Leaves

\* A commit changes what is current.
LEMMA CommitStep ==
    ASSUME NEW w \in Writers, Typed, CommitAnalysis(w)
    PROVE  Store!Next
<1>1. row' \in Analyses /\ UNCHANGED readerVars
  BY DEF CommitAnalysis, EndSave, Typed
<1>2. Current' \subseteq Analyses
  BY <1>1 DEF Current
<1>3. Told' = Told
  BY <1>1 DEF readerVars, Told
<1>4. Current' \subseteq Held' /\ Held' \subseteq Held \cup Current'
  BY <1>1 DEF readerVars, Held, Current
<1> QED
  BY <1>2, <1>3, <1>4 DEF Store!Next, Store!Change

\* Each call of a look-up is a step of LookAside.
LEMMA ReaderStep ==
    ASSUME NEW r \in Readers, Typed, Ask(r) \/ GetAnalysis(r)
    PROVE  Store!Next
<1> USE DEF Typed, Goto
<1>t. /\ rpc \in [Readers -> {"idle", "get", "select", "fill", "told"}]
      /\ hand \in [Readers -> Answers \cup {None}]
      /\ row \in Analyses \cup {None} /\ cache \in Analyses \cup {None}
  BY DEF TypeOK
<1>r. row' = row /\ Current' = Current
  BY DEF Ask, GetAnalysis, CacheHit, CacheMiss, ReadRow, NotFound, ReadFails, Fill, Respond,
         dbVars, Current
<1>o. \A q \in Readers \ {r} : rpc'[q] = rpc[q] /\ hand'[q] = hand[q]
  BY <1>t DEF Ask, GetAnalysis, CacheHit, CacheMiss, ReadRow, NotFound, ReadFails, Fill,
              Respond
<1>1. ASSUME rpc'[r] \notin {"fill"}, cache' = cache PROVE Held' \subseteq Held
  <2>1. \A q \in Readers : rpc'[q] = "fill" => rpc[q] = "fill" /\ hand'[q] = hand[q]
    BY <1>1, <1>o
  <2> QED
    BY <1>1, <1>r, <2>1 DEF Held
<1>2. ASSUME rpc'[r] # "told" PROVE \A q \in Readers : Told'[q] \in {Told[q], "unasked"}
  BY <1>2, <1>o DEF Told
<1>3. ASSUME rpc'[r] = "told" PROVE Told' = [Told EXCEPT ![r] = hand'[r]]
  BY <1>3, <1>o DEF Told
<1>4. CASE Ask(r) \/ CacheMiss(r) \/ Respond(r)
  <2>1. rpc'[r] \notin {"fill", "told"} /\ cache' = cache
    BY <1>4, <1>t DEF Ask, CacheMiss, Respond
  <2> QED
    BY <1>r, <1>1, <1>2, <2>1, Leaves DEF Held
<1>5. CASE CacheHit(r)
  <2>1. rpc'[r] = "told" /\ cache' = cache /\ hand'[r] = cache /\ cache \in Analyses
    BY <1>5, <1>t DEF CacheHit
  <2>2. cache \in Held /\ cache \in Answers
    BY <2>1, <1>5 DEF Held, CacheHit, Answers
  <2> QED
    BY <1>r, <1>1, <1>3, <2>1, <2>2, Tells DEF Held
<1>6. CASE ReadRow(r)
  <2>1. rpc'[r] = "fill" /\ cache' = cache /\ hand'[r] = row /\ row # None
    BY <1>6, <1>t DEF ReadRow
  <2>2. Held' \subseteq Held
    BY <1>o, <1>r, <2>1 DEF Held, Current
  <2> QED
    BY <1>r, <1>2, <2>1, <2>2, Leaves DEF Held
<1>7. CASE NotFound(r)
  <2>1. rpc'[r] = "told" /\ cache' = cache /\ hand'[r] = "nothing" /\ Current = {}
    BY <1>7, <1>t DEF NotFound, Current
  <2> QED
    BY <1>r, <1>1, <1>3, <2>1, Tells DEF Held, Answers
<1>8. CASE ReadFails(r)
  <2>1. rpc'[r] = "told" /\ cache' = cache /\ hand'[r] = "error"
    BY <1>8, <1>t DEF ReadFails
  <2> QED
    BY <1>r, <1>1, <1>3, <2>1, Tells DEF Held, Answers
<1>9. CASE Fill(r)
  <2>1. /\ rpc[r] = "fill" /\ rpc'[r] = "told" /\ hand'[r] = hand[r]
        /\ cache' \in {hand[r], cache}
    BY <1>9, <1>t DEF Fill
  <2>2. hand[r] \in Held /\ hand[r] \in Analyses /\ hand[r] \in Answers
    BY <2>1 DEF Held, Answers
  <2>3. \A q \in Readers : rpc'[q] = "fill" => rpc[q] = "fill" /\ hand'[q] = hand[q]
    BY <1>o, <2>1
  <2>4. Held' \subseteq Held
    BY <1>r, <2>1, <2>2, <2>3 DEF Held
  <2> QED
    BY <1>r, <1>3, <2>1, <2>2, <2>4, Tells DEF Held
<1> QED
  BY <1>4, <1>5, <1>6, <1>7, <1>8, <1>9 DEF GetAnalysis

\* Every step of the store is one of LookAside.
LEMMA StoreStep == Typed /\ [Next]_vars => [Store!Next]_(Store!vars)
<1> SUFFICES ASSUME Typed, Next PROVE Store!Next
  <2>1. CASE UNCHANGED vars
    BY <2>1 DEF vars, dbVars, readerVars, Store!vars, Current, Held, Told
  <2> QED
    BY <2>1
<1>1. ASSUME NEW w \in Writers, NEW a \in Analyses, BeginSave(w, a) PROVE Store!Next
  BY <1>1, QuietStep DEF BeginSave, dbVars
<1>2. ASSUME NEW w \in Writers,
             UpsertWallet(w) \/ ReadClock(w) \/ UpsertAnalysis(w) \/ SaveFails(w)
      PROVE  Store!Next
  BY <1>2, QuietStep DEF UpsertWallet, ReadClock, UpsertAnalysis, SaveFails, EndSave, dbVars
<1>3. CASE Expire
  <2>1. Current' = Current /\ Held' \subseteq Held /\ Told' = Told
    BY <1>3 DEF Expire, dbVars, Current, Held, Told
  <2>2. Current \subseteq Held'
    BY <2>1 DEF Held
  <2> QED
    BY <2>1, <2>2, Leaves
<1>4. CASE Crash
  <2>1. row' = row /\ cache' = cache /\ \A r \in Readers : rpc'[r] = "idle"
    BY <1>4 DEF Crash
  <2>2. Current' = Current /\ Held' \subseteq Held /\ Current \subseteq Held'
    BY <2>1 DEF Current, Held
  <2>3. \A r \in Readers : Told'[r] \in {Told[r], "unasked"}
    BY <2>1 DEF Told
  <2> QED
    BY <2>2, <2>3, Leaves
<1> QED
  BY <1>1, <1>2, <1>3, <1>4, CommitStep, ReaderStep DEF Next, SaveAnalysis

\* The store implements LookAside: a replaced verdict that cache and readers have let go
\* of is not told again, and no refusal outlives its reason.
THEOREM StoreRefined == Safety => ServesStore
<1>1. Init => Store!Init
  BY DEF Init, Store!Init, Current, Held, Told, None
<1> QED
  BY <1>1, StoreStep, TypedHolds, PTL DEF Safety, ServesStore, Store!Spec

\* Between two commits the answers that may still be told only dwindle: a replaced
\* verdict comes back from nowhere, so that ReadersCatchUp needs no more than that
\* entries expire and look-ups return.
THEOREM HeldOnlyDwindles == Safety => [][row' = row => Held' \subseteq Held]_vars
<1>1. ASSUME [Store!Next]_(Store!vars), row' = row PROVE Held' \subseteq Held
  <2>1. Current' = Current
    BY <1>1 DEF Current
  <2> QED
    BY <1>1, <2>1, CurrentHeld
       DEF Store!Next, Store!vars, Store!Change, Store!Leave, Store!Tell, Store!Forget
<1>2. [Next]_vars /\ Typed => [row' = row => Held' \subseteq Held]_vars
  BY <1>1, StoreStep
<1> QED
  BY <1>2, TypedHolds, PTL DEF Safety
=============================================================================
