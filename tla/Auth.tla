-------------------------------- MODULE Auth --------------------------------
(***************************************************************************)
(* One user before the router: DualAuthMiddleware                          *)
(* (internal/ingestor/middleware.go) with the API key it looks up in Redis *)
(* and Postgres (internal/repository/auth.go), GenerateAPIKey              *)
(* (internal/pay/service.go), and the handlers that keep the user's role   *)
(* in Postgres and at Clerk (internal/ingestor/handler.go).                *)
(*                                                                         *)
(* Abstractions.  One key of one user; IsProSubscriber, which has no       *)
(* effect, answers anything, and so does Clerk's verification of a JWT.    *)
(* GetQuotaRemaining, for a header, is in AccessGate, as are the handlers  *)
(* that Finish stands for.  Who revokes keys is outside this code.         *)
(***************************************************************************)
EXTENDS HttpServer, Naturals

CONSTANTS
    Roles,      \* trader, developer
    MaxChanges  \* bound on choices of a role

ASSUME RoleAssumption == {None, "unassigned"} \cap Roles = {} /\ MaxChanges \in Nat

VARIABLES
    key,        \* its row of api_keys: None, "active" or "revoked"
    keyCache,   \* TRUE iff Redis has the user under the key's hash
    pos,        \* pos[r]: the next call of request r, who it was let in as, or "idle"
    role,       \* users.role, None without a row
    clerkRole,  \* the role in Clerk's public metadata
    syncs,      \* syncs[x]: goroutines about to send role x to Clerk
    settled,    \* FALSE once syncs overlapped or failed since the last role was chosen
    changes     \* choices of a role so far

keyVars  == <<key, keyCache>>
roleVars == <<role, clerkRole, syncs, settled, changes>>
authVars == <<keyVars, pos, roleVars>>

InFlight == {x \in Roles : syncs[x] > 0}

AuthInit ==
    /\ key = None /\ keyCache = FALSE
    /\ pos = [r \in Requests |-> "idle"]
    /\ role = None /\ clerkRole = None
    /\ syncs = [x \in Roles |-> 0]
    /\ settled = TRUE
    /\ changes = 0

Goto(r, l) == pos' = [pos EXCEPT ![r] = l]
-----------------------------------------------------------------------------
\* DualAuthMiddleware.  A refusal that does not depend on what is modelled here (no or
\* bad credentials, a guest who asks for what needs a user) is answered at once.
\* A bearer token that Clerk verifies.
PresentToken(r) ==
    /\ pos[r] = "idle" /\ Goto(r, "member")
    /\ UNCHANGED <<keyVars, roleVars>>

\* No credentials but ?teaser=true: let in as guest_teaser.
PresentTeaser(r) ==
    /\ pos[r] = "idle" /\ Goto(r, "guest")
    /\ UNCHANGED <<keyVars, roleVars>>

\* Mutant: a hit is written back, so that the hour starts again.
KeyCachedRefreshed(r) ==
    /\ pos[r] = "idle" /\ keyCache
    /\ Goto(r, "fill")
    /\ UNCHANGED <<keyVars, roleVars>>

\* A request with X-API-KEY is decided by the key alone, first by Redis.
KeyCached(r) ==
    /\ pos[r] = "idle" /\ keyCache
    /\ Goto(r, "bot")
    /\ UNCHANGED <<keyVars, roleVars>>

\* No entry, or a Redis error: the database decides.
KeyNotCached(r) ==
    /\ pos[r] = "idle" /\ (~keyCache \/ Faults)
    /\ Goto(r, "select")
    /\ UNCHANGED <<keyVars, roleVars>>

\* Mutant: the status of the row is not looked at.
ReadKeyAnyStatus(r) ==
    /\ pos[r] = "select"
    /\ Goto(r, IF key # None THEN "fill" ELSE "refused")
    /\ UNCHANGED <<keyVars, roleVars>>

\* SELECT user_id, status: only an active key is let in; a refusal is not cached.
ReadKey(r) ==
    /\ pos[r] = "select"
    /\ Goto(r, IF key = "active" THEN "fill" ELSE "refused")
    /\ UNCHANGED <<keyVars, roleVars>>

\* 500, which says nothing about the key.
ReadKeyFails(r) ==
    /\ Faults
    /\ pos[r] = "select" /\ Goto(r, "idle")
    /\ UNCHANGED <<keyVars, roleVars>>

\* SET for an hour; its error is dropped.
FillKey(r) ==
    /\ pos[r] = "fill" /\ Goto(r, "bot")
    /\ keyCache' \in {TRUE} \cup (IF Faults THEN {keyCache} ELSE {})
    /\ UNCHANGED <<key, roleVars>>

\* The response of a refusal, or of a handler that is modelled elsewhere.
Finish(r) ==
    /\ pos[r] \in {"bot", "member", "guest", "refused"}
    /\ Goto(r, "idle")
    /\ UNCHANGED <<keyVars, roleVars>>

ExpireKey ==
    /\ keyCache /\ keyCache' = FALSE
    /\ UNCHANGED <<key, pos, roleVars>>

\* INSERT ... ON CONFLICT (api_key_hash) DO NOTHING.
SaveAPIKey == key' = IF key = None THEN "active" ELSE key

\* A pro subscriber gets the key, which is drawn once.
GenerateAPIKey ==
    /\ key = None /\ SaveAPIKey
    /\ UNCHANGED <<keyCache, pos, roleVars>>

RevokeKey ==
    /\ key = "active" /\ key' = "revoked"
    /\ UNCHANGED <<keyCache, pos, roleVars>>
-----------------------------------------------------------------------------
\* Handlers that want a user of their own, which a guest is not.
SignedIn(r) == pos[r] \in {"bot", "member"}

\* INSERT ... ON CONFLICT (id) DO UPDATE SET role.
UpsertRole(x) == role' = x

\* The goroutine that tells Clerk; the upsert and its start are one step, for it may
\* run at any later time.
StartSync(x) ==
    /\ syncs' = [syncs EXCEPT ![x] = @ + 1]
    /\ settled' = (InFlight = {})

\* Mutant: the goroutine is started although the role was not saved.
SaveUserRoleUnchecked(r, x) ==
    /\ SignedIn(r) /\ changes < MaxChanges
    /\ changes' = changes + 1
    /\ UpsertRole(x) \/ (Faults /\ role' = role)
    /\ StartSync(x)
    /\ Goto(r, "idle")
    /\ UNCHANGED <<keyVars, clerkRole>>

\* SaveUserRoleHandler.  When SaveUserRole returns an error, the role may have been
\* written all the same, and Clerk is not told.
SaveUserRole(r, x) ==
    /\ SignedIn(r) /\ changes < MaxChanges
    /\ changes' = changes + 1
    /\ \/ UpsertRole(x) /\ StartSync(x)
       \/ Faults /\ UpsertRole(x) /\ settled' = FALSE /\ UNCHANGED syncs
       \/ Faults /\ UNCHANGED <<role, syncs, settled>>
    /\ Goto(r, "idle")
    /\ UNCHANGED <<keyVars, clerkRole>>

\* user.Update in the goroutine.
SyncToClerk(x) ==
    /\ syncs[x] > 0
    /\ syncs' = [syncs EXCEPT ![x] = @ - 1]
    /\ clerkRole' = x
    /\ UNCHANGED <<keyVars, pos, role, settled, changes>>

\* Its error is logged, whether Clerk has the role or not.
SyncFails(x) ==
    /\ Faults
    /\ syncs[x] > 0
    /\ syncs' = [syncs EXCEPT ![x] = @ - 1]
    /\ clerkRole' \in {clerkRole, x}
    /\ settled' = FALSE
    /\ UNCHANGED <<keyVars, pos, role, changes>>

\* INSERT ... ON CONFLICT (id) DO UPDATE SET updated_at: the role is 'unassigned' by
\* default, and an old one stays.
SyncUser == role' = IF role = None THEN "unassigned" ELSE role

\* AuthSyncHandler; GetUserRole, which it calls next, only reads.
AuthSync(r) ==
    /\ SignedIn(r) /\ SyncUser
    /\ Goto(r, "idle")
    /\ UNCHANGED <<keyVars, clerkRole, syncs, settled, changes>>

\* The process dies: requests and goroutines are gone, rows and Redis stay.
AuthCrash ==
    /\ Faults
    /\ pos' = [r \in Requests |-> "idle"]
    /\ syncs' = [x \in Roles |-> 0]
    /\ settled' = (settled /\ InFlight = {})
    /\ UNCHANGED <<keyVars, role, clerkRole, changes>>
-----------------------------------------------------------------------------
LookUpKey(r) == ReadKey(r) \/ ReadKeyFails(r) \/ FillKey(r)

RoleStep ==
    \/ \E r \in Requests, x \in Roles : SaveUserRole(r, x)
    \/ \E x \in Roles : SyncToClerk(x) \/ SyncFails(x)

AuthStep ==
    \/ \E r \in Requests :
          \/ PresentToken(r) \/ PresentTeaser(r) \/ KeyCached(r) \/ KeyNotCached(r)
          \/ LookUpKey(r) \/ Finish(r) \/ AuthSync(r)
    \/ ExpireKey \/ GenerateAPIKey \/ RevokeKey
    \/ RoleStep

\* A look-up's calls return, a request is answered, and Redis drops what has expired.
AuthFairness ==
    /\ \A r \in Requests : WF_authVars(LookUpKey(r)) /\ WF_authVars(Finish(r))
    /\ WF_authVars(ExpireKey)
-----------------------------------------------------------------------------
Positions == {"idle", "select", "fill", "bot", "member", "guest", "refused", "quoting"}

AuthTypeOK ==
    /\ key \in {None, "active", "revoked"} /\ keyCache \in BOOLEAN
    /\ pos \in [Requests -> Positions]
    /\ role \in Roles \cup {None, "unassigned"}
    /\ clerkRole \in Roles \cup {None}
    /\ syncs \in [Roles -> Nat]
    /\ settled \in BOOLEAN /\ changes \in Nat

\* A key is served while it is active, and after that only as long as Redis or a look-up
\* that overlapped the revocation still holds it; a new key is never refused, for
\* refusals of it are not cached.
User == "user"
KeyTold == [r \in Requests |->
    IF pos[r] = "bot" THEN User ELSE IF pos[r] = "refused" THEN "nothing" ELSE "unasked"]
Active == IF key = "active" THEN {User} ELSE {}
KeyHeld == IF keyCache \/ \E r \in Requests : pos[r] = "fill" THEN {User} ELSE Active
Keys == INSTANCE LookAside WITH
    Readers <- Requests, Values <- {User}, Fallbacks <- {},
    current <- Active, held <- KeyHeld, told <- KeyTold
ServesKeys == Keys!Spec

\* A bot whose key was revoked is locked out in the end, although nothing deletes the
\* entry in Redis.
RevocationEnds == <>[](key = "revoked") => <>[](\A r \in Requests : pos[r] # "bot")

\* Clerk shows the role that Postgres has once its goroutines are done, unless two of
\* them overlapped, one failed, the upsert's answer was lost, or the process died.
RolesSettle == settled /\ InFlight = {} => clerkRole = (IF role \in Roles THEN role ELSE None)
=============================================================================
