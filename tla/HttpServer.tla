----------------------------- MODULE HttpServer -----------------------------
(***************************************************************************)
(* What the request handlers of internal/ingestor share: the goroutines    *)
(* that net/http runs them in, and the faults of what they call.           *)
(***************************************************************************)
CONSTANTS
    Requests,   \* goroutines that serve a request
    Faults      \* TRUE: Redis, Postgres and Clerk may fail, the process may crash

ASSUME ServerAssumption == Faults \in BOOLEAN

None == "none"
=============================================================================
