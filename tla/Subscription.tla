---------------------------- MODULE Subscription ----------------------------
(***************************************************************************)
(* What the seller of subscriptions and the gate that spends them promise  *)
(* each other about a user: his row of user_subscriptions and the counter  *)
(* usage:user:<user>.  Fulfilment and AccessGate both implement it, each   *)
(* with the whole of one side and a sketch of the other.                   *)
(*                                                                         *)
(* A row is never deleted, and only a committed activation makes it active *)
(* again.  The counter rises by one use at a time, never without a row,    *)
(* and is only cleared after an activation has been committed for it.      *)
(***************************************************************************)
EXTENDS Naturals

CONSTANT Users

VARIABLES
    state,  \* the user's row: "none", "active", or "lapsed" once expires_at has passed
    owed,   \* users with a committed activation whose DEL of the counter is to come
    usage   \* the user's counter, 0 when the key is absent

vars == <<state, owed, usage>>

Init ==
    /\ state \in [Users -> {"none", "active"}]
    /\ owed = {}
    /\ usage = [u \in Users |-> 0]

\* COMMIT of an activation; its DEL comes next unless the reply is lost.
Commit(u) ==
    /\ \E s \in {"active", "lapsed"} : state' = [state EXCEPT ![u] = s]
    /\ owed' \in {owed, owed \cup {u}}
    /\ UNCHANGED usage

\* DEL of the counter; another activation may be waiting to do the same.
Reset(u) ==
    /\ u \in owed
    /\ usage' = [usage EXCEPT ![u] = 0]
    /\ owed' \in {owed, owed \ {u}}
    /\ UNCHANGED state

\* expires_at passes.
Lapse(u) ==
    /\ state[u] = "active"
    /\ state' = [state EXCEPT ![u] = "lapsed"]
    /\ UNCHANGED <<owed, usage>>

\* INCR of the counter, also by a request that was granted before the row lapsed.
Use(u) ==
    /\ state[u] # "none"
    /\ usage' = [usage EXCEPT ![u] = @ + 1]
    /\ UNCHANGED <<state, owed>>

\* A DEL fails, or the process dies before it.
Forget ==
    /\ owed' \subseteq owed
    /\ UNCHANGED <<state, usage>>

Next == Forget \/ \E u \in Users : Commit(u) \/ Reset(u) \/ Lapse(u) \/ Use(u)

Spec == Init /\ [][Next]_vars
=============================================================================
