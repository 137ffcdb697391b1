----------------------------- MODULE LockLeases -----------------------------
(***************************************************************************)
(* What the operation lock promises to the requests that run under it.     *)
(*                                                                         *)
(* Every running request holds a lease on each key it wants, until it ends *)
(* or until a lease that has lapsed is taken over by a later request.  A   *)
(* request is let in only when each key it wants is free or lapsed, and it *)
(* then gets all of them in one step.  Only the end of a request frees its *)
(* own leases; it never touches a lease that has passed to another.        *)
(***************************************************************************)
CONSTANTS Requests, Keys

VARIABLES
    Wants,      \* Wants[r]: the keys request r asks for; never changes
    running,    \* the requests that have been let in and have not ended
    owner,      \* owner[k]: the request with the lease on k, {} when it is free
    lapsed      \* the keys whose lease may be taken over

vars == <<Wants, running, owner, lapsed>>

Free == {k \in Keys : owner[k] = {}}

Init == /\ Wants \in [Requests -> SUBSET Keys]
        /\ running = {}
        /\ owner = [k \in Keys |-> {}]
        /\ lapsed = {}

\* r gets a fresh lease on all the keys it wants.
Grant(r) ==
    /\ r \notin running
    /\ Wants[r] \subseteq Free \cup lapsed
    /\ running' = running \cup {r}
    /\ owner' = [k \in Keys |-> IF k \in Wants[r] THEN {r} ELSE owner[k]]
    /\ lapsed' \subseteq lapsed \cup Wants[r]
    /\ lapsed \ Wants[r] \subseteq lapsed'
    /\ UNCHANGED Wants

\* r ends: the leases it still has are free, all the others stay.
End(r) ==
    /\ r \in running
    /\ running' = running \ {r}
    /\ owner' = [k \in Keys |-> owner[k] \ {r}]
    /\ lapsed' = lapsed \ {k \in Keys : owner[k] = {r}}
    /\ UNCHANGED Wants

\* Time decides which of the leases may be taken over.
Pass ==
    /\ lapsed' \subseteq Keys \ Free
    /\ UNCHANGED <<Wants, running, owner>>

\* Everything that was running is lost, and its leases with it.
Crash ==
    /\ running' = {}
    /\ owner' = [k \in Keys |-> {}]
    /\ lapsed' = {}
    /\ UNCHANGED Wants

Next ==
    \/ \E r \in Requests : Grant(r) \/ End(r)
    \/ Pass
    \/ Crash

Spec == Init /\ [][Next]_vars
=============================================================================
