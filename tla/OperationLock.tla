--------------------------- MODULE OperationLock ---------------------------
(***************************************************************************)
(* The in-memory operation lock (src/utils/operation_lock.js) and the      *)
(* proxy that runs every gRPC handler under it (bin/democratic-csi,        *)
(* requestHandlerProxy).                                                   *)
(*                                                                         *)
(* A request is one CSI call that its client (a sidecar or the kubelet)    *)
(* sends again, unchanged, for as long as it is answered ABORTED or the    *)
(* process dies under it.  The driver method a request runs is any         *)
(* computation: it may return, throw or never come back.                   *)
(*                                                                         *)
(* Time: an entry's acquiredAt is kept as its age, which stops counting at *)
(* MaxHold because the code only ever asks whether now - acquiredAt has    *)
(* reached maxHoldMs.                                                      *)
(***************************************************************************)
EXTENDS Naturals

CONSTANTS
    Requests,       \* the CSI requests of a behaviour
    Names,          \* volume and snapshot names a CO may ask for
    Volumes,        \* volume ids
    Snapshots,      \* snapshot ids
    Workload,       \* the calls the requests may carry
    MaxHold,        \* maxHoldMs in ticks; 0 disables eviction
    Hung,           \* the requests whose handler is not assumed to return
    MaxRestarts,    \* bound: restarts of the process in a behaviour
    MaxClockSteps   \* bound: backward steps of the wall clock (Date.now())

NodeMethods == {"NodeStageVolume", "NodeUnstageVolume", "NodePublishVolume",
                "NodeUnpublishVolume", "NodeExpandVolume"}

VolumeMethods == NodeMethods \cup {"DeleteVolume", "ControllerExpandVolume"}

Methods == VolumeMethods \cup {"CreateVolume", "CreateSnapshot",
                               "DeleteSnapshot", "ListVolumes"}

Call == [method : Methods, name : Names, volume : Volumes, snapshot : Snapshots]

ASSUME WorkloadAssumption == Workload \subseteq Call

ASSUME MaxHoldAssumption == MaxHold \in Nat

ASSUME BoundsAssumption == MaxRestarts \in Nat /\ MaxClockSteps \in Nat

VARIABLES
    call,       \* call[r]: the call request r carries
    held,       \* the lock's Map: key -> [token, age]
    nextToken,  \* the token of the next acquisition
    pc,         \* pc[r]: where the proxy is with request r
    token,      \* token[r]: what acquire() returned (lockToken); 0 is null
    reply,      \* reply[r]: what the client was last told
    restarts, clockSteps    \* how much of the two bounds is used up

vars == <<call, held, nextToken, pc, token, reply, restarts, clockSteps>>

NoToken == 0

Keys == ({"create_volume_name", "create_snapshot_name"} \X Names)
          \cup ({"volume_id"} \X Volumes)
          \cup ({"snapshot_id"} \X Snapshots)

----------------------------------------------------------------------------
\* Mutant: the key of a snapshot deletion is read from the wrong field.
LockKeysMisread(c) ==
    CASE c.method = "CreateVolume"   -> {<<"create_volume_name", c.name>>}
      [] c.method \in VolumeMethods  -> {<<"volume_id", c.volume>>}
      [] c.method = "CreateSnapshot" -> {<<"create_snapshot_name", c.name>>,
                                         <<"volume_id", c.volume>>}
      [] c.method = "DeleteSnapshot" -> {<<"snapshot_id", c.volume>>}
      [] OTHER                       -> {}

(* Every node method and the two controller methods that name a volume id  *)
(* contend for that id; creations contend for the name, a new snapshot     *)
(* also for its source; what is not listed runs without a lock.            *)
LockKeys(c) ==
    CASE c.method = "CreateVolume"   -> {<<"create_volume_name", c.name>>}
      [] c.method \in VolumeMethods  -> {<<"volume_id", c.volume>>}
      [] c.method = "CreateSnapshot" -> {<<"create_snapshot_name", c.name>>,
                                         <<"volume_id", c.volume>>}
      [] c.method = "DeleteSnapshot" -> {<<"snapshot_id", c.snapshot>>}
      [] OTHER                       -> {}

\* Mutants: a strict comparison with a clock that stops counting at MaxHold;
\* maxHoldMs of 0 taken for "always stale" instead of "never".
IsStaleNever(entry) == MaxHold > 0 /\ entry.age > MaxHold

IsStaleWhenDisabled(entry) == entry.age >= MaxHold

IsStale(entry) == MaxHold > 0 /\ entry.age >= MaxHold

\* Mutant: one free key is enough.
CanAcquireSome(keys) ==
    keys # {} => \E k \in keys : k \in DOMAIN held => IsStale(held[k])

CanAcquire(keys) == \A k \in keys \cap DOMAIN held : IsStale(held[k])

\* The table once keys belong to the acquisition tok.
Acquired(keys, tok) ==
    [k \in DOMAIN held \cup keys |->
        IF k \in keys THEN [token |-> tok, age |-> 0] ELSE held[k]]

\* Mutant: the caller's keys are deleted whoever holds them now.
ReleasedUnchecked(keys, tok) == [k \in DOMAIN held \ keys |-> held[k]]

\* release() deletes only the entries that still carry the caller's token.
Released(keys, tok) ==
    [k \in DOMAIN held \ {k \in keys \cap DOMAIN held : held[k].token = tok}
        |-> held[k]]

----------------------------------------------------------------------------
Init ==
    /\ call \in [Requests -> Workload]
    /\ held = [k \in {} |-> [token |-> NoToken, age |-> 0]]
    /\ nextToken = 1
    /\ pc = [r \in Requests |-> "idle"]
    /\ token = [r \in Requests |-> NoToken]
    /\ reply = [r \in Requests |-> "none"]
    /\ restarts = 0
    /\ clockSteps = 0

\* The proxy gets all the keys of the call in one step (there is no await
\* between acquire()'s test and its set) and starts the driver's method.
Start(r) ==
    /\ pc[r] = "idle"
    /\ LET keys == LockKeys(call[r]) IN
         IF keys = {}
           THEN UNCHANGED <<held, nextToken, token>>
           ELSE /\ CanAcquire(keys)
                /\ held' = Acquired(keys, nextToken)
                /\ token' = [token EXCEPT ![r] = nextToken]
                /\ nextToken' = nextToken + 1
    /\ pc' = [pc EXCEPT ![r] = "handling"]
    /\ reply' = [reply EXCEPT ![r] = "none"]
    /\ UNCHANGED <<call, restarts, clockSteps>>

\* A key is held and not stale: ABORTED, and the client will send it again.
Refuse(r) ==
    /\ pc[r] = "idle"
    /\ ~ CanAcquire(LockKeys(call[r]))
    /\ reply' = [reply EXCEPT ![r] = "ABORTED"]
    /\ UNCHANGED <<call, held, nextToken, pc, token, restarts, clockSteps>>

\* Mutant: a proxy that returns an error to the client without passing through the
\* finally clause that releases the keys.
FinishLeaking(r, outcome) ==
    /\ pc[r] = "handling"
    /\ held' = IF token[r] = NoToken \/ outcome = "ERROR" THEN held
               ELSE Released(LockKeys(call[r]), token[r])
    /\ token' = [token EXCEPT ![r] = NoToken]
    /\ pc' = [pc EXCEPT ![r] = "done"]
    /\ reply' = [reply EXCEPT ![r] = outcome]
    /\ UNCHANGED <<call, nextToken, restarts, clockSteps>>

\* The driver's method returned or threw: the finally clause releases the
\* keys and the client gets its answer.
Finish(r, outcome) ==
    /\ pc[r] = "handling"
    /\ held' = IF token[r] = NoToken THEN held
               ELSE Released(LockKeys(call[r]), token[r])
    /\ token' = [token EXCEPT ![r] = NoToken]
    /\ pc' = [pc EXCEPT ![r] = "done"]
    /\ reply' = [reply EXCEPT ![r] = outcome]
    /\ UNCHANGED <<call, nextToken, restarts, clockSteps>>

\* Time passes for whoever holds a key.
Tick ==
    /\ \E k \in DOMAIN held : held[k].age < MaxHold
    /\ held' = [k \in DOMAIN held |->
                  IF held[k].age < MaxHold
                    THEN [held[k] EXCEPT !.age = @ + 1] ELSE held[k]]
    /\ UNCHANGED <<call, nextToken, pc, token, reply, restarts, clockSteps>>

\* Date.now() is the wall clock: an adjustment makes every entry look younger.
ClockStepBack ==
    /\ clockSteps < MaxClockSteps
    /\ \E ages \in [DOMAIN held -> 0..MaxHold] :
         /\ \A k \in DOMAIN held : ages[k] <= held[k].age
         /\ held' = [k \in DOMAIN held |-> [held[k] EXCEPT !.age = ages[k]]]
         /\ held' # held
    /\ clockSteps' = clockSteps + 1
    /\ UNCHANGED <<call, nextToken, pc, token, reply, restarts>>

\* The process dies and comes back with an empty lock; the client of every
\* request that was running gets no answer and sends it again.
Restart ==
    /\ restarts < MaxRestarts
    /\ held' = [k \in {} |-> [token |-> NoToken, age |-> 0]]
    /\ nextToken' = 1
    /\ pc' = [r \in Requests |-> IF pc[r] = "handling" THEN "idle" ELSE pc[r]]
    /\ token' = [r \in Requests |-> NoToken]
    /\ restarts' = restarts + 1
    /\ UNCHANGED <<call, reply, clockSteps>>

Outcomes == {"OK", "ERROR"}

Next ==
    \/ \E r \in Requests : Start(r) \/ Refuse(r)
    \/ \E r \in Requests, outcome \in Outcomes : Finish(r, outcome)
    \/ Tick
    \/ ClockStepBack
    \/ Restart

Spec == Init /\ [][Next]_vars

\* Clients retry what was ABORTED, time passes, and the handlers that are not
\* in Hung return.
Fairness ==
    /\ \A r \in Requests : WF_vars(Start(r))
    /\ \A r \in Requests \ Hung : WF_vars(\E o \in Outcomes : Finish(r, o))
    /\ WF_vars(Tick)

FairSpec == Spec /\ Fairness

----------------------------------------------------------------------------
Entry == [token : Nat \ {NoToken}, age : 0..MaxHold]

\* The types of the lock's table and of the proxy's bookkeeping; a request
\* that is not running has no token.
TypeOK ==
    /\ call \in [Requests -> Workload]
    /\ DOMAIN held \subseteq Keys
    /\ \A k \in DOMAIN held : held[k] \in Entry
    /\ held = [k \in DOMAIN held |-> held[k]]
    /\ nextToken \in Nat \ {NoToken}
    /\ pc \in [Requests -> {"idle", "handling", "done"}]
    /\ token \in [Requests -> Nat]
    /\ reply \in [Requests -> {"none", "ABORTED"} \cup Outcomes]
    /\ restarts \in 0..MaxRestarts
    /\ clockSteps \in 0..MaxClockSteps

Owns(r, k) == /\ pc[r] = "handling"
              /\ k \in LockKeys(call[r])
              /\ k \in DOMAIN held
              /\ held[k].token = token[r]

\* No key outlives its holder: whatever is in the table was put there by a
\* request that is still running and asked for that key, so a volume is never
\* blocked by a request that has already been answered or lost (the finally
\* clause of requestHandlerProxy, evictions and restarts included).
EveryEntryHasOwner == \A k \in DOMAIN held : \E r \in Requests : Owns(r, k)

\* "Each acquisition gets a unique token": two running requests never share
\* one, and no token is handed out again while it is still in use, restarts
\* (which reset the counter) included.
TokensAreUnique ==
    \A r \in Requests :
      pc[r] = "handling" =>
        /\ token[r] < nextToken
        /\ \A s \in Requests \ {r} :
             pc[s] = "handling" /\ token[s] = token[r] => token[r] = NoToken

\* Of all the running requests that were ever granted a key, the holder is
\* the one granted last: a stale handler never gets a key back.
NewestHolds ==
    \A k \in DOMAIN held, r \in Requests :
      pc[r] = "handling" /\ k \in LockKeys(call[r]) => token[r] <= held[k].token

\* With eviction disabled (OPERATION_LOCK_MAX_HOLD_MS=0) two running requests
\* never have a key in common, however long they run.
MutexWithoutEviction ==
    MaxHold = 0 =>
      \A r, s \in Requests :
        r # s /\ pc[r] = "handling" /\ pc[s] = "handling"
          => LockKeys(call[r]) \cap LockKeys(call[s]) = {}

\* A key leaves its holder, or passes to another, only because the holder's
\* own request ends, because it was held for maxHoldMs, or because the
\* process died: "the stale handler cannot release a lock that a later
\* request now holds".
KeyLost(k) == k \notin DOMAIN held' \/ held'[k].token # held[k].token

KeysChangeHandsFairly ==
    [][ \A k \in DOMAIN held :
          KeyLost(k) =>
            \/ \E r \in Requests : Owns(r, k) /\ pc'[r] = "done"
            \/ IsStale(held[k])
            \/ restarts' # restarts ]_vars

\* A handler that never returns does not block its volume for ever: every
\* request that keeps being sent is eventually let in (needs MaxHold > 0).
EveryRequestGetsIn == \A r \in Requests : pc[r] = "idle" ~> pc[r] # "idle"

----------------------------------------------------------------------------
(* What makes the safety properties inductive.                             *)

\* A running request has a token exactly when its call has keys, and no
\* other request has one.
TokensMatchCalls ==
    \A r \in Requests :
      IF pc[r] = "handling"
        THEN token[r] = NoToken <=> LockKeys(call[r]) = {}
        ELSE token[r] = NoToken

\* Nothing is ever evicted when eviction is disabled.
NothingEvicted ==
    MaxHold = 0 =>
      \A r \in Requests :
        pc[r] = "handling" => \A k \in LockKeys(call[r]) : Owns(r, k)

IInv == /\ TypeOK
        /\ TokensMatchCalls
        /\ TokensAreUnique
        /\ EveryEntryHasOwner
        /\ NewestHolds
        /\ NothingEvicted

----------------------------------------------------------------------------
(* The promise, without tokens or ages: see LockLeases.                    *)

owner == [k \in Keys |-> {r \in Requests : Owns(r, k)}]

lapsed == {k \in DOMAIN held : IsStale(held[k])}

Leases == INSTANCE LockLeases WITH
    Wants <- [r \in Requests |-> LockKeys(call[r])],
    running <- {r \in Requests : pc[r] = "handling"}

LeasesSpec == Leases!Spec

=============================================================================
