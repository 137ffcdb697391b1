------------------------- MODULE OperationLockProofs -------------------------
(***************************************************************************)
(* Proofs about OperationLock, for any set of requests and calls, any      *)
(* MaxHold and any bounds.  IInv is inductive: the typing, the tokens and  *)
(* the ownership of the table's entries are preserved together.            *)
(***************************************************************************)
EXTENDS OperationLock, TLAPS

\* The keys of a call are keys.
LEMMA LockKeysType == \A c \in Workload : LockKeys(c) \subseteq Keys
<1>1. TAKE c \in Workload
<1>2. c \in Call
  BY <1>1, WorkloadAssumption
<1>3. /\ c.name \in Names
      /\ c.volume \in Volumes
      /\ c.snapshot \in Snapshots
  BY <1>2 DEF Call
<1>4. QED
  BY <1>3 DEF LockKeys, Keys

\* Acquiring keys leaves a table whose entries are typed.
LEMMA AcquiredType ==
  ASSUME TypeOK, NEW keys \in SUBSET Keys
  PROVE  /\ DOMAIN Acquired(keys, nextToken) = DOMAIN held \cup keys
         /\ DOMAIN Acquired(keys, nextToken) \subseteq Keys
         /\ \A k \in DOMAIN Acquired(keys, nextToken) :
              Acquired(keys, nextToken)[k] \in Entry
         /\ Acquired(keys, nextToken) =
              [k \in DOMAIN Acquired(keys, nextToken) |->
                 Acquired(keys, nextToken)[k]]
BY MaxHoldAssumption DEF TypeOK, Acquired, Entry

\* The initial states satisfy the inductive invariant.
LEMMA InitIInv == Init => IInv
<1> SUFFICES ASSUME Init PROVE IInv
  OBVIOUS
<1>1. DOMAIN held = {}
  BY DEF Init
<1>2. TypeOK
  BY <1>1, BoundsAssumption DEF Init, TypeOK, NoToken, Outcomes
<1>3. TokensMatchCalls /\ TokensAreUnique /\ NothingEvicted
  BY DEF Init, TokensMatchCalls, TokensAreUnique, NothingEvicted
<1>4. EveryEntryHasOwner /\ NewestHolds
  BY <1>1 DEF EveryEntryHasOwner, NewestHolds
<1>5. QED
  BY <1>2, <1>3, <1>4 DEF IInv

----------------------------------------------------------------------------
\* Starting a request preserves the inductive invariant.
LEMMA StartIInv ==
  ASSUME IInv, NEW r \in Requests, Start(r)
  PROVE  IInv'
<1> DEFINE keys == LockKeys(call[r])
<1> USE DEF NoToken
<1>1. TypeOK
  BY DEF IInv
<1>2. call[r] \in Workload /\ keys \subseteq Keys
  BY <1>1, LockKeysType DEF TypeOK
<1>3. /\ call' = call /\ restarts' = restarts /\ clockSteps' = clockSteps
      /\ pc[r] = "idle" /\ pc' = [pc EXCEPT ![r] = "handling"]
      /\ reply' = [reply EXCEPT ![r] = "none"]
  BY DEF Start
<1>4. CASE keys = {}
  <2>1. held' = held /\ nextToken' = nextToken /\ token' = token
    BY <1>4 DEF Start
  <2>2. token[r] = NoToken
    BY <1>3 DEF IInv, TokensMatchCalls
  <2>3. TypeOK'
    BY <1>1, <1>3, <2>1 DEF TypeOK, Entry
  <2>4. TokensMatchCalls'
    BY <1>1, <1>3, <1>4, <2>1, <2>2 DEF IInv, TypeOK, TokensMatchCalls
  <2>5. TokensAreUnique'
    BY <1>1, <1>3, <2>1, <2>2 DEF IInv, TypeOK, TokensAreUnique
  <2>6. EveryEntryHasOwner'
    BY <1>1, <1>3, <2>1 DEF IInv, TypeOK, EveryEntryHasOwner, Owns
  <2>7. NewestHolds'
    BY <1>1, <1>3, <1>4, <2>1 DEF IInv, TypeOK, NewestHolds
  <2>8. NothingEvicted'
    BY <1>1, <1>3, <1>4, <2>1 DEF IInv, TypeOK, NothingEvicted, Owns
  <2>9. QED
    BY <2>3, <2>4, <2>5, <2>6, <2>7, <2>8 DEF IInv
<1>5. CASE keys # {}
  <2>1. /\ CanAcquire(keys)
        /\ held' = Acquired(keys, nextToken)
        /\ token' = [token EXCEPT ![r] = nextToken]
        /\ nextToken' = nextToken + 1
    BY <1>5 DEF Start
  <2>2. /\ DOMAIN held' = DOMAIN held \cup keys
        /\ \A k \in keys : held'[k] = [token |-> nextToken, age |-> 0]
        /\ \A k \in DOMAIN held \ keys : held'[k] = held[k]
    BY <2>1 DEF Acquired
  <2>3. TypeOK'
    <3>1. /\ DOMAIN held' \subseteq Keys
          /\ \A k \in DOMAIN held' : held'[k] \in Entry
          /\ held' = [k \in DOMAIN held' |-> held'[k]]
      BY <1>1, <1>2, <2>1, AcquiredType
    <3>2. QED
      BY <1>1, <1>3, <2>1, <3>1 DEF TypeOK, Entry
  <2>4. TokensMatchCalls'
    BY <1>1, <1>3, <1>5, <2>1 DEF IInv, TypeOK, TokensMatchCalls
  <2>5. TokensAreUnique'
    BY <1>1, <1>3, <2>1 DEF IInv, TypeOK, TokensAreUnique
  <2>6. EveryEntryHasOwner'
    <3> SUFFICES ASSUME NEW k \in DOMAIN held'
                 PROVE  \E s \in Requests : Owns(s, k)'
      BY DEF EveryEntryHasOwner
    <3>1. CASE k \in keys
      <4>1. Owns(r, k)'
        BY <1>1, <1>3, <2>1, <2>2, <3>1 DEF TypeOK, Owns
      <4>2. QED
        BY <4>1
    <3>2. CASE k \notin keys
      <4>1. PICK s \in Requests : Owns(s, k)
        BY <2>2, <3>2 DEF IInv, EveryEntryHasOwner
      <4>2. s # r
        BY <1>3, <4>1 DEF Owns
      <4>3. Owns(s, k)'
        BY <1>1, <1>3, <2>1, <2>2, <3>2, <4>1, <4>2 DEF TypeOK, Owns
      <4>4. QED
        BY <4>3
    <3>3. QED
      BY <3>1, <3>2
  <2>7. NewestHolds'
    <3> SUFFICES ASSUME NEW k \in DOMAIN held', NEW s \in Requests,
                        pc'[s] = "handling", k \in LockKeys(call[s])
                 PROVE  token'[s] <= held'[k].token
      BY <1>3 DEF NewestHolds
    <3>1. CASE k \in keys
      <4>1. held'[k].token = nextToken
        BY <2>2, <3>1
      <4>2. CASE s = r
        BY <1>1, <2>1, <4>1, <4>2 DEF TypeOK
      <4>3. CASE s # r
        BY <1>1, <1>3, <2>1, <4>1, <4>3 DEF IInv, TypeOK, TokensAreUnique
      <4>4. QED
        BY <4>2, <4>3
    <3>2. CASE k \notin keys
      <4>1. s # r
        BY <3>2
      <4>2. pc[s] = "handling" /\ token'[s] = token[s]
        BY <1>1, <1>3, <2>1, <4>1 DEF TypeOK
      <4>3. QED
        BY <2>2, <3>2, <4>2 DEF IInv, NewestHolds
    <3>3. QED
      BY <3>1, <3>2
  <2>8. NothingEvicted'
    <3> SUFFICES ASSUME MaxHold = 0, NEW s \in Requests, pc'[s] = "handling",
                        NEW k \in LockKeys(call[s])
                 PROVE  Owns(s, k)'
      BY <1>3 DEF NothingEvicted
    <3>1. CASE s = r
      BY <1>1, <1>3, <2>1, <2>2, <3>1 DEF TypeOK, Owns
    <3>2. CASE s # r
      <4>1. pc[s] = "handling"
        BY <1>1, <1>3, <3>2 DEF TypeOK
      <4>2. Owns(s, k)
        BY <4>1 DEF IInv, NothingEvicted
      <4>3. k \notin keys
        BY <2>1, <4>2, MaxHoldAssumption DEF CanAcquire, IsStale, Owns
      <4>4. QED
        BY <1>1, <1>3, <2>1, <2>2, <3>2, <4>2, <4>3 DEF TypeOK, Owns
    <3>3. QED
      BY <3>1, <3>2
  <2>9. QED
    BY <2>3, <2>4, <2>5, <2>6, <2>7, <2>8 DEF IInv
<1>6. QED
  BY <1>4, <1>5

\* The end of a request preserves the inductive invariant.
LEMMA FinishIInv ==
  ASSUME IInv, NEW r \in Requests, NEW outcome \in Outcomes, Finish(r, outcome)
  PROVE  IInv'
<1> USE DEF NoToken
<1> DEFINE keys == LockKeys(call[r])
<1>1. TypeOK
  BY DEF IInv
<1>2. /\ call' = call /\ nextToken' = nextToken
      /\ restarts' = restarts /\ clockSteps' = clockSteps
      /\ pc[r] = "handling" /\ pc' = [pc EXCEPT ![r] = "done"]
      /\ token' = [token EXCEPT ![r] = NoToken]
      /\ reply' = [reply EXCEPT ![r] = outcome]
  BY DEF Finish
<1>3. /\ DOMAIN held' \subseteq DOMAIN held
      /\ \A k \in DOMAIN held' : held'[k] = held[k]
      /\ \A k \in DOMAIN held :
           k \notin DOMAIN held' <=> Owns(r, k) /\ token[r] # NoToken
      /\ held' = [k \in DOMAIN held' |-> held'[k]]
  <2>1. CASE token[r] = NoToken
    BY <1>1, <2>1 DEF Finish, TypeOK
  <2>2. CASE token[r] # NoToken
    <3>1. held' = Released(keys, token[r])
      BY <2>2 DEF Finish
    <3>2. /\ DOMAIN held' = DOMAIN held
                            \ {k \in keys \cap DOMAIN held :
                                 held[k].token = token[r]}
          /\ \A k \in DOMAIN held' : held'[k] = held[k]
          /\ held' = [k \in DOMAIN held' |-> held'[k]]
      BY <1>1, <3>1 DEF Released, TypeOK
    <3>3. QED
      BY <1>2, <2>2, <3>2 DEF Owns
  <2>3. QED
    BY <2>1, <2>2
<1>4. TypeOK'
  BY <1>1, <1>2, <1>3 DEF TypeOK, Entry
<1>5. TokensMatchCalls' /\ TokensAreUnique'
  BY <1>1, <1>2 DEF IInv, TypeOK, TokensMatchCalls, TokensAreUnique
<1>6. EveryEntryHasOwner'
  <2> SUFFICES ASSUME NEW k \in DOMAIN held'
               PROVE  \E s \in Requests : Owns(s, k)'
    BY DEF EveryEntryHasOwner
  <2>1. PICK s \in Requests : Owns(s, k)
    BY <1>3 DEF IInv, EveryEntryHasOwner
  <2>2. held[k].token # NoToken
    BY <1>1, <1>3 DEF TypeOK, Entry
  <2>3. s # r
    BY <1>3, <2>1, <2>2 DEF Owns
  <2>4. Owns(s, k)'
    BY <1>1, <1>2, <1>3, <2>1, <2>3 DEF TypeOK, Owns
  <2>5. QED
    BY <2>4
<1>7. NewestHolds'
  BY <1>1, <1>2, <1>3 DEF IInv, TypeOK, NewestHolds
<1>8. NothingEvicted'
  <2> SUFFICES ASSUME MaxHold = 0, NEW s \in Requests, pc'[s] = "handling",
                      NEW k \in LockKeys(call[s])
               PROVE  Owns(s, k)'
    BY <1>2 DEF NothingEvicted
  <2>1. s # r /\ pc[s] = "handling"
    BY <1>1, <1>2 DEF TypeOK
  <2>2. Owns(s, k)
    BY <2>1 DEF IInv, NothingEvicted
  <2>3. ~ (Owns(r, k) /\ token[r] # NoToken)
    BY <1>2, <2>1, <2>2 DEF IInv, TokensAreUnique, Owns
  <2>4. k \in DOMAIN held'
    BY <1>3, <2>2, <2>3 DEF Owns
  <2>5. QED
    BY <1>1, <1>2, <1>3, <2>1, <2>2, <2>4 DEF TypeOK, Owns
<1>9. QED
  BY <1>4, <1>5, <1>6, <1>7, <1>8 DEF IInv

\* A step that changes nothing but the entries' ages preserves the invariant.
LEMMA AgesIInv ==
  ASSUME IInv,
         UNCHANGED <<call, nextToken, pc, token, reply, restarts>>,
         clockSteps' \in 0..MaxClockSteps,
         held' = [k \in DOMAIN held |-> held'[k]],
         \A k \in DOMAIN held :
           held'[k] \in Entry /\ held'[k].token = held[k].token
  PROVE  IInv'
<1>1. DOMAIN held' = DOMAIN held
  OBVIOUS
<1>2. TypeOK'
  BY <1>1 DEF IInv, TypeOK
<1>3. \A r \in Requests, k \in DOMAIN held : Owns(r, k)' <=> Owns(r, k)
  BY <1>1 DEF Owns
<1>4. EveryEntryHasOwner'
  BY <1>1, <1>3 DEF IInv, EveryEntryHasOwner
<1>5. NewestHolds'
  BY <1>1 DEF IInv, NewestHolds
<1>6. NothingEvicted'
  BY <1>1, <1>3 DEF IInv, NothingEvicted, Owns
<1>7. TokensMatchCalls' /\ TokensAreUnique'
  BY DEF IInv, TokensMatchCalls, TokensAreUnique
<1>8. QED
  BY <1>2, <1>4, <1>5, <1>6, <1>7 DEF IInv

\* Every step preserves the inductive invariant.
LEMMA NextIInv == IInv /\ [Next]_vars => IInv'
<1> SUFFICES ASSUME IInv, [Next]_vars PROVE IInv'
  OBVIOUS
<1>1. TypeOK
  BY DEF IInv
<1>2. ASSUME NEW r \in Requests, Start(r) PROVE IInv'
  BY <1>2, StartIInv
<1>3. ASSUME NEW r \in Requests, Refuse(r) PROVE IInv'
  <2>1. TypeOK'
    BY <1>1, <1>3 DEF Refuse, TypeOK, Entry
  <2>2. TokensMatchCalls' /\ TokensAreUnique'
    BY <1>3 DEF Refuse, IInv, TokensMatchCalls, TokensAreUnique
  <2>3. EveryEntryHasOwner' /\ NewestHolds' /\ NothingEvicted'
    BY <1>3 DEF Refuse, IInv, EveryEntryHasOwner, NewestHolds, NothingEvicted,
                Owns
  <2>4. QED
    BY <2>1, <2>2, <2>3 DEF IInv
<1>4. ASSUME NEW r \in Requests, NEW o \in Outcomes, Finish(r, o) PROVE IInv'
  BY <1>4, FinishIInv
<1>5. CASE Tick
  <2>1. /\ held' = [k \in DOMAIN held |-> held'[k]]
        /\ \A k \in DOMAIN held :
             held'[k] \in Entry /\ held'[k].token = held[k].token
    BY <1>1, <1>5, MaxHoldAssumption DEF Tick, TypeOK, Entry
  <2>2. clockSteps' \in 0..MaxClockSteps
    BY <1>1, <1>5 DEF Tick, TypeOK
  <2>3. UNCHANGED <<call, nextToken, pc, token, reply, restarts>>
    BY <1>5 DEF Tick
  <2>4. QED
    BY <2>1, <2>2, <2>3, AgesIInv
<1>6. CASE ClockStepBack
  <2>1. /\ held' = [k \in DOMAIN held |-> held'[k]]
        /\ \A k \in DOMAIN held :
             held'[k] \in Entry /\ held'[k].token = held[k].token
    BY <1>1, <1>6, MaxHoldAssumption DEF ClockStepBack, TypeOK, Entry
  <2>2. clockSteps' \in 0..MaxClockSteps
    BY <1>1, <1>6, BoundsAssumption DEF ClockStepBack, TypeOK
  <2>3. UNCHANGED <<call, nextToken, pc, token, reply, restarts>>
    BY <1>6 DEF ClockStepBack
  <2>4. QED
    BY <2>1, <2>2, <2>3, AgesIInv
<1>7. CASE Restart
  <2>1. DOMAIN held' = {}
    BY <1>7 DEF Restart
  <2>2. \A r \in Requests : pc'[r] # "handling"
    BY <1>1, <1>7 DEF Restart, TypeOK
  <2>3. TypeOK'
    BY <1>1, <1>7, <2>1, BoundsAssumption DEF Restart, TypeOK, NoToken
  <2>4. TokensMatchCalls' /\ TokensAreUnique' /\ NothingEvicted'
    BY <1>7, <2>2
       DEF Restart, TokensMatchCalls, TokensAreUnique, NothingEvicted
  <2>5. EveryEntryHasOwner' /\ NewestHolds'
    BY <2>1 DEF EveryEntryHasOwner, NewestHolds
  <2>6. QED
    BY <2>3, <2>4, <2>5 DEF IInv
<1>8. CASE UNCHANGED vars
  <2>1. TypeOK'
    BY <1>1, <1>8 DEF vars, TypeOK, Entry
  <2>2. TokensMatchCalls' /\ TokensAreUnique'
    BY <1>8 DEF vars, IInv, TokensMatchCalls, TokensAreUnique
  <2>3. EveryEntryHasOwner' /\ NewestHolds' /\ NothingEvicted'
    BY <1>8 DEF vars, IInv, EveryEntryHasOwner, NewestHolds, NothingEvicted,
                Owns
  <2>4. QED
    BY <2>1, <2>2, <2>3 DEF IInv
<1>9. QED
  BY <1>2, <1>3, <1>4, <1>5, <1>6, <1>7, <1>8 DEF Next

\* IInv is an invariant of every behaviour of the lock.
LEMMA SpecIInv == Spec => []IInv
BY InitIInv, NextIInv, PTL DEF Spec

----------------------------------------------------------------------------
\* The table and the proxy's bookkeeping keep their types.
THEOREM TypeCorrect == Spec => []TypeOK
<1>1. IInv => TypeOK
  BY DEF IInv
<1>2. QED
  BY <1>1, SpecIInv, PTL

\* No key outlives the request that holds it.
THEOREM NoOrphanEntries == Spec => []EveryEntryHasOwner
<1>1. IInv => EveryEntryHasOwner
  BY DEF IInv
<1>2. QED
  BY <1>1, SpecIInv, PTL

\* The holder of a key is the request that was granted it last.
THEOREM NewestRequestHolds == Spec => []NewestHolds
<1>1. IInv => NewestHolds
  BY DEF IInv
<1>2. QED
  BY <1>1, SpecIInv, PTL

\* With eviction disabled, no two running requests have a key in common.
THEOREM MutualExclusion == Spec => []MutexWithoutEviction
<1>1. ASSUME IInv PROVE MutexWithoutEviction
  <2> SUFFICES ASSUME MaxHold = 0,
                      NEW r \in Requests, NEW s \in Requests, r # s,
                      pc[r] = "handling", pc[s] = "handling",
                      NEW k \in LockKeys(call[r]) \cap LockKeys(call[s])
               PROVE  FALSE
    BY DEF MutexWithoutEviction
  <2>1. Owns(r, k) /\ Owns(s, k)
    BY <1>1 DEF IInv, NothingEvicted
  <2>2. token[r] = NoToken
    BY <1>1, <2>1 DEF IInv, TokensAreUnique, Owns
  <2>3. LockKeys(call[r]) = {}
    BY <1>1, <2>2 DEF IInv, TokensMatchCalls
  <2>4. QED
    BY <2>3
<1>2. QED
  BY <1>1, SpecIInv, PTL

\* A key leaves its holder only when the holder ends, when it was held for
\* MaxHold, or when the process dies: in particular no release by a stale
\* handler frees the key of the request that evicted it.
THEOREM FairHandover == Spec => KeysChangeHandsFairly
<1> DEFINE Step == \A k \in DOMAIN held :
                     KeyLost(k) =>
                       \/ \E r \in Requests : Owns(r, k) /\ pc'[r] = "done"
                       \/ IsStale(held[k])
                       \/ restarts' # restarts
<1>1. ASSUME IInv, [Next]_vars PROVE [Step]_vars
  <2> SUFFICES ASSUME Next, NEW k \in DOMAIN held, KeyLost(k)
               PROVE  \/ \E r \in Requests : Owns(r, k) /\ pc'[r] = "done"
                      \/ IsStale(held[k])
                      \/ restarts' # restarts
    BY <1>1
  <2>1. TypeOK
    BY <1>1 DEF IInv
  <2>2. ASSUME NEW r \in Requests, Start(r) PROVE IsStale(held[k])
    BY <2>2 DEF Start, KeyLost, Acquired, CanAcquire
  <2>3. ASSUME NEW r \in Requests, Refuse(r) PROVE FALSE
    BY <2>3 DEF Refuse, KeyLost
  <2>4. ASSUME NEW r \in Requests, NEW o \in Outcomes, Finish(r, o)
        PROVE  Owns(r, k) /\ pc'[r] = "done"
    BY <2>1, <2>4 DEF Finish, KeyLost, Released, Owns, TypeOK
  <2>5. CASE Tick
    BY <2>1, <2>5 DEF Tick, KeyLost, TypeOK, Entry
  <2>6. CASE ClockStepBack
    BY <2>1, <2>6 DEF ClockStepBack, KeyLost, TypeOK, Entry
  <2>7. CASE Restart
    BY <2>1, <2>7 DEF Restart, TypeOK
  <2>8. QED
    BY <2>2, <2>3, <2>4, <2>5, <2>6, <2>7 DEF Next
<1>2. QED
  BY <1>1, SpecIInv, PTL DEF Spec, KeysChangeHandsFairly

----------------------------------------------------------------------------
(* OperationLock implements LockLeases.                                    *)

running == {r \in Requests : pc[r] = "handling"}

Wants == [r \in Requests |-> LockKeys(call[r])]

\* A key has at most one owner.
LEMMA OneOwner ==
  ASSUME IInv, NEW k, NEW r \in Requests, NEW s \in Requests,
         Owns(r, k), Owns(s, k)
  PROVE  r = s
BY DEF IInv, TypeOK, TokensAreUnique, Owns, Entry

\* The initial states of the lock are initial states of the leases.
LEMMA InitLeases == Init => Leases!Init
<1> SUFFICES ASSUME Init PROVE Leases!Init
  OBVIOUS
<1>1. DOMAIN held = {}
  BY DEF Init
<1>2. Wants \in [Requests -> SUBSET Keys]
  BY LockKeysType DEF Init, Wants
<1>3. running = {} /\ lapsed = {}
  BY <1>1 DEF Init, running, lapsed
<1>4. owner = [k \in Keys |-> {}]
  BY <1>1 DEF owner, Owns
<1>5. QED
  BY <1>2, <1>3, <1>4 DEF Leases!Init, Wants, running

\* Letting a request in grants its leases.
LEMMA StartGrants ==
  ASSUME IInv, IInv', NEW r \in Requests, Start(r)
  PROVE  Leases!Grant(r)
<1> DEFINE keys == LockKeys(call[r])
<1>1. TypeOK /\ TypeOK'
  BY DEF IInv
<1>2. call' = call /\ pc[r] = "idle" /\ pc' = [pc EXCEPT ![r] = "handling"]
  BY DEF Start
<1>3. keys \subseteq Keys
  BY <1>1, LockKeysType DEF TypeOK
<1>4. /\ CanAcquire(keys)
      /\ DOMAIN held' = DOMAIN held \cup keys
      /\ \A k \in keys : held'[k] = [token |-> token'[r], age |-> 0]
      /\ \A k \in DOMAIN held \ keys : held'[k] = held[k]
      /\ \A s \in Requests \ {r} : token'[s] = token[s]
  <2>1. CASE keys = {}
    BY <1>1, <2>1 DEF Start, CanAcquire, TypeOK
  <2>2. CASE keys # {}
    <3>1. /\ CanAcquire(keys) /\ held' = Acquired(keys, nextToken)
          /\ token' = [token EXCEPT ![r] = nextToken]
      BY <2>2 DEF Start
    <3>2. token'[r] = nextToken /\ \A s \in Requests \ {r} : token'[s] = token[s]
      BY <1>1, <3>1 DEF TypeOK
    <3>3. QED
      BY <3>1, <3>2 DEF Acquired
  <2>3. QED
    BY <2>1, <2>2
<1>5. keys \subseteq {k \in Keys : owner[k] = {}} \cup lapsed
  <2> SUFFICES ASSUME NEW k \in keys, k \notin lapsed
               PROVE  owner[k] = {}
    BY <1>3
  <2>1. k \notin DOMAIN held
    BY <1>4 DEF CanAcquire, lapsed
  <2>2. QED
    BY <1>3, <2>1 DEF owner, Owns
<1>6. running' = running \cup {r} /\ r \notin running
  BY <1>1, <1>2 DEF running, TypeOK
<1>7. owner' = [k \in Keys |-> IF k \in keys THEN {r} ELSE owner[k]]
  <2> SUFFICES ASSUME NEW k \in Keys
               PROVE  owner'[k] = IF k \in keys THEN {r} ELSE owner[k]
    BY DEF owner
  <2>1. CASE k \in keys
    <3>1. Owns(r, k)'
      BY <1>1, <1>2, <1>4, <2>1 DEF Owns, TypeOK
    <3>2. \A s \in Requests : Owns(s, k)' => s = r
      BY <3>1 DEF IInv, TypeOK, TokensAreUnique, Owns, Entry
    <3>3. QED
      BY <2>1, <3>1, <3>2 DEF owner
  <2>2. CASE k \notin keys
    <3>1. \A s \in Requests : Owns(s, k)' <=> Owns(s, k)
      BY <1>1, <1>2, <1>4, <2>2 DEF Owns, TypeOK
    <3>2. QED
      BY <2>2, <3>1 DEF owner
  <2>3. QED
    BY <2>1, <2>2
<1>8. lapsed' \subseteq lapsed \cup keys /\ lapsed \ keys \subseteq lapsed'
  BY <1>4 DEF lapsed, IsStale
<1>9. Wants' = Wants /\ Wants[r] = keys
  BY <1>2 DEF Wants
<1>10. QED
  BY <1>5, <1>6, <1>7, <1>8, <1>9 DEF Leases!Grant, Leases!Free, Wants, running

\* The end of a request ends its leases.
LEMMA FinishEnds ==
  ASSUME IInv, IInv', NEW r \in Requests, NEW o \in Outcomes, Finish(r, o)
  PROVE  Leases!End(r)
<1>1. TypeOK
  BY DEF IInv
<1>2. call' = call /\ pc[r] = "handling" /\ pc' = [pc EXCEPT ![r] = "done"]
  BY DEF Finish
<1>3. \A s \in Requests \ {r} : token'[s] = token[s]
  BY <1>1 DEF Finish, TypeOK
<1>4. /\ DOMAIN held' = {k \in DOMAIN held : ~ Owns(r, k)}
      /\ \A k \in DOMAIN held' : held'[k] = held[k]
  <2>1. CASE token[r] = NoToken
    <3>1. held' = held
      BY <2>1 DEF Finish
    <3>2. \A k \in DOMAIN held : ~ Owns(r, k)
      BY <1>1, <2>1 DEF Owns, TypeOK, Entry
    <3>3. QED
      BY <3>1, <3>2
  <2>2. CASE token[r] # NoToken
    BY <1>1, <1>2, <2>2 DEF Finish, Released, Owns
  <2>3. QED
    BY <2>1, <2>2
<1>5. running' = running \ {r} /\ r \in running
  BY <1>1, <1>2 DEF running, TypeOK
<1>6. owner' = [k \in Keys |-> owner[k] \ {r}]
  <2> SUFFICES ASSUME NEW k \in Keys, NEW s \in Requests
               PROVE  Owns(s, k)' <=> Owns(s, k) /\ s # r
    BY DEF owner
  <2>1. CASE s = r
    BY <1>1, <1>2, <2>1 DEF Owns, TypeOK
  <2>2. CASE s # r
    <3>1. pc'[s] = pc[s] /\ token'[s] = token[s] /\ call'[s] = call[s]
      BY <1>1, <1>2, <1>3, <2>2 DEF TypeOK
    <3>2. ASSUME Owns(s, k) PROVE k \in DOMAIN held'
      BY <1>4, <2>2, <3>2, OneOwner DEF Owns
    <3>3. QED
      BY <1>4, <2>2, <3>1, <3>2 DEF Owns
  <2>3. QED
    BY <2>1, <2>2
<1>7. \A k \in Keys : owner[k] = {r} <=> Owns(r, k)
  BY OneOwner DEF owner
<1>8. lapsed' = lapsed \ {k \in Keys : owner[k] = {r}}
  BY <1>1, <1>4, <1>7 DEF lapsed, IsStale, TypeOK
<1>9. Wants' = Wants
  BY <1>2 DEF Wants
<1>10. QED
  BY <1>5, <1>6, <1>8, <1>9 DEF Leases!End, Wants, running

\* The passing of time only decides which leases have lapsed.
LEMMA AgesPass ==
  ASSUME IInv, UNCHANGED <<call, pc, token>>,
         DOMAIN held' = DOMAIN held,
         \A k \in DOMAIN held : held'[k].token = held[k].token
  PROVE  Leases!Pass
<1>1. \A k \in Keys, r \in Requests : Owns(r, k)' <=> Owns(r, k)
  BY DEF Owns
<1>2. owner' = owner
  BY <1>1 DEF owner
<1>3. Wants' = Wants /\ running' = running
  BY DEF Wants, running
<1>4. lapsed' \subseteq Keys \ {k \in Keys : owner[k] = {}}
  <2> SUFFICES ASSUME NEW k \in DOMAIN held
               PROVE  k \in Keys /\ owner[k] # {}
    BY DEF lapsed
  <2>1. k \in Keys
    BY DEF IInv, TypeOK
  <2>2. QED
    BY <2>1 DEF IInv, EveryEntryHasOwner, owner
<1>5. QED
  BY <1>2, <1>3, <1>4 DEF Leases!Pass, Leases!Free, Wants, running

\* Every step of the lock is a step of the leases or leaves them unchanged:
\* all a request's keys are granted together, only when free or lapsed, and
\* only the end of a request frees the keys it still holds.
THEOREM ImplementsLeases == Spec => LeasesSpec
<1>1. ASSUME IInv, IInv', [Next]_vars
      PROVE  [Leases!Next]_(Leases!vars)
  <2>1. ASSUME NEW r \in Requests, Start(r) PROVE Leases!Next
    BY <1>1, <2>1, StartGrants DEF Leases!Next
  <2>2. ASSUME NEW r \in Requests, NEW o \in Outcomes, Finish(r, o)
        PROVE  Leases!Next
    BY <1>1, <2>2, FinishEnds DEF Leases!Next
  <2>3. CASE Tick
    <3>1. /\ DOMAIN held' = DOMAIN held
          /\ \A k \in DOMAIN held : held'[k].token = held[k].token
      BY <1>1, <2>3 DEF Tick, IInv, TypeOK, Entry
    <3>2. UNCHANGED <<call, pc, token>>
      BY <2>3 DEF Tick
    <3>3. QED
      BY <1>1, <3>1, <3>2, AgesPass DEF Leases!Next
  <2>4. CASE ClockStepBack
    <3>1. /\ DOMAIN held' = DOMAIN held
          /\ \A k \in DOMAIN held : held'[k].token = held[k].token
      BY <1>1, <2>4 DEF ClockStepBack, IInv, TypeOK, Entry
    <3>2. UNCHANGED <<call, pc, token>>
      BY <2>4 DEF ClockStepBack
    <3>3. QED
      BY <1>1, <3>1, <3>2, AgesPass DEF Leases!Next
  <2>5. CASE Restart
    <3>1. DOMAIN held' = {} /\ call' = call
      BY <2>5 DEF Restart
    <3>2. running' = {}
      BY <1>1, <2>5 DEF Restart, running, IInv, TypeOK
    <3>3. owner' = [k \in Keys |-> {}] /\ lapsed' = {} /\ Wants' = Wants
      BY <3>1 DEF owner, lapsed, Owns, Wants
    <3>4. QED
      BY <3>2, <3>3 DEF Leases!Crash, Leases!Next, running, Wants
  <2>6. ASSUME UNCHANGED <<call, held, pc, token>> PROVE UNCHANGED Leases!vars
    <3>1. owner' = owner
      BY <2>6 DEF owner, Owns
    <3>2. QED
      BY <2>6, <3>1 DEF Leases!vars, lapsed, IsStale
  <2>7. ASSUME NEW r \in Requests, Refuse(r) PROVE UNCHANGED Leases!vars
    BY <2>6, <2>7 DEF Refuse
  <2>8. QED
    BY <1>1, <2>1, <2>2, <2>3, <2>4, <2>5, <2>6, <2>7 DEF Next, vars
<1>2. QED
  BY <1>1, InitLeases, SpecIInv, PTL DEF Spec, LeasesSpec, Leases!Spec

=============================================================================
