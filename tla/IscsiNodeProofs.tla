-------------------------- MODULE IscsiNodeProofs --------------------------
(***************************************************************************)
(* Theorems about IscsiNode, for every set of volumes, of portals and of   *)
(* layouts, any staleness threshold and any number of changes, faults and  *)
(* outages.                                                                *)
(*                                                                         *)
(* What the properties need beyond themselves: handlers run for the CO's   *)
(* goal, so a volume that is being unstaged gets no session and one that   *)
(* is being staged loses none to its own handler; the reaper's list is     *)
(* what it saw when its pass began; and an orphan stays without a session  *)
(* until a call for its volume begins.                                     *)
(***************************************************************************)
EXTENDS IscsiNode, TLAPS

\* The steps of the two calls, those of them in a loop over portals, and the states of
\* a session.
StageSteps == {"create", "login", "session", "device", "mount", "expand"}

UnstageSteps == {"umount", "sessions", "fallback", "logout", "verifylogout", "delete",
                 "verifydelete", "remaining", "finish"}

States == {"none", "nodevice", "running", "offline"}

Steps == {"idle"} \cup StageSteps \cup UnstageSteps

LoopSteps == {"create", "login", "session", "device", "logout", "verifylogout", "delete",
              "verifydelete"}

\* The types, in parts that different actors change; they are those of TypeOK,
\* and what it does not say of the daemons' records.
CallTypes ==
    /\ goal \in [Volumes -> {"staged", "unstaged"}]
    /\ acked \in [Volumes -> BOOLEAN]
    /\ pc \in [Volumes -> Steps]
    /\ todo \in [Volumes -> SUBSET Portals]
    /\ got \in [Volumes -> SUBSET Portals]
    /\ block \in [Volumes -> BOOLEAN]
    /\ dead \in [Volumes -> BOOLEAN]
    /\ \A v \in Volumes : pc[v] \in LoopSteps <=> todo[v] # {}

NodeTypes ==
    /\ layout \in [Volumes -> Layout]
    /\ target \in [Volumes -> BOOLEAN]
    /\ sess \in [Sessions -> States]
    /\ record \subseteq Sessions
    /\ mount \in [Volumes -> {"none", "device", "stale"}]
    /\ calm \in [Volumes -> BOOLEAN]

DaemonTypes ==
    /\ sweep \in [at : {"waiting", "sessions", "exists", "recheck", "delete", "done"},
                  todo : SUBSET Sessions]
    /\ sweep.at \in {"exists", "recheck", "delete"} => sweep.todo # {}
    /\ reap \in [at : {"idle", "evaluate", "logout", "delete"},
                 todo : SUBSET (Sessions \X States),
                 seen : SUBSET Sessions, ok : BOOLEAN]
    /\ reap.at = "idle" <=> reap.todo = {}
    /\ stale \in [Sessions -> 0 .. MinStale + 1]
    /\ orphaned \subseteq Sessions

BoundTypes == {changes, faults, outages} \subseteq Nat

Types == CallTypes /\ NodeTypes /\ DaemonTypes /\ BoundTypes

\* A handler runs for the goal that the CO has.
HandlersServeGoals ==
    \A v \in Volumes :
      /\ pc[v] \in StageSteps => goal[v] = "staged"
      /\ pc[v] \in UnstageSteps => goal[v] = "unstaged"

\* Sessions and records are on the portals of their volume, and so is what
\* handlers deal with.
PortalsAreReal ==
    /\ \A s \in Sessions : LoggedIn(s) \/ s \in record => s[2] \in PortalsOf(s[1])
    /\ \A v \in Volumes : todo[v] \cup got[v] \subseteq PortalsOf(v)

\* No session of a volume is left.
SessionFree(v) == \A p \in PortalsOf(v) : ~ LoggedIn(<<v, p>>)

\* NodeUnstageVolume that goes to its end has seen that no session is left.
NoSessionAtTheEnd ==
    \A v \in Volumes :
      layout[v].embedded /\ pc[v] \in {"fallback", "finish"} => SessionFree(v)

\* Calm lasts.
CalmIsUndisturbed ==
    \A v \in Volumes : calm[v] => goal[v] = "staged" /\ Undisturbed(v)

\* In the calm, what staging has mounted stays mounted.
CalmMountsStay ==
    \A v \in Volumes : calm[v] /\ pc[v] = "expand" => mount[v] = "device"

\* A record that the sweeper has to delete is of a volume that is not being staged
\* and has no session.
OrphansStay ==
    \A s \in orphaned :
      pc[s[1]] \notin StageSteps /\ SessionFree(s[1])

\* The sweeper has still to do what it has to delete.
OrphansAreListed ==
    /\ sweep.at \in {"waiting", "sessions"} => orphaned = {}
    /\ sweep.at \in {"exists", "recheck", "delete"} =>
         orphaned \cap record \subseteq sweep.todo

\* The inductive invariant.
IInv ==
    /\ Types /\ HandlersServeGoals /\ PortalsAreReal /\ NoSessionAtTheEnd
    /\ AckedUnstageIsDetached /\ CalmIsUndisturbed /\ CalmMountsStay
    /\ AckedStageIsUsable /\ OrphansStay /\ OrphansAreListed /\ OrphansAreSwept
----------------------------------------------------------------------------
(* Choices, layouts, and the ways in which handlers go on.                 *)

\* A list that is not empty has a first element.
LEMMA FirstIn ==
  ASSUME NEW S, S # {}
  PROVE  First(S) \in S
BY DEF First

\* A volume has a portal at least.
LEMMA LayoutFacts ==
  ASSUME Types, NEW v \in Volumes
  PROVE  /\ layout[v].embedded \in BOOLEAN
         /\ PortalsOf(v) \subseteq Portals /\ PortalsOf(v) # {}
<1>1. layout[v] \in Layout
  BY DEF Types, NodeTypes
<1>2. QED
  BY <1>1 DEF Layout, PortalsOf

\* What a handler is at is a session of its volume.
LEMMA HereIsMine ==
  ASSUME Types, NEW v \in Volumes, pc[v] \in LoopSteps
  PROVE  /\ First(todo[v]) \in todo[v]
         /\ Here(v) \in Sessions /\ Here(v)[1] = v /\ Here(v)[2] = First(todo[v])
BY FirstIn DEF Types, CallTypes, Here, Sessions

\* A handler that goes on or answers keeps its variables typed.
LEMMA GoesTypes ==
  ASSUME Types, NEW v \in Volumes, NEW next \in Steps, Goes(v, next),
         next \in LoopSteps <=> pc[v] \in LoopSteps, UNCHANGED <<goal, acked>>
  PROVE  CallTypes'
BY DEF Types, CallTypes, Goes

\* So does one that answers.
LEMMA AnswersTypes ==
  ASSUME Types, NEW v \in Volumes, NEW ok \in BOOLEAN, Answers(v, ok), goal' = goal
  PROVE  CallTypes'
BY DEF Types, CallTypes, Answers, Steps, LoopSteps

\* A failure is an answer.
LEMMA FailsTypes ==
  ASSUME Types, NEW v \in Volumes, Fails(v), goal' = goal
  PROVE  CallTypes'
BY AnswersTypes DEF Fails

\* What logging out leaves, and what the sweeper and the reaper go on to.
LEMMA LogsOutTypes ==
  ASSUME Types, NEW s \in Sessions, LogsOut(s)
  PROVE  sess' \in [Sessions -> States] /\ mount' \in [Volumes -> {"none", "device", "stale"}]
BY DEF Types, NodeTypes, LogsOut, States, Sessions

\* The sweeper's record, after any of its steps.
LEMMA SweepToTypes ==
  ASSUME NEW at \in {"sessions", "exists", "recheck", "delete"},
         NEW rest \in SUBSET Sessions, SweepTo(rest, at)
  PROVE  /\ sweep' \in [at : {"waiting", "sessions", "exists", "recheck", "delete", "done"},
                        todo : SUBSET Sessions]
         /\ sweep'.at \in {"exists", "recheck", "delete"} => sweep'.todo # {}
BY DEF SweepTo

\* The reaper's record and timers, when its pass goes on.
LEMMA PassTypes ==
  ASSUME NEW rest \in SUBSET (Sessions \X States), NEW seen \in SUBSET Sessions,
         NEW tracked \in [Sessions -> 0 .. MinStale + 1], PassGoesOn(rest, seen, tracked)
  PROVE  /\ reap' \in [at : {"idle", "evaluate", "logout", "delete"},
                       todo : SUBSET (Sessions \X States),
                       seen : SUBSET Sessions, ok : BOOLEAN]
         /\ reap'.at = "idle" <=> reap'.todo = {}
         /\ stale' \in [Sessions -> 0 .. MinStale + 1]
BY MinStaleAssumption DEF PassGoesOn

\* The timers of sessions seen stale do not pass the threshold by more than one.
LEMMA LaterTypes ==
  ASSUME Types
  PROVE  Later \in [Sessions -> 0 .. MinStale + 1]
BY MinStaleAssumption DEF Types, DaemonTypes, Later

\* The variables of calls and handlers keep their types.
LEMMA CallTypesNext ==
  ASSUME Types, [Next]_vars
  PROVE  CallTypes'
<1> USE DEF Types, Steps, StageSteps, UnstageSteps, LoopSteps
<1>1. ASSUME NEW v \in Volumes, Wants(v) PROVE CallTypes'
  BY <1>1 DEF Wants, CallTypes, local
<1>2. ASSUME NEW v \in Volumes, NodeStageVolume(v) PROVE CallTypes'
  BY <1>2, LayoutFacts DEF NodeStageVolume, CallTypes
<1>3. ASSUME NEW v \in Volumes, CreateNodeDBEntry(v) \/ Login(v) PROVE CallTypes'
  BY <1>3, GoesTypes DEF CreateNodeDBEntry, Login, elsewhere
<1>4. ASSUME NEW v \in Volumes, LoginGivesUp(v) \/ HandlerFails(v) PROVE CallTypes'
  BY <1>4, FailsTypes DEF LoginGivesUp, HandlerFails, elsewhere
<1>5. ASSUME NEW v \in Volumes, FindSession(v) \/ Mount(v) PROVE CallTypes'
  BY <1>5, GoesTypes, FailsTypes DEF FindSession, Mount, elsewhere
<1>6. ASSUME NEW v \in Volumes, WaitForDevice(v) PROVE CallTypes'
  BY <1>6, FirstIn DEF WaitForDevice, elsewhere, CallTypes
<1>7. ASSUME NEW v \in Volumes, Expand(v) \/ Finish(v) PROVE CallTypes'
  <2>1. GotUsable(v) \in BOOLEAN /\ (mount[v] = "none") \in BOOLEAN
    BY DEF GotUsable
  <2>2. QED
    BY <1>7, <2>1, AnswersTypes DEF Expand, Finish, elsewhere
<1>8. ASSUME NEW v \in Volumes, NodeUnstageVolume(v) PROVE CallTypes'
  BY <1>8 DEF NodeUnstageVolume, elsewhere, CallTypes
<1>9. ASSUME NEW v \in Volumes, Umount(v) \/ Logout(v) \/ DeleteNodeDBEntry(v)
      PROVE  CallTypes'
  BY <1>9, GoesTypes DEF Umount, Logout, DeleteNodeDBEntry
<1>10. ASSUME NEW v \in Volumes, ForceUmount(v) PROVE CallTypes'
  BY <1>10 DEF ForceUmount, CallTypes
<1>11. ASSUME NEW v \in Volumes, FindSessions(v) PROVE CallTypes'
  <2> DEFINE matches == {p \in PortalsOf(v) : LoggedIn(<<v, p>>) /\ layout[v].embedded}
  <2>1. matches \subseteq Portals
    BY LayoutFacts
  <2> HIDE DEF matches
  <2>2. /\ todo' = [todo EXCEPT ![v] = matches]
        /\ pc' = [pc EXCEPT ![v] = IF matches = {} THEN "fallback" ELSE "logout"]
        /\ UNCHANGED <<goal, acked, got, block, dead>> /\ pc[v] = "sessions"
    BY <1>11 DEF FindSessions, elsewhere, matches
  <2>3. QED
    BY <2>1, <2>2 DEF CallTypes
<1>12. ASSUME NEW v \in Volumes, FindSessionsByDevice(v) PROVE CallTypes'
  <2>1. CASE ~ block[v] \/ dead[v]
    BY <1>12, <2>1, GoesTypes DEF FindSessionsByDevice, elsewhere
  <2>2. CASE ~ (~ block[v] \/ dead[v]) /\ Attached(v) = {}
    BY <1>12, <2>2, FailsTypes DEF FindSessionsByDevice, elsewhere
  <2>3. CASE ~ (~ block[v] \/ dead[v]) /\ Attached(v) # {}
    <3>1. Attached(v) \subseteq Portals
      BY LayoutFacts DEF Attached
    <3>2. /\ todo' = [todo EXCEPT ![v] = Attached(v)]
          /\ pc' = [pc EXCEPT ![v] = "logout"]
          /\ UNCHANGED <<goal, acked, got, block, dead>> /\ pc[v] = "fallback"
      BY <1>12, <2>3 DEF FindSessionsByDevice, elsewhere
    <3>3. QED
      BY <2>3, <3>1, <3>2 DEF CallTypes
  <2>4. QED
    BY <2>1, <2>2, <2>3
<1>13. ASSUME NEW v \in Volumes, VerifyLogout(v) \/ Remaining(v) PROVE CallTypes'
  BY <1>13, GoesTypes, FailsTypes DEF VerifyLogout, Remaining, elsewhere
<1>14. ASSUME NEW v \in Volumes, VerifyDelete(v) PROVE CallTypes'
  <2>1. CASE Here(v) \in record
    BY <1>14, <2>1, FailsTypes DEF VerifyDelete, elsewhere
  <2>2. CASE Here(v) \notin record
    <3>1. /\ todo' = [todo EXCEPT ![v] = @ \ {First(@)}]
          /\ pc' = [pc EXCEPT ![v] = IF todo'[v] = {} THEN "remaining" ELSE "logout"]
          /\ UNCHANGED <<goal, acked, got, block, dead>> /\ pc[v] = "verifydelete"
      BY <1>14, <2>2 DEF VerifyDelete, elsewhere
    <3>2. QED
      BY <3>1 DEF CallTypes
  <2>3. QED
    BY <2>1, <2>2
<1>15. ASSUME NEW v \in Volumes, TargetFails(v) \/ TargetReturns(v) PROVE CallTypes'
  BY <1>15 DEF TargetFails, TargetReturns, CallTypes, local
<1>16. ASSUME NEW s \in Sessions, DeviceChanges(s) PROVE CallTypes'
  BY <1>16 DEF DeviceChanges, CallTypes, local
<1>17. CASE Sweeper \/ SweepFails
  BY <1>17 DEF Sweeper, ListNodeDBEntries, SelectOrphanedRecords, RecheckRecord,
     RecheckSessions, DeleteOrphan, SweepFails, handlers, local, CallTypes
<1>18. CASE Reaper \/ PassFails \/ ReaperLogoutFails
  BY <1>18 DEF Reaper, BeginPass, Evaluate, ReaperLogsOut, ReaperDeletes, PassFails,
     ReaperLogoutFails, handlers, local, CallTypes
<1>19. CASE Restart \/ Reboot
  <2>1. CASE Restart
    BY <2>1 DEF Restart, Killed, CallTypes
  <2>2. CASE Reboot
    BY <2>2 DEF Reboot, Killed, CallTypes
  <2>3. QED
    BY <1>19, <2>1, <2>2
<1>20. CASE UNCHANGED vars
  BY <1>20 DEF vars, local, CallTypes
<1>21. QED
  BY <1>1, <1>2, <1>3, <1>4, <1>5, <1>6, <1>7, <1>8, <1>9, <1>10, <1>11, <1>12, <1>13,
     <1>14, <1>15, <1>16, <1>17, <1>18, <1>19, <1>20 DEF Next, StageStep, UnstageStep

\* So do the kernel's and iscsid's.
LEMMA NodeTypesNext ==
  ASSUME Types, [Next]_vars
  PROVE  NodeTypes'
<1>1. ASSUME NEW v \in Volumes,
             \/ Wants(v) \/ NodeStageVolume(v) \/ LoginGivesUp(v) \/ FindSession(v)
             \/ WaitForDevice(v) \/ Expand(v) \/ NodeUnstageVolume(v) \/ FindSessions(v)
             \/ FindSessionsByDevice(v) \/ VerifyLogout(v) \/ VerifyDelete(v)
             \/ Remaining(v) \/ Finish(v) \/ HandlerFails(v)
      PROVE  /\ UNCHANGED <<layout, target, node>>
             /\ calm' = calm \/ \E b \in BOOLEAN : calm' = [calm EXCEPT ![v] = b]
  <2>1. Undisturbed(v) \in BOOLEAN
    BY DEF Undisturbed
  <2>2. CASE Wants(v) \/ NodeStageVolume(v)
    BY <2>1, <2>2 DEF Wants, NodeStageVolume, Types, NodeTypes
  <2>3. CASE ~ (Wants(v) \/ NodeStageVolume(v))
    BY <1>1, <2>3 DEF LoginGivesUp, FindSession, WaitForDevice, Expand,
       NodeUnstageVolume, FindSessions, FindSessionsByDevice, VerifyLogout, VerifyDelete,
       Remaining, Finish, HandlerFails, elsewhere, ghosts
  <2>4. QED
    BY <2>2, <2>3
<1>2. ASSUME NEW v \in Volumes,
             \/ Wants(v) \/ NodeStageVolume(v) \/ LoginGivesUp(v) \/ FindSession(v)
             \/ WaitForDevice(v) \/ Expand(v) \/ NodeUnstageVolume(v) \/ FindSessions(v)
             \/ FindSessionsByDevice(v) \/ VerifyLogout(v) \/ VerifyDelete(v)
             \/ Remaining(v) \/ Finish(v) \/ HandlerFails(v)
      PROVE  NodeTypes'
  BY <1>1, <1>2 DEF node, Types, NodeTypes
<1>3. ASSUME NEW v \in Volumes, CreateNodeDBEntry(v) PROVE NodeTypes'
  BY <1>3, HereIsMine DEF CreateNodeDBEntry, elsewhere, ghosts, Types, NodeTypes, LoopSteps
<1>4. ASSUME NEW v \in Volumes, Login(v) PROVE NodeTypes'
  BY <1>4, HereIsMine
     DEF Login, elsewhere, ghosts, Types, NodeTypes, LoopSteps, States
<1>5. ASSUME NEW v \in Volumes, Mount(v) \/ Umount(v) \/ ForceUmount(v) PROVE NodeTypes'
  BY <1>5 DEF Mount, Umount, ForceUmount, elsewhere, ghosts, Types, NodeTypes
<1>6. ASSUME NEW v \in Volumes, Logout(v) PROVE NodeTypes'
  BY <1>6, HereIsMine, LogsOutTypes DEF Logout, ghosts, Types, NodeTypes, LoopSteps
<1>7. ASSUME NEW v \in Volumes, DeleteNodeDBEntry(v) PROVE NodeTypes'
  BY <1>7 DEF DeleteNodeDBEntry, Deletes, ghosts, Types, NodeTypes
<1>8. ASSUME NEW v \in Volumes, TargetFails(v) \/ TargetReturns(v) PROVE NodeTypes'
  BY <1>8 DEF TargetFails, TargetReturns, node, ghosts, Types, NodeTypes
<1>9. ASSUME NEW s \in Sessions, DeviceChanges(s) PROVE NodeTypes'
  BY <1>9 DEF DeviceChanges, ghosts, Types, NodeTypes, States
<1>10. CASE Sweeper \/ SweepFails
  BY <1>10 DEF Sweeper, ListNodeDBEntries, SelectOrphanedRecords, RecheckRecord,
     RecheckSessions, DeleteOrphan, Deletes, SweepFails, handlers, node, ghosts,
     Types, NodeTypes
<1>11. CASE BeginPass \/ Evaluate \/ ReaperDeletes \/ PassFails \/ ReaperLogoutFails
  BY <1>11 DEF BeginPass, Evaluate, ReaperDeletes, Deletes, PassFails,
     ReaperLogoutFails, handlers, node, ghosts, Types, NodeTypes
<1>12. CASE ReaperLogsOut
  <2>1. First(reap.todo)[1] \in Sessions
    BY <1>12, FirstIn DEF ReaperLogsOut, Types, DaemonTypes
  <2>2. QED
    BY <1>12, <2>1, LogsOutTypes DEF ReaperLogsOut, handlers, ghosts, Types, NodeTypes
<1>13. CASE Restart \/ Reboot
  <2>1. CASE Restart
    BY <2>1 DEF Restart, Killed, Types, NodeTypes, States
  <2>2. CASE Reboot
    BY <2>2 DEF Reboot, Killed, Types, NodeTypes, States
  <2>3. QED
    BY <1>13, <2>1, <2>2
<1>14. CASE UNCHANGED vars
  BY <1>14 DEF vars, node, ghosts, Types, NodeTypes
<1>15. QED
  BY <1>2, <1>3, <1>4, <1>5, <1>6, <1>7, <1>8, <1>9, <1>10, <1>11, <1>12, <1>13, <1>14
     DEF Next, StageStep, UnstageStep, Reaper

\* And the daemons'.
LEMMA DaemonTypesNext ==
  ASSUME Types, [Next]_vars
  PROVE  DaemonTypes'
<1>1. ASSUME NEW v \in Volumes,
             \/ Wants(v) \/ NodeStageVolume(v) \/ NodeUnstageVolume(v)
             \/ StageStep(v) \/ LoginGivesUp(v) \/ UnstageStep(v)
             \/ HandlerFails(v) \/ TargetFails(v) \/ TargetReturns(v)
      PROVE  UNCHANGED daemons /\ orphaned' \subseteq orphaned
  BY <1>1 DEF Wants, NodeStageVolume, NodeUnstageVolume, StageStep, CreateNodeDBEntry,
     Login, FindSession, WaitForDevice, Mount, Expand, LoginGivesUp, UnstageStep, Umount,
     ForceUmount, FindSessions, FindSessionsByDevice, Logout, VerifyLogout,
     DeleteNodeDBEntry, VerifyDelete, Remaining, Finish, HandlerFails, TargetFails,
     TargetReturns, elsewhere, ghosts
<1>2. ASSUME UNCHANGED daemons, orphaned' \subseteq orphaned PROVE DaemonTypes'
  BY <1>2 DEF daemons, Types, DaemonTypes
<1>3. ASSUME NEW s \in Sessions, DeviceChanges(s) PROVE DaemonTypes'
  BY <1>2, <1>3 DEF DeviceChanges, ghosts
<1> DEFINE todo0 == sweep.todo
           rest0 == reap.todo
<1>4. /\ todo0 \in SUBSET Sessions /\ record \in SUBSET Sessions
      /\ rest0 \in SUBSET (Sessions \X States) /\ reap.seen \in SUBSET Sessions
  BY DEF Types, NodeTypes, DaemonTypes
<1>5. SweepTo(record, "sessions") \/ SweepTo({s \in todo0 : ~ HasSession(s)}, "exists")
        \/ SkipOrphan \/ SweepTo(todo0, "recheck") \/ SweepTo(todo0, "delete")
      => /\ sweep' \in [at : {"waiting", "sessions", "exists", "recheck", "delete", "done"},
                        todo : SUBSET Sessions]
         /\ sweep'.at \in {"exists", "recheck", "delete"} => sweep'.todo # {}
  <2>1. /\ {s \in todo0 : ~ HasSession(s)} \in SUBSET Sessions
        /\ todo0 \ {First(todo0)} \in SUBSET Sessions
    BY <1>4
  <2>2. QED
    BY <1>4, <2>1, SweepToTypes DEF SkipOrphan
<1>6. CASE Sweeper
  BY <1>5, <1>6 DEF Sweeper, ListNodeDBEntries, SelectOrphanedRecords, RecheckRecord,
     RecheckSessions, DeleteOrphan, ghosts, Types, DaemonTypes
<1>7. CASE SweepFails
  BY <1>5, <1>7 DEF SweepFails, Types, DaemonTypes
<1>8. CASE BeginPass
  <2> DEFINE found == {<<s, sess[s]>> : s \in {t \in Sessions : LoggedIn(t)}}
  <2>1. found \in SUBSET (Sessions \X States)
    BY DEF Types, NodeTypes
  <2>2. PassGoesOn(found, {}, Later)
    BY <1>8 DEF BeginPass
  <2> HIDE DEF found
  <2>3. QED
    BY <1>8, <2>1, <2>2, LaterTypes, PassTypes DEF BeginPass, Types, DaemonTypes
<1>9. CASE Evaluate
  <2> DEFINE e == First(reap.todo)
             s == e[1]
             firstSeen == [stale EXCEPT ![s] = IF @ = 0 THEN 1 ELSE @]
  <2>1. e \in Sessions \X States /\ s \in Sessions
    BY <1>9, FirstIn DEF Evaluate, Types, DaemonTypes
  <2>2. /\ firstSeen \in [Sessions -> 0 .. MinStale + 1]
        /\ [stale EXCEPT ![s] = 0] \in [Sessions -> 0 .. MinStale + 1]
    BY <2>1, MinStaleAssumption DEF Types, DaemonTypes
  <2>3. /\ rest0 \ {e} \in SUBSET (Sessions \X States)
        /\ reap.seen \cup {s} \in SUBSET Sessions
    BY <1>4, <2>1
  <2>4. \/ PassGoesOn(rest0 \ {e}, reap.seen, [stale EXCEPT ![s] = 0])
        \/ PassGoesOn(rest0 \ {e}, reap.seen \cup {s}, firstSeen)
        \/ reap' = [reap EXCEPT !.at = "logout", !.seen = @ \cup {s}] /\ stale' = firstSeen
    BY <1>9 DEF Evaluate
  <2>5. reap.at = "evaluate" /\ UNCHANGED <<sweep, orphaned>>
    BY <1>9 DEF Evaluate
  <2> HIDE DEF e, s, firstSeen
  <2>6. CASE reap' = [reap EXCEPT !.at = "logout", !.seen = @ \cup {s}] /\ stale' = firstSeen
    BY <2>1, <2>2, <2>5, <2>6 DEF Types, DaemonTypes
  <2>7. CASE ~ (reap' = [reap EXCEPT !.at = "logout", !.seen = @ \cup {s}]
                /\ stale' = firstSeen)
    BY <1>4, <2>2, <2>3, <2>4, <2>5, <2>7, PassTypes DEF Types, DaemonTypes
  <2>8. QED
    BY <2>6, <2>7
<1>10. CASE ReaperLogsOut \/ ReaperLogoutFails
  BY <1>10 DEF ReaperLogsOut, ReaperLogoutFails, ghosts, Types, DaemonTypes
<1>11. CASE ReaperDeletes
  <2> DEFINE e == First(reap.todo)
  <2>1. e \in Sessions \X States
    BY <1>11, FirstIn DEF ReaperDeletes, Types, DaemonTypes
  <2>2. /\ stale \in [Sessions -> 0 .. MinStale + 1]
        /\ [stale EXCEPT ![e[1]] = 0] \in [Sessions -> 0 .. MinStale + 1]
    BY <2>1, MinStaleAssumption DEF Types, DaemonTypes
  <2>3. rest0 \ {e} \in SUBSET (Sessions \X States) /\ reap.seen \ {e[1]} \in SUBSET Sessions
    BY <1>4
  <2>4. \/ PassGoesOn(rest0 \ {e}, reap.seen \ {e[1]}, [stale EXCEPT ![e[1]] = 0])
        \/ PassGoesOn(rest0 \ {e}, reap.seen, stale)
    BY <1>11 DEF ReaperDeletes
  <2>5. UNCHANGED <<sweep, orphaned>>
    BY <1>11 DEF ReaperDeletes
  <2> HIDE DEF e
  <2>6. QED
    BY <1>4, <2>2, <2>3, <2>4, <2>5, PassTypes DEF Types, DaemonTypes
<1>12. CASE PassFails
  BY <1>12, LaterTypes DEF PassFails, ghosts, Types, DaemonTypes
<1>13. CASE Restart \/ Reboot
  <2>1. CASE Restart
    BY <2>1, MinStaleAssumption DEF Restart, Killed, Types, DaemonTypes
  <2>2. CASE Reboot
    BY <2>2, MinStaleAssumption DEF Reboot, Killed, Types, DaemonTypes
  <2>3. QED
    BY <1>13, <2>1, <2>2
<1>14. CASE UNCHANGED vars
  BY <1>2, <1>14 DEF vars, ghosts
<1>15. QED
  BY <1>1, <1>2, <1>3, <1>6, <1>7, <1>8, <1>9, <1>10, <1>11, <1>12, <1>13, <1>14
     DEF Next, Reaper

\* What is left of the bounds.
LEMMA BoundTypesNext ==
  ASSUME Types, [Next]_vars
  PROVE  BoundTypes'
<1> DEFINE CountDown ==
             /\ changes' = changes \/ (changes > 0 /\ changes' = changes - 1)
             /\ faults' = faults \/ (faults > 0 /\ faults' = faults - 1)
             /\ outages' = outages \/ (outages > 0 /\ outages' = outages - 1)
<1>1. CountDown
  <2>1. ASSUME NEW v \in Volumes,
               \/ Wants(v) \/ NodeStageVolume(v) \/ NodeUnstageVolume(v)
               \/ StageStep(v) \/ LoginGivesUp(v) \/ UnstageStep(v)
               \/ HandlerFails(v) \/ TargetFails(v) \/ TargetReturns(v)
        PROVE  CountDown
    BY <2>1 DEF Wants, NodeStageVolume, NodeUnstageVolume, StageStep, CreateNodeDBEntry,
       Login, FindSession, WaitForDevice, Mount, Expand, LoginGivesUp, UnstageStep,
       Umount, ForceUmount, FindSessions, FindSessionsByDevice, Logout, VerifyLogout,
       DeleteNodeDBEntry, VerifyDelete, Remaining, Finish, HandlerFails, TargetFails,
       TargetReturns, Fault, elsewhere, bounds
  <2>2. CASE Sweeper \/ SweepFails
    BY <2>2 DEF Sweeper, ListNodeDBEntries, SelectOrphanedRecords, RecheckRecord,
       RecheckSessions, DeleteOrphan, SweepFails, Fault, bounds
  <2>3. CASE Reaper \/ PassFails \/ ReaperLogoutFails
    BY <2>3 DEF Reaper, BeginPass, Evaluate, ReaperLogsOut, ReaperDeletes, PassFails,
       ReaperLogoutFails, Fault, bounds
  <2>4. CASE (\E s \in Sessions : DeviceChanges(s)) \/ Restart \/ Reboot \/ UNCHANGED vars
    BY <2>4 DEF DeviceChanges, Restart, Reboot, Killed, Fault, vars, bounds
  <2> HIDE DEF CountDown
  <2>5. QED
    BY <2>1, <2>2, <2>3, <2>4 DEF Next
<1>2. QED
  BY <1>1 DEF Types, BoundTypes

\* What TypeOK says is among the types.
LEMMA TypesAreTypeOK == Types => TypeOK
BY DEF Types, CallTypes, NodeTypes, DaemonTypes, BoundTypes, TypeOK, Steps, StageSteps,
   UnstageSteps, LoopSteps, States
----------------------------------------------------------------------------
(* The parts of the inductive invariant.                                   *)

\* A handler's step stays among the steps of its call, and no other step moves it.
LEMMA HandlersNext ==
  ASSUME IInv, [Next]_vars
  PROVE  HandlersServeGoals'
<1> USE DEF IInv, Types, CallTypes, HandlersServeGoals, Steps, StageSteps, UnstageSteps
<1>1. ASSUME NEW v \in Volumes, Wants(v) PROVE HandlersServeGoals'
  BY <1>1 DEF Wants, local
<1>2. ASSUME NEW v \in Volumes, NodeStageVolume(v) \/ NodeUnstageVolume(v)
      PROVE  HandlersServeGoals'
  BY <1>2 DEF NodeStageVolume, NodeUnstageVolume, elsewhere
<1>3. ASSUME NEW v \in Volumes, StageStep(v) \/ LoginGivesUp(v) PROVE HandlersServeGoals'
  BY <1>3 DEF StageStep, CreateNodeDBEntry, Login, FindSession, WaitForDevice, Mount,
     Expand, LoginGivesUp, Goes, Fails, Answers, elsewhere
<1>4. ASSUME NEW v \in Volumes, UnstageStep(v) PROVE HandlersServeGoals'
  BY <1>4 DEF UnstageStep, Umount, ForceUmount, FindSessions, FindSessionsByDevice,
     Logout, VerifyLogout, DeleteNodeDBEntry, VerifyDelete, Remaining, Finish, Goes,
     Fails, Answers, elsewhere
<1>5. ASSUME NEW v \in Volumes, HandlerFails(v) \/ TargetFails(v) \/ TargetReturns(v)
      PROVE  HandlersServeGoals'
  BY <1>5 DEF HandlerFails, Fails, Answers, TargetFails, TargetReturns, local
<1>6. ASSUME NEW s \in Sessions, DeviceChanges(s) PROVE HandlersServeGoals'
  BY <1>6 DEF DeviceChanges, local
<1>7. CASE Sweeper \/ SweepFails
  BY <1>7 DEF Sweeper, ListNodeDBEntries, SelectOrphanedRecords, RecheckRecord,
     RecheckSessions, DeleteOrphan, SweepFails, handlers, local
<1>8. CASE Reaper \/ PassFails \/ ReaperLogoutFails
  BY <1>8 DEF Reaper, BeginPass, Evaluate, ReaperLogsOut, ReaperDeletes, PassFails,
     ReaperLogoutFails, handlers, local
<1>9. CASE Restart \/ Reboot
  BY <1>9 DEF Restart, Reboot, Killed
<1>10. CASE UNCHANGED vars
  BY <1>10 DEF vars, local
<1>11. QED
  BY <1>1, <1>2, <1>3, <1>4, <1>5, <1>6, <1>7, <1>8, <1>9, <1>10 DEF Next

\* How the sessions change: staging adds one, on a portal of its volume; devices come
\* and recover while the target works; the handler and the reaper log out.
LEMMA SessionsChange ==
  ASSUME IInv, [Next]_vars
  PROVE  \/ sess' = sess
         \/ \E v \in Volumes :
              /\ pc[v] = "login" /\ ~ LoggedIn(Here(v))
              /\ sess' = [sess EXCEPT ![Here(v)] = "nodevice"]
         \/ \E s \in Sessions : DeviceChanges(s)
         \/ \E v \in Volumes : pc[v] = "logout" /\ LogsOut(Here(v))
         \/ reap.at = "logout" /\ LogsOut(First(reap.todo)[1])
         \/ sess' = [s \in Sessions |-> "none"] /\ calm' = [v \in Volumes |-> FALSE]
<1>1. ASSUME NEW v \in Volumes,
             \/ Wants(v) \/ NodeStageVolume(v) \/ NodeUnstageVolume(v)
             \/ StageStep(v) \/ LoginGivesUp(v) \/ UnstageStep(v)
             \/ HandlerFails(v) \/ TargetFails(v) \/ TargetReturns(v)
      PROVE  \/ sess' = sess
             \/ /\ pc[v] = "login" /\ ~ LoggedIn(Here(v))
                /\ sess' = [sess EXCEPT ![Here(v)] = "nodevice"]
             \/ pc[v] = "logout" /\ LogsOut(Here(v))
  BY <1>1 DEF Wants, NodeStageVolume, NodeUnstageVolume, StageStep, CreateNodeDBEntry,
     Login, FindSession, WaitForDevice, Mount, Expand, LoginGivesUp, UnstageStep, Umount,
     ForceUmount, FindSessions, FindSessionsByDevice, Logout, VerifyLogout,
     DeleteNodeDBEntry, VerifyDelete, Remaining, Finish, HandlerFails, TargetFails,
     TargetReturns, node
<1>2. CASE Sweeper \/ SweepFails
  BY <1>2 DEF Sweeper, ListNodeDBEntries, SelectOrphanedRecords, RecheckRecord,
     RecheckSessions, DeleteOrphan, SweepFails, node
<1>3. CASE Reaper \/ PassFails \/ ReaperLogoutFails
  BY <1>3 DEF Reaper, BeginPass, Evaluate, ReaperLogsOut, ReaperDeletes, PassFails,
     ReaperLogoutFails, node
<1>4. CASE Restart \/ Reboot \/ UNCHANGED vars
  BY <1>4 DEF Restart, Reboot, vars, node
<1>5. QED
  BY <1>1, <1>2, <1>3, <1>4 DEF Next


\* What the reaper is at is a session.
LEMMA ReapedSession ==
  ASSUME IInv, reap.at # "idle"
  PROVE  First(reap.todo)[1] \in Sessions
<1>1. First(reap.todo) \in Sessions \X States
  BY FirstIn DEF IInv, Types, DaemonTypes
<1>2. QED
  BY <1>1

\* Logging out ends one session, and may leave its volume's staging path stale.
LEMMA LogsOutOfOne ==
  ASSUME Types, NEW t \in Sessions, LogsOut(t)
  PROVE  /\ \A s \in Sessions : sess'[s] = sess[s] \/ (s = t /\ sess'[s] = "none")
         /\ \A v \in Volumes :
              \/ mount'[v] = mount[v]
              \/ v = t[1] /\ mount[v] = "device" /\ mount'[v] = "stale"
<1>1. sess' = [sess EXCEPT ![t] = IF t \in record THEN "none" ELSE sess[t]]
  BY DEF LogsOut
<1>2. \E m \in {mount[t[1]], "stale"} :
        /\ mount' = [mount EXCEPT ![t[1]] = m]
        /\ m # mount[t[1]] => mount[t[1]] = "device"
  BY DEF LogsOut
<1>3. \A s \in Sessions : sess'[s] = sess[s] \/ (s = t /\ sess'[s] = "none")
  BY <1>1 DEF Types, NodeTypes
<1>4. \A v \in Volumes :
        \/ mount'[v] = mount[v]
        \/ v = t[1] /\ mount[v] = "device" /\ mount'[v] = "stale"
  BY <1>2 DEF Types, NodeTypes
<1>5. QED
  BY <1>3, <1>4

\* A step on one session: it begins, its device comes, fails or recovers with the
\* target, or somebody logs out of it.
LEMMA SessionsChangeOneWay ==
  ASSUME IInv, [Next]_vars, NEW s \in Sessions
  PROVE  \/ sess'[s] = sess[s]
         \/ /\ pc[s[1]] = "login" /\ s = Here(s[1]) /\ ~ LoggedIn(s)
            /\ sess'[s] = "nodevice"
         \/ LoggedIn(s) /\ ~ target[s[1]] /\ sess'[s] = "offline"
         \/ LoggedIn(s) /\ target[s[1]] /\ sess'[s] = "running"
         \/ /\ sess'[s] = "none"
            /\ \/ pc[s[1]] = "logout"
               \/ reap.at = "logout" /\ First(reap.todo)[1] = s
               \/ calm' = [v \in Volumes |-> FALSE]
<1>1. CASE sess' = sess
  BY <1>1
<1>2. ASSUME NEW v \in Volumes, pc[v] = "login", ~ LoggedIn(Here(v)),
             sess' = [sess EXCEPT ![Here(v)] = "nodevice"]
      PROVE  \/ sess'[s] = sess[s]
             \/ /\ pc[s[1]] = "login" /\ s = Here(s[1]) /\ ~ LoggedIn(s)
                /\ sess'[s] = "nodevice"
  <2>1. Here(v) \in Sessions /\ Here(v)[1] = v
    BY <1>2, HereIsMine DEF IInv, LoopSteps
  <2>2. QED
    BY <1>2, <2>1 DEF IInv, Types, NodeTypes
<1>3. ASSUME NEW t \in Sessions, DeviceChanges(t)
      PROVE  \/ sess'[s] = sess[s]
             \/ LoggedIn(s) /\ ~ target[s[1]] /\ sess'[s] = "offline"
             \/ LoggedIn(s) /\ target[s[1]] /\ sess'[s] = "running"
  BY <1>3 DEF DeviceChanges, LoggedIn, IInv, Types, NodeTypes
<1>4. ASSUME NEW v \in Volumes, pc[v] = "logout", LogsOut(Here(v))
      PROVE  sess'[s] = sess[s] \/ (sess'[s] = "none" /\ pc[s[1]] = "logout")
  <2>1. Here(v) \in Sessions /\ Here(v)[1] = v
    BY <1>4, HereIsMine DEF IInv, LoopSteps
  <2>2. QED
    BY <1>4, <2>1, LogsOutOfOne DEF IInv
<1>5. ASSUME reap.at = "logout", LogsOut(First(reap.todo)[1])
      PROVE  sess'[s] = sess[s] \/ (sess'[s] = "none" /\ First(reap.todo)[1] = s)
  <2>1. First(reap.todo)[1] \in Sessions
    BY <1>5, ReapedSession
  <2>2. QED
    BY <1>5, <2>1, LogsOutOfOne DEF IInv
<1>6. ASSUME sess' = [t \in Sessions |-> "none"]
      PROVE  sess'[s] = "none"
  BY <1>6
<1>7. QED
  BY <1>1, <1>2, <1>3, <1>4, <1>5, <1>6, SessionsChange

\* The layouts are given, and records are made by staging only.
LEMMA RecordsChange ==
  ASSUME IInv, [Next]_vars
  PROVE  /\ layout' = layout
         /\ \A s \in record' : \/ s \in record
                               \/ \E v \in Volumes : pc[v] = "create" /\ s = Here(v)
<1> USE DEF Deletes
<1>1. ASSUME NEW v \in Volumes,
             \/ Wants(v) \/ NodeStageVolume(v) \/ NodeUnstageVolume(v)
             \/ StageStep(v) \/ LoginGivesUp(v) \/ UnstageStep(v)
             \/ HandlerFails(v) \/ TargetFails(v) \/ TargetReturns(v)
      PROVE  /\ layout' = layout
             /\ \A s \in record' : s \in record \/ (pc[v] = "create" /\ s = Here(v))
  <2>1. layout' = layout
    BY <1>1 DEF Wants, NodeStageVolume, NodeUnstageVolume, StageStep, CreateNodeDBEntry,
     Login, FindSession, WaitForDevice, Mount, Expand, LoginGivesUp, UnstageStep, Umount,
     ForceUmount, FindSessions, FindSessionsByDevice, Logout, VerifyLogout,
     DeleteNodeDBEntry, VerifyDelete, Remaining, Finish, HandlerFails, TargetFails,
     TargetReturns, elsewhere
  <2>2. \/ record' = record
        \/ pc[v] = "create" /\ record' = record \cup {Here(v)}
        \/ record' = record \ {Here(v)}
    BY <1>1 DEF Wants, NodeStageVolume, NodeUnstageVolume, StageStep, CreateNodeDBEntry,
     Login, FindSession, WaitForDevice, Mount, Expand, LoginGivesUp, UnstageStep, Umount,
     ForceUmount, FindSessions, FindSessionsByDevice, Logout, VerifyLogout,
     DeleteNodeDBEntry, VerifyDelete, Remaining, Finish, HandlerFails, TargetFails,
     TargetReturns, node
  <2>3. QED
    BY <2>1, <2>2 DEF Here
<1>2. CASE Sweeper \/ SweepFails
  BY <1>2 DEF Sweeper, ListNodeDBEntries, SelectOrphanedRecords, RecheckRecord,
     RecheckSessions, DeleteOrphan, SweepFails, node, handlers
<1>3. CASE Reaper \/ PassFails \/ ReaperLogoutFails
  BY <1>3 DEF Reaper, BeginPass, Evaluate, ReaperLogsOut, ReaperDeletes, PassFails,
     ReaperLogoutFails, node, handlers
<1>4. CASE Restart \/ Reboot \/ (\E s \in Sessions : DeviceChanges(s)) \/ UNCHANGED vars
  BY <1>4 DEF Restart, Reboot, Killed, DeviceChanges, vars, node
<1>5. QED
  BY <1>1, <1>2, <1>3, <1>4 DEF Next

\* A step on one staging path: NodeStageVolume mounts it and NodeUnstageVolume unmounts
\* it; it is left without a device by who logs out of the last session, and a reboot
\* clears it.
LEMMA MountsChange ==
  ASSUME IInv, [Next]_vars, NEW u \in Volumes
  PROVE  \/ mount'[u] = mount[u]
         \/ pc[u] = "mount" /\ mount'[u] = "device"
         \/ pc[u] = "umount" /\ mount'[u] = "none"
         \/ mount[u] = "device" /\ mount'[u] = "stale" /\ pc[u] = "logout"
         \/ /\ mount[u] = "device" /\ mount'[u] = "stale" /\ reap.at = "logout"
            /\ First(reap.todo)[1][1] = u
         \/ calm' = [v \in Volumes |-> FALSE] /\ mount'[u] = "none"
<1>0. mount \in [Volumes -> {"none", "device", "stale"}]
  BY DEF IInv, Types, NodeTypes
<1>1. ASSUME NEW v \in Volumes,
             \/ Wants(v) \/ NodeStageVolume(v) \/ NodeUnstageVolume(v)
             \/ StageStep(v) \/ LoginGivesUp(v) \/ UnstageStep(v)
             \/ HandlerFails(v) \/ TargetFails(v) \/ TargetReturns(v)
      PROVE  \/ mount' = mount
             \/ pc[v] = "mount" /\ mount' = [mount EXCEPT ![v] = "device"]
             \/ pc[v] = "umount" /\ mount' = [mount EXCEPT ![v] = "none"]
             \/ pc[v] = "logout" /\ LogsOut(Here(v))
  BY <1>1 DEF Wants, NodeStageVolume, NodeUnstageVolume, StageStep, CreateNodeDBEntry,
     Login, FindSession, WaitForDevice, Mount, Expand, LoginGivesUp, UnstageStep, Umount,
     ForceUmount, FindSessions, FindSessionsByDevice, Logout, VerifyLogout,
     DeleteNodeDBEntry, VerifyDelete, Remaining, Finish, HandlerFails, TargetFails,
     TargetReturns, node
<1>2. ASSUME NEW v \in Volumes, pc[v] = "logout", LogsOut(Here(v))
      PROVE  \/ mount'[u] = mount[u]
             \/ mount[u] = "device" /\ mount'[u] = "stale" /\ pc[u] = "logout"
  <2>1. Here(v) \in Sessions /\ Here(v)[1] = v
    BY <1>2, HereIsMine DEF IInv, LoopSteps
  <2>2. QED
    BY <1>2, <2>1, LogsOutOfOne DEF IInv
<1>3. CASE Sweeper \/ SweepFails \/ UNCHANGED vars \/ \E s \in Sessions : DeviceChanges(s)
  BY <1>3 DEF Sweeper, ListNodeDBEntries, SelectOrphanedRecords, RecheckRecord,
     RecheckSessions, DeleteOrphan, SweepFails, DeviceChanges, node, vars
<1>4. CASE ReaperLogsOut
  <2>1. reap.at = "logout" /\ LogsOut(First(reap.todo)[1])
    BY <1>4 DEF ReaperLogsOut
  <2>2. First(reap.todo)[1] \in Sessions
    BY <2>1, ReapedSession
  <2>3. QED
    BY <2>1, <2>2, LogsOutOfOne DEF IInv
<1>5. CASE BeginPass \/ Evaluate \/ ReaperDeletes \/ PassFails \/ ReaperLogoutFails
  BY <1>5 DEF BeginPass, Evaluate, ReaperDeletes, PassFails, ReaperLogoutFails, node
<1>6. CASE Restart \/ Reboot
  BY <1>6 DEF Restart, Reboot
<1>7. ASSUME NEW v \in Volumes,
             \/ mount' = mount
             \/ pc[v] = "mount" /\ mount' = [mount EXCEPT ![v] = "device"]
             \/ pc[v] = "umount" /\ mount' = [mount EXCEPT ![v] = "none"]
      PROVE  \/ mount'[u] = mount[u]
             \/ pc[u] = "mount" /\ mount'[u] = "device"
             \/ pc[u] = "umount" /\ mount'[u] = "none"
  BY <1>0, <1>7
<1>8. QED
  BY <1>1, <1>2, <1>3, <1>4, <1>5, <1>6, <1>7 DEF Next, Reaper

\* An answer stays what it is, or is what the CO has just been given, by the last
\* steps of the two calls.
LEMMA AnswersChange ==
  ASSUME IInv, [Next]_vars, NEW u \in Volumes
  PROVE  goal'[u] \in {"staged", "unstaged"} /\ acked'[u] =>
           \/ goal'[u] = goal[u] /\ acked[u]
           \/ /\ goal'[u] = "staged" /\ pc[u] = "expand" /\ GotUsable(u)
              /\ mount' = mount /\ sess' = sess
           \/ /\ goal'[u] = "unstaged" /\ pc[u] = "finish" /\ mount[u] = "none"
              /\ mount' = mount /\ sess' = sess
<1> DEFINE Goal ==
         goal'[u] \in {"staged", "unstaged"} /\ acked'[u] =>
           \/ goal'[u] = goal[u] /\ acked[u]
           \/ /\ goal'[u] = "staged" /\ pc[u] = "expand" /\ GotUsable(u)
              /\ mount' = mount /\ sess' = sess
           \/ /\ goal'[u] = "unstaged" /\ pc[u] = "finish" /\ mount[u] = "none"
              /\ mount' = mount /\ sess' = sess
<1>1. ASSUME NEW v \in Volumes,
             Wants(v) \/ NodeStageVolume(v) \/ NodeUnstageVolume(v) \/ HandlerFails(v)
      PROVE  Goal
  BY <1>1 DEF Wants, NodeStageVolume, NodeUnstageVolume, HandlerFails, Fails, Answers,
     elsewhere, local, node, daemons, ghosts, IInv, Types, CallTypes, HandlersServeGoals,
     StageSteps, UnstageSteps
<1>2. ASSUME NEW v \in Volumes, StageStep(v) \/ LoginGivesUp(v) PROVE Goal
  BY <1>2 DEF StageStep, CreateNodeDBEntry, Login, FindSession, WaitForDevice, Mount,
     Expand, LoginGivesUp, Goes, Fails, Answers, elsewhere, node, ghosts, IInv, Types,
     CallTypes, HandlersServeGoals, StageSteps, UnstageSteps
<1>3. ASSUME NEW v \in Volumes, UnstageStep(v) PROVE Goal
  BY <1>3 DEF UnstageStep, Umount, ForceUmount, FindSessions, FindSessionsByDevice,
     Logout, VerifyLogout, DeleteNodeDBEntry, VerifyDelete, Remaining, Finish, Goes,
     Fails, Answers, elsewhere, node, ghosts, IInv, Types, CallTypes, HandlersServeGoals,
     StageSteps, UnstageSteps
<1>4. ASSUME NEW v \in Volumes, TargetFails(v) \/ TargetReturns(v) PROVE Goal
  BY <1>4 DEF TargetFails, TargetReturns, local, ghosts, IInv, Types, CallTypes,
     HandlersServeGoals, StageSteps, UnstageSteps
<1>5. ASSUME NEW s \in Sessions, DeviceChanges(s) PROVE Goal
  BY <1>5 DEF DeviceChanges, local, ghosts, IInv, Types, CallTypes, HandlersServeGoals,
     StageSteps, UnstageSteps
<1>6. CASE Sweeper \/ SweepFails
  BY <1>6 DEF Sweeper, ListNodeDBEntries, SelectOrphanedRecords, RecheckRecord,
     RecheckSessions, DeleteOrphan, SweepFails, handlers, local, ghosts, IInv, Types,
     CallTypes, HandlersServeGoals, StageSteps, UnstageSteps
<1>7. CASE Reaper \/ PassFails \/ ReaperLogoutFails
  BY <1>7 DEF Reaper, BeginPass, Evaluate, ReaperLogsOut, ReaperDeletes, PassFails,
     ReaperLogoutFails, handlers, local, ghosts, IInv, Types, CallTypes,
     HandlersServeGoals, StageSteps, UnstageSteps
<1>8. CASE Restart \/ Reboot \/ UNCHANGED vars
  BY <1>8 DEF Restart, Reboot, Killed, vars, local, ghosts, IInv, Types, CallTypes,
     HandlersServeGoals, StageSteps, UnstageSteps
<1>9. QED
  BY <1>1, <1>2, <1>3, <1>4, <1>5, <1>6, <1>7, <1>8 DEF Next

\* Calm is found by a call that begins, and lasts while the target and the CO's goal do.
LEMMA CalmChange ==
  ASSUME IInv, [Next]_vars, NEW u \in Volumes
  PROVE  calm'[u] =>
           \/ calm[u] /\ goal'[u] = goal[u] /\ (target[u] => target'[u])
           \/ /\ goal'[u] = "staged" /\ Undisturbed(u) /\ ~ acked'[u] /\ pc'[u] = "create"
              /\ UNCHANGED <<layout, target, sess, reap>>
<1> DEFINE Goal ==
         calm'[u] =>
           \/ calm[u] /\ goal'[u] = goal[u] /\ (target[u] => target'[u])
           \/ /\ goal'[u] = "staged" /\ Undisturbed(u) /\ ~ acked'[u] /\ pc'[u] = "create"
              /\ UNCHANGED <<layout, target, sess, reap>>
<1>1. ASSUME NEW v \in Volumes,
             Wants(v) \/ NodeStageVolume(v) \/ NodeUnstageVolume(v) \/ HandlerFails(v)
      PROVE  Goal
  BY <1>1 DEF Wants, NodeStageVolume, NodeUnstageVolume, HandlerFails, Fails, Answers,
     elsewhere, local, node, daemons, ghosts, IInv, Types, CallTypes, NodeTypes
<1>2. ASSUME NEW v \in Volumes, StageStep(v) \/ LoginGivesUp(v) PROVE Goal
  BY <1>2 DEF StageStep, CreateNodeDBEntry, Login, FindSession, WaitForDevice, Mount,
     Expand, LoginGivesUp, Goes, Fails, Answers, elsewhere, node, ghosts, IInv, Types,
     CallTypes, NodeTypes
<1>3. ASSUME NEW v \in Volumes, UnstageStep(v) PROVE Goal
  BY <1>3 DEF UnstageStep, Umount, ForceUmount, FindSessions, FindSessionsByDevice,
     Logout, VerifyLogout, DeleteNodeDBEntry, VerifyDelete, Remaining, Finish, Goes,
     Fails, Answers, elsewhere, node, ghosts, IInv, Types, CallTypes, NodeTypes
<1>4. ASSUME NEW v \in Volumes, TargetFails(v) \/ TargetReturns(v) PROVE Goal
  BY <1>4 DEF TargetFails, TargetReturns, local, ghosts, IInv, Types, CallTypes, NodeTypes
<1>5. ASSUME NEW s \in Sessions, DeviceChanges(s) PROVE Goal
  BY <1>5 DEF DeviceChanges, local, ghosts, IInv, Types, CallTypes, NodeTypes
<1>6. CASE Sweeper \/ SweepFails
  BY <1>6 DEF Sweeper, ListNodeDBEntries, SelectOrphanedRecords, RecheckRecord,
     RecheckSessions, DeleteOrphan, SweepFails, handlers, local, ghosts, IInv, Types,
     CallTypes, NodeTypes
<1>7. CASE Reaper \/ PassFails \/ ReaperLogoutFails
  BY <1>7 DEF Reaper, BeginPass, Evaluate, ReaperLogsOut, ReaperDeletes, PassFails,
     ReaperLogoutFails, handlers, local, ghosts, IInv, Types, CallTypes, NodeTypes
<1>8. CASE Restart \/ Reboot \/ UNCHANGED vars
  BY <1>8 DEF Restart, Reboot, Killed, vars, local, ghosts, IInv, Types, CallTypes,
     NodeTypes
<1>9. QED
  BY <1>1, <1>2, <1>3, <1>4, <1>5, <1>6, <1>7, <1>8 DEF Next

\* How a handler comes to its last steps.
LEMMA HandlersComeTo ==
  ASSUME IInv, [Next]_vars, NEW u \in Volumes
  PROVE  /\ pc'[u] \in StageSteps => pc[u] \in StageSteps \/ (\A s \in orphaned' : s[1] # u)
         /\ pc[u] \in StageSteps => pc'[u] \in StageSteps \cup {"idle"}
         /\ pc'[u] = "expand" => pc[u] = "expand" \/ (pc[u] = "mount" /\ mount'[u] = "device")
         /\ pc'[u] \in {"fallback", "finish"} =>
              \/ pc'[u] = pc[u]
              \/ pc[u] = "fallback"
              \/ layout[u].embedded => SessionFree(u)
<1> DEFINE Goal ==
         /\ pc'[u] \in StageSteps => pc[u] \in StageSteps \/ (\A s \in orphaned' : s[1] # u)
         /\ pc[u] \in StageSteps => pc'[u] \in StageSteps \cup {"idle"}
         /\ pc'[u] = "expand" => pc[u] = "expand" \/ (pc[u] = "mount" /\ mount'[u] = "device")
         /\ pc'[u] \in {"fallback", "finish"} =>
              \/ pc'[u] = pc[u]
              \/ pc[u] = "fallback"
              \/ layout[u].embedded => SessionFree(u)
<1>1. ASSUME NEW v \in Volumes,
             Wants(v) \/ NodeStageVolume(v) \/ NodeUnstageVolume(v) \/ HandlerFails(v)
      PROVE  Goal
  BY <1>1 DEF Wants, NodeStageVolume, NodeUnstageVolume, HandlerFails, Fails, Answers,
     elsewhere, local, node, daemons, ghosts, IInv, Types, CallTypes, NodeTypes,
     StageSteps, SessionFree
<1>2. ASSUME NEW v \in Volumes, StageStep(v) \/ LoginGivesUp(v) PROVE Goal
  BY <1>2 DEF StageStep, CreateNodeDBEntry, Login, FindSession, WaitForDevice, Mount,
     Expand, LoginGivesUp, Goes, Fails, Answers, elsewhere, node, ghosts, IInv, Types,
     CallTypes, NodeTypes, StageSteps, SessionFree
<1>3. ASSUME NEW v \in Volumes, UnstageStep(v) PROVE Goal
  <2>1. CASE Umount(v) \/ ForceUmount(v) \/ FindSessions(v) \/ FindSessionsByDevice(v)
    BY <2>1 DEF Umount, ForceUmount, FindSessions, FindSessionsByDevice, Goes, Fails,
       Answers, elsewhere, node, ghosts, IInv, Types, CallTypes, NodeTypes, StageSteps,
       SessionFree
  <2>2. CASE Logout(v) \/ VerifyLogout(v) \/ DeleteNodeDBEntry(v)
    BY <2>2 DEF Logout, VerifyLogout, DeleteNodeDBEntry, Goes, Fails, Answers, elsewhere,
       node, ghosts, IInv, Types, CallTypes, NodeTypes, StageSteps, SessionFree
  <2>3. CASE VerifyDelete(v) \/ Remaining(v) \/ Finish(v)
    BY <2>3 DEF VerifyDelete, Remaining, Finish, Goes, Fails, Answers, elsewhere, node,
       ghosts, IInv, Types, CallTypes, NodeTypes, StageSteps, SessionFree
  <2> HIDE DEF Goal
  <2>4. QED
    BY <1>3, <2>1, <2>2, <2>3 DEF UnstageStep
<1>4. ASSUME NEW v \in Volumes, TargetFails(v) \/ TargetReturns(v) PROVE Goal
  BY <1>4 DEF TargetFails, TargetReturns, local, ghosts, IInv, Types, CallTypes,
     NodeTypes, StageSteps, SessionFree
<1>5. ASSUME NEW s \in Sessions, DeviceChanges(s) PROVE Goal
  BY <1>5 DEF DeviceChanges, local, ghosts, IInv, Types, CallTypes, NodeTypes,
     StageSteps, SessionFree
<1>6. CASE Sweeper \/ SweepFails
  BY <1>6 DEF Sweeper, ListNodeDBEntries, SelectOrphanedRecords, RecheckRecord,
     RecheckSessions, DeleteOrphan, SweepFails, handlers, local, ghosts, IInv, Types,
     CallTypes, NodeTypes, StageSteps, SessionFree
<1>7. CASE Reaper \/ PassFails \/ ReaperLogoutFails
  BY <1>7 DEF Reaper, BeginPass, Evaluate, ReaperLogsOut, ReaperDeletes, PassFails,
     ReaperLogoutFails, handlers, local, ghosts, IInv, Types, CallTypes, NodeTypes,
     StageSteps, SessionFree
<1>8. CASE Restart \/ Reboot \/ UNCHANGED vars
  BY <1>8 DEF Restart, Reboot, Killed, vars, local, ghosts, IInv, Types, CallTypes,
     NodeTypes, StageSteps, SessionFree
<1>9. QED
  BY <1>1, <1>2, <1>3, <1>4, <1>5, <1>6, <1>7, <1>8 DEF Next

\* What a handler deals with is on portals of its volume.
LEMMA PortalsChange ==
  ASSUME IInv, [Next]_vars, NEW u \in Volumes
  PROVE  /\ todo'[u] \subseteq todo[u] \cup PortalsOf(u)
         /\ got'[u] \subseteq todo[u] \cup got[u]
<1> DEFINE Goal ==
         /\ todo'[u] \subseteq todo[u] \cup PortalsOf(u)
         /\ got'[u] \subseteq todo[u] \cup got[u]
<1>0. todo \in [Volumes -> SUBSET Portals] /\ got \in [Volumes -> SUBSET Portals]
  BY DEF IInv, Types, CallTypes
<1>1. ASSUME NEW v \in Volumes,
             \/ Wants(v) \/ NodeStageVolume(v) \/ NodeUnstageVolume(v)
             \/ HandlerFails(v) \/ LoginGivesUp(v)
             \/ TargetFails(v) \/ TargetReturns(v)
      PROVE  Goal
  BY <1>0, <1>1 DEF Wants, NodeStageVolume, NodeUnstageVolume, HandlerFails,
     LoginGivesUp, Fails, Answers, TargetFails, TargetReturns, local
<1>2. ASSUME NEW v \in Volumes,
             \/ CreateNodeDBEntry(v) \/ Login(v) \/ FindSession(v) \/ Mount(v) \/ Expand(v)
             \/ Umount(v) \/ ForceUmount(v) \/ Logout(v) \/ VerifyLogout(v)
             \/ DeleteNodeDBEntry(v) \/ Remaining(v) \/ Finish(v)
      PROVE  Goal
  BY <1>0, <1>2 DEF CreateNodeDBEntry, Login, FindSession, Mount, Expand, Umount,
     ForceUmount, Logout, VerifyLogout, DeleteNodeDBEntry, Remaining, Finish, Goes,
     Fails, Answers
<1>3. ASSUME NEW v \in Volumes, WaitForDevice(v) PROVE Goal
  <2>1. First(todo[v]) \in todo[v]
    BY <1>3, HereIsMine DEF WaitForDevice, LoopSteps, IInv
  <2>2. QED
    BY <1>0, <1>3, <2>1 DEF WaitForDevice
<1>4. ASSUME NEW v \in Volumes, FindSessions(v) PROVE Goal
  BY <1>0, <1>4 DEF FindSessions
<1>5. ASSUME NEW v \in Volumes, FindSessionsByDevice(v) PROVE Goal
  BY <1>0, <1>5 DEF FindSessionsByDevice, Goes, Fails, Answers, Attached
<1>6. ASSUME NEW v \in Volumes, VerifyDelete(v) PROVE Goal
  BY <1>0, <1>6 DEF VerifyDelete, Fails, Answers
<1>7. CASE Sweeper \/ SweepFails \/ (\E s \in Sessions : DeviceChanges(s))
  BY <1>7 DEF Sweeper, ListNodeDBEntries, SelectOrphanedRecords, RecheckRecord,
     RecheckSessions, DeleteOrphan, SweepFails, handlers, local, DeviceChanges
<1>8. CASE Reaper \/ PassFails \/ ReaperLogoutFails
  BY <1>8 DEF Reaper, BeginPass, Evaluate, ReaperLogsOut, ReaperDeletes, PassFails,
     ReaperLogoutFails, handlers, local
<1>9. CASE Restart \/ Reboot \/ UNCHANGED vars
  BY <1>9 DEF Restart, Reboot, Killed, vars, local
<1>10. QED
  BY <1>1, <1>2, <1>3, <1>4, <1>5, <1>6, <1>7, <1>8, <1>9
     DEF Next, StageStep, UnstageStep

\* What the reaper has listed is as it was when the pass began, and it is about to log
\* out only of what it has just found reapable.
LEMMA ReaperGoesOn ==
  ASSUME IInv, [Next]_vars
  PROVE  /\ \A e \in reap'.todo :
              \/ e \in reap.todo
              \/ e[1] \in Sessions /\ LoggedIn(e[1]) /\ e[2] = sess[e[1]]
         /\ reap'.at = "logout" =>
              /\ reap'.todo = reap.todo /\ reap.todo # {}
              /\ \/ reap.at = "logout"
                 \/ IsSessionReapable(First(reap.todo)[1], First(reap.todo)[2])
<1> DEFINE Goal ==
         /\ \A e \in reap'.todo :
              \/ e \in reap.todo
              \/ e[1] \in Sessions /\ LoggedIn(e[1]) /\ e[2] = sess[e[1]]
         /\ reap'.at = "logout" =>
              /\ reap'.todo = reap.todo /\ reap.todo # {}
              /\ \/ reap.at = "logout"
                 \/ IsSessionReapable(First(reap.todo)[1], First(reap.todo)[2])
<1>1. CASE reap' = reap
  BY <1>1 DEF IInv, Types, DaemonTypes
<1>2. ASSUME NEW rest, NEW seen, NEW tracked, PassGoesOn(rest, seen, tracked)
      PROVE  reap'.todo = rest /\ reap'.at # "logout"
  BY <1>2 DEF PassGoesOn
<1>3. CASE BeginPass
  <2> DEFINE found == {<<s, sess[s]>> : s \in {t \in Sessions : LoggedIn(t)}}
  <2>1. PassGoesOn(found, {}, Later)
    BY <1>3 DEF BeginPass
  <2>2. \A e \in found : e[1] \in Sessions /\ LoggedIn(e[1]) /\ e[2] = sess[e[1]]
    OBVIOUS
  <2>3. reap'.todo = found /\ reap'.at # "logout"
    BY <2>1 DEF PassGoesOn
  <2>4. QED
    BY <2>2, <2>3
<1>4. CASE Evaluate
  <2> DEFINE e == First(reap.todo)
  <2>1. CASE ~ IsSessionReapable(e[1], e[2])
    BY <1>4, <2>1 DEF Evaluate, PassGoesOn
  <2>2. CASE IsSessionReapable(e[1], e[2])
    <3>1. reap.todo # {}
      BY <1>4 DEF Evaluate, IInv, Types, DaemonTypes
    <3>2. \/ reap' = [reap EXCEPT !.at = "logout", !.seen = @ \cup {e[1]}]
          \/ reap'.todo = reap.todo \ {e} /\ reap'.at # "logout"
      BY <1>4, <2>2 DEF Evaluate, PassGoesOn
    <3>3. \/ reap'.todo = reap.todo
          \/ reap'.todo = reap.todo \ {e} /\ reap'.at # "logout"
      BY <3>2 DEF IInv, Types, DaemonTypes
    <3>4. QED
      BY <2>2, <3>1, <3>3
  <2>3. QED
    BY <2>1, <2>2
<1>5. CASE ReaperLogsOut \/ ReaperLogoutFails
  BY <1>5 DEF ReaperLogsOut, ReaperLogoutFails, IInv, Types, DaemonTypes
<1>6. CASE ReaperDeletes
  BY <1>6 DEF ReaperDeletes, PassGoesOn
<1>7. CASE Restart \/ Reboot
  BY <1>7 DEF Restart, Reboot, Killed
<1>8. ASSUME NEW v \in Volumes,
             \/ Wants(v) \/ NodeStageVolume(v) \/ NodeUnstageVolume(v)
             \/ StageStep(v) \/ LoginGivesUp(v) \/ UnstageStep(v)
             \/ HandlerFails(v) \/ TargetFails(v) \/ TargetReturns(v)
      PROVE  reap' = reap
  BY <1>8 DEF Wants, NodeStageVolume, NodeUnstageVolume, StageStep, CreateNodeDBEntry,
     Login, FindSession, WaitForDevice, Mount, Expand, LoginGivesUp, UnstageStep, Umount,
     ForceUmount, FindSessions, FindSessionsByDevice, Logout, VerifyLogout,
     DeleteNodeDBEntry, VerifyDelete, Remaining, Finish, HandlerFails, TargetFails,
     TargetReturns, elsewhere, daemons
<1>9. CASE Sweeper \/ SweepFails \/ PassFails \/ UNCHANGED vars
             \/ (\E s \in Sessions : DeviceChanges(s))
  BY <1>1, <1>9 DEF Sweeper, ListNodeDBEntries, SelectOrphanedRecords, RecheckRecord,
     RecheckSessions, DeleteOrphan, SweepFails, PassFails, DeviceChanges, vars, daemons
<1>10. QED
  BY <1>1, <1>3, <1>4, <1>5, <1>6, <1>7, <1>8, <1>9 DEF Next, Reaper

\* Sessions, records and what handlers deal with stay on the volume's portals.
LEMMA PortalsAreRealNext ==
  ASSUME IInv, [Next]_vars
  PROVE  PortalsAreReal'
<1> USE DEF IInv, PortalsAreReal
<1>1. layout' = layout
  BY RecordsChange
<1>2. ASSUME NEW v \in Volumes, pc[v] \in LoopSteps
      PROVE  Here(v)[1] = v /\ Here(v)[2] \in PortalsOf(v)
  BY <1>2, HereIsMine
<1>3. ASSUME NEW s \in Sessions, LoggedIn(s)' PROVE s[2] \in PortalsOf(s[1])
  <2>1. LoggedIn(s) \/ (pc[s[1]] = "login" /\ s = Here(s[1]) /\ s[1] \in Volumes)
    BY <1>3, SessionsChangeOneWay DEF LoggedIn, Sessions
  <2>2. QED
    BY <1>2, <2>1 DEF LoopSteps
<1>4. ASSUME NEW s \in Sessions, s \in record' PROVE s[2] \in PortalsOf(s[1])
  <2>1. s \in record \/ (\E v \in Volumes : pc[v] = "create" /\ s = Here(v))
    BY <1>4, RecordsChange
  <2>2. QED
    BY <1>2, <2>1 DEF LoopSteps
<1>5. ASSUME NEW v \in Volumes PROVE todo'[v] \cup got'[v] \subseteq PortalsOf(v)
  BY PortalsChange
<1>6. QED
  BY <1>1, <1>3, <1>4, <1>5 DEF PortalsOf

\* No session of a volume appears unless it is being staged.
LEMMA SessionFreeStays ==
  ASSUME IInv, [Next]_vars, NEW v \in Volumes, SessionFree(v), pc[v] \notin StageSteps
  PROVE  SessionFree(v)'
<1>1. layout' = layout /\ PortalsOf(v) \subseteq Portals
  BY RecordsChange, LayoutFacts DEF IInv
<1>2. ASSUME NEW p \in PortalsOf(v) PROVE ~ LoggedIn(<<v, p>>)'
  <2>1. <<v, p>> \in Sessions /\ <<v, p>>[1] = v /\ ~ LoggedIn(<<v, p>>)
    BY <1>1 DEF Sessions, SessionFree
  <2>2. QED
    BY <2>1, SessionsChangeOneWay DEF LoggedIn, StageSteps
<1>3. QED
  BY <1>1, <1>2 DEF SessionFree, PortalsOf, LoggedIn

\* A handler at its end still finds no session: none is made while it runs.
LEMMA NoSessionAtTheEndNext ==
  ASSUME IInv, [Next]_vars
  PROVE  NoSessionAtTheEnd'
<1>1. layout' = layout
  BY RecordsChange
<1>2. ASSUME NEW v \in Volumes, layout[v].embedded, pc'[v] \in {"fallback", "finish"}
      PROVE  SessionFree(v)'
  <2>1. SessionFree(v)
    BY <1>2, HandlersComeTo DEF IInv, NoSessionAtTheEnd
  <2>2. pc[v] \notin StageSteps
    BY <1>2, HandlersComeTo DEF StageSteps
  <2>3. QED
    BY <2>1, <2>2, SessionFreeStays
<1>3. QED
  BY <1>1, <1>2 DEF NoSessionAtTheEnd

\* What NodeUnstageVolume was answered OK for stays detached, and a new answer finds it so.
LEMMA AckedUnstageNext ==
  ASSUME IInv, [Next]_vars
  PROVE  AckedUnstageIsDetached'
<1> USE DEF IInv
<1>1. layout' = layout
  BY RecordsChange
<1>2. ASSUME NEW v \in Volumes, layout[v].embedded, goal'[v] = "unstaged", acked'[v]
      PROVE  mount'[v] = "none" /\ SessionFree(v)'
  <2>1. CASE goal'[v] = goal[v] /\ acked[v]
    <3>1. mount[v] = "none" /\ SessionFree(v)
      BY <1>2, <2>1 DEF AckedUnstageIsDetached, Detached, SessionFree
    <3>2. pc[v] \notin StageSteps
      BY <1>2, <2>1 DEF HandlersServeGoals
    <3>3. mount'[v] = "none"
      BY <3>1, <3>2, MountsChange DEF StageSteps
    <3>4. QED
      BY <3>1, <3>2, <3>3, SessionFreeStays
  <2>2. CASE pc[v] = "finish" /\ mount[v] = "none" /\ mount' = mount /\ sess' = sess
    <3>1. SessionFree(v)
      BY <1>2, <2>2 DEF NoSessionAtTheEnd
    <3>2. QED
      BY <1>1, <2>2, <3>1 DEF SessionFree, PortalsOf, LoggedIn
  <2>3. QED
    BY <1>2, <2>1, <2>2, AnswersChange
<1>3. QED
  BY <1>1, <1>2 DEF AckedUnstageIsDetached, Detached, SessionFree

\* In the calm the reaper is not at the volume: its sessions were not listed offline,
\* and are not offline.
LEMMA NotReapable ==
  ASSUME IInv, NEW v \in Volumes, Undisturbed(v), reap.todo # {},
         IsSessionReapable(First(reap.todo)[1], First(reap.todo)[2])
  PROVE  First(reap.todo)[1][1] # v
<1> DEFINE e == First(reap.todo)
           s == First(reap.todo)[1]
<1>1. e \in reap.todo /\ e \in Sessions \X States
  BY FirstIn DEF IInv, Types, DaemonTypes
<1>2. s \in Sessions
  BY <1>1
<1>3. SUFFICES ASSUME s[1] = v PROVE FALSE
  OBVIOUS
<1>4. e[2] # "offline"
  BY <1>1, <1>3 DEF Undisturbed
<1>5. sess[s] = "offline"
  BY <1>4 DEF IsSessionReapable, HasDevice
<1>6. s[2] \in PortalsOf(v) /\ s = <<v, s[2]>>
  BY <1>2, <1>3, <1>5 DEF IInv, PortalsAreReal, LoggedIn, Sessions
<1>7. QED
  BY <1>5, <1>6 DEF Undisturbed

\* While its target works no volume that is undisturbed is disturbed.
LEMMA UndisturbedStays ==
  ASSUME IInv, [Next]_vars, NEW v \in Volumes, Undisturbed(v), target'[v]
  PROVE  Undisturbed(v)'
<1>1. layout' = layout /\ PortalsOf(v) \subseteq Portals
  BY RecordsChange, LayoutFacts DEF IInv
<1>2. ASSUME NEW p \in PortalsOf(v) PROVE sess'[<<v, p>>] # "offline"
  <2>1. <<v, p>> \in Sessions /\ <<v, p>>[1] = v /\ sess[<<v, p>>] # "offline" /\ target[v]
    BY <1>1 DEF Sessions, Undisturbed
  <2>2. QED
    BY <2>1, SessionsChangeOneWay
<1>3. ASSUME NEW e \in reap'.todo, e[1][1] = v PROVE e[2] # "offline"
  <2>1. CASE e \in reap.todo
    BY <1>3, <2>1 DEF Undisturbed
  <2>2. CASE e[1] \in Sessions /\ LoggedIn(e[1]) /\ e[2] = sess[e[1]]
    <3>1. e[1][2] \in PortalsOf(v) /\ e[1] = <<v, e[1][2]>>
      BY <1>3, <2>2 DEF IInv, PortalsAreReal, Sessions
    <3>2. QED
      BY <2>2, <3>1 DEF Undisturbed
  <2>3. QED
    BY <1>3, <2>1, <2>2, ReaperGoesOn
<1>4. reap'.at = "logout" => First(reap'.todo)[1][1] # v
  BY ReaperGoesOn, NotReapable DEF Undisturbed
<1>5. QED
  BY <1>1, <1>2, <1>3, <1>4 DEF Undisturbed, PortalsOf

\* Calm that is found is of a staged volume that is undisturbed, and it stays so.
LEMMA CalmNext ==
  ASSUME IInv, [Next]_vars
  PROVE  CalmIsUndisturbed'
<1>1. ASSUME NEW v \in Volumes, calm'[v] PROVE goal'[v] = "staged" /\ Undisturbed(v)'
  <2>1. CASE calm[v] /\ goal'[v] = goal[v] /\ (target[v] => target'[v])
    <3>1. goal[v] = "staged" /\ Undisturbed(v)
      BY <2>1 DEF IInv, CalmIsUndisturbed
    <3>2. target'[v]
      BY <2>1, <3>1 DEF Undisturbed
    <3>3. QED
      BY <2>1, <3>1, <3>2, UndisturbedStays
  <2>2. CASE /\ goal'[v] = "staged" /\ Undisturbed(v) /\ ~ acked'[v] /\ pc'[v] = "create"
             /\ UNCHANGED <<layout, target, sess, reap>>
    BY <2>2 DEF Undisturbed, PortalsOf
  <2>3. QED
    BY <1>1, <2>1, <2>2, CalmChange
<1>2. QED
  BY <1>1 DEF CalmIsUndisturbed

\* In the calm nobody detaches the volume.
LEMMA CalmDetachesNothing ==
  ASSUME IInv, [Next]_vars, NEW v \in Volumes, calm[v], calm'[v]
  PROVE  /\ mount[v] = "device" => mount'[v] = "device"
         /\ Usable(v) => Usable(v)'
<1>1. Undisturbed(v) /\ pc[v] \notin UnstageSteps
  BY DEF IInv, CalmIsUndisturbed, HandlersServeGoals
<1>2. pc[v] # "umount" /\ pc[v] # "logout"
  BY <1>1 DEF UnstageSteps
<1>3. /\ calm' # [u \in Volumes |-> FALSE]
      /\ reap.at = "logout" => First(reap.todo)[1][1] # v
  BY <1>1 DEF Undisturbed
<1>4. mount[v] = "device" => mount'[v] = "device"
  BY <1>2, <1>3, MountsChange
<1>5. ASSUME NEW p \in PortalsOf(v), sess[<<v, p>>] = "running"
      PROVE  sess'[<<v, p>>] = "running"
  <2>1. <<v, p>> \in Sessions /\ <<v, p>>[1] = v /\ target[v]
    BY <1>1, LayoutFacts DEF Sessions, Undisturbed, IInv
  <2>2. QED
    BY <1>2, <1>3, <1>5, <2>1, SessionsChangeOneWay DEF LoggedIn
<1>6. Usable(v) => Usable(v)'
  BY <1>5, RecordsChange DEF Usable, PortalsOf
<1>7. QED
  BY <1>4, <1>6

\* A mount made in the calm is there when the handler ends.
LEMMA CalmMountsNext ==
  ASSUME IInv, [Next]_vars
  PROVE  CalmMountsStay'
<1>1. ASSUME NEW v \in Volumes, calm'[v], pc'[v] = "expand" PROVE mount'[v] = "device"
  <2>1. calm[v]
    BY <1>1, CalmChange
  <2>2. CASE pc[v] = "mount" /\ mount'[v] = "device"
    BY <2>2
  <2>3. CASE pc[v] = "expand"
    BY <1>1, <2>1, <2>3, CalmDetachesNothing DEF IInv, CalmMountsStay
  <2>4. QED
    BY <1>1, <2>2, <2>3, HandlersComeTo
<1>2. QED
  BY <1>1 DEF CalmMountsStay

\* An answer OK in the calm is for a device that works, and it goes on to work.
LEMMA AckedStageNext ==
  ASSUME IInv, [Next]_vars
  PROVE  AckedStageIsUsable'
<1>1. ASSUME NEW v \in Volumes, goal'[v] = "staged", acked'[v], calm'[v]
      PROVE  mount'[v] = "device" /\ Usable(v)'
  <2>1. calm[v]
    BY <1>1, CalmChange
  <2>2. mount[v] = "device" /\ Usable(v)
    <3>1. CASE goal'[v] = goal[v] /\ acked[v]
      BY <1>1, <2>1, <3>1 DEF IInv, AckedStageIsUsable
    <3>2. CASE pc[v] = "expand" /\ GotUsable(v)
      <4>1. mount[v] = "device"
        BY <2>1, <3>2 DEF IInv, CalmMountsStay
      <4>2. Usable(v)
        BY <3>2 DEF GotUsable, Usable, IInv, PortalsAreReal
      <4>3. QED
        BY <4>1, <4>2
    <3>3. QED
      BY <1>1, <3>1, <3>2, AnswersChange
  <2>3. QED
    BY <1>1, <2>1, <2>2, CalmDetachesNothing
<1>2. QED
  BY <1>1 DEF AckedStageIsUsable

----------------------------------------------------------------------------
(* The sweep.                                                              *)

\* What the sweeper has to delete only gets less once it is chosen: what is chosen has
\* no session and no call in progress.
LEMMA OrphansChange ==
  ASSUME IInv, [Next]_vars, NEW s \in orphaned'
  PROVE  \/ s \in orphaned
         \/ sweep.at = "sessions" /\ s \in Sessions /\ pc[s[1]] = "idle"
            /\ SessionFree(s[1]) /\ pc' = pc /\ sess' = sess /\ s \in sweep'.todo
            /\ sweep'.at = "exists"
<1>1. ASSUME NEW v \in Volumes,
             \/ Wants(v) \/ NodeStageVolume(v) \/ NodeUnstageVolume(v)
             \/ StageStep(v) \/ LoginGivesUp(v) \/ UnstageStep(v)
             \/ HandlerFails(v) \/ TargetFails(v) \/ TargetReturns(v)
      PROVE  s \in orphaned
  BY <1>1 DEF Wants, NodeStageVolume, NodeUnstageVolume, StageStep, CreateNodeDBEntry,
     Login, FindSession, WaitForDevice, Mount, Expand, LoginGivesUp, UnstageStep, Umount,
     ForceUmount, FindSessions, FindSessionsByDevice, Logout, VerifyLogout,
     DeleteNodeDBEntry, VerifyDelete, Remaining, Finish, HandlerFails, TargetFails,
     TargetReturns, elsewhere, ghosts
<1>2. CASE SelectOrphanedRecords
  <2> DEFINE orphans == {t \in sweep.todo : ~ HasSession(t)}
  <2>1. s \in orphans /\ pc[s[1]] = "idle"
    BY <1>2 DEF SelectOrphanedRecords
  <2>2. s \in Sessions /\ SessionFree(s[1])
    BY <2>1 DEF HasSession, SessionFree, IInv, Types, DaemonTypes
  <2>3. /\ sweep' = [at |-> IF orphans = {} THEN "done" ELSE "exists", todo |-> orphans]
        /\ sweep.at = "sessions" /\ pc' = pc /\ sess' = sess
    BY <1>2 DEF SelectOrphanedRecords, SweepTo, handlers, local, node
  <2>4. sweep'.todo = orphans /\ sweep'.at = "exists"
    BY <2>1, <2>3
  <2>5. QED
    BY <2>1, <2>2, <2>3, <2>4
<1>3. CASE ListNodeDBEntries \/ RecheckRecord \/ RecheckSessions \/ DeleteOrphan
  BY <1>3 DEF ListNodeDBEntries, RecheckRecord, RecheckSessions, DeleteOrphan, ghosts
<1>4. CASE SweepFails
  BY <1>4 DEF SweepFails
<1>5. CASE Reaper \/ PassFails \/ ReaperLogoutFails
  BY <1>5 DEF Reaper, BeginPass, Evaluate, ReaperLogsOut, ReaperDeletes, PassFails,
     ReaperLogoutFails, ghosts
<1>6. CASE Restart \/ Reboot
  BY <1>6 DEF Restart, Reboot, Killed
<1>7. CASE UNCHANGED vars \/ (\E t \in Sessions : DeviceChanges(t))
  BY <1>7 DEF DeviceChanges, vars, ghosts
<1>8. QED
  BY <1>1, <1>2, <1>3, <1>4, <1>5, <1>6, <1>7 DEF Next, Sweeper

\* What the sweeper has to delete has no session, until a call for it begins.
LEMMA OrphansStayNext ==
  ASSUME IInv, [Next]_vars
  PROVE  OrphansStay'
<1>1. ASSUME NEW s \in orphaned' PROVE pc'[s[1]] \notin StageSteps /\ SessionFree(s[1])'
  <2>1. CASE s \in orphaned
    <3>1. s[1] \in Volumes /\ pc[s[1]] \notin StageSteps /\ SessionFree(s[1])
      BY <2>1 DEF IInv, OrphansStay, Types, DaemonTypes, Sessions
    <3>2. SessionFree(s[1])'
      BY <3>1, SessionFreeStays
    <3>3. QED
      BY <1>1, <3>1, <3>2, HandlersComeTo
  <2>2. CASE /\ s \in Sessions /\ pc[s[1]] = "idle" /\ SessionFree(s[1])
             /\ pc' = pc /\ sess' = sess
    BY <2>2, RecordsChange DEF SessionFree, PortalsOf, LoggedIn, StageSteps
  <2>3. QED
    BY <1>1, <2>1, <2>2, OrphansChange
<1>2. QED
  BY <1>1 DEF OrphansStay

\* The sweeper passes over a record only if it is gone, or not one to be deleted.
LEMMA SweepSkips ==
  ASSUME IInv, Sweeper \/ SweepFails, sweep.at \in {"exists", "recheck", "delete"}
  PROVE  /\ orphaned' \cap record' \subseteq sweep'.todo
         /\ sweep'.at \notin {"waiting", "sessions"}
<1> DEFINE s == First(sweep.todo)
<1>1. s \in sweep.todo /\ orphaned \cap record \subseteq sweep.todo
  BY FirstIn DEF IInv, OrphansAreListed, Types, DaemonTypes
<1>2. s \in orphaned => ~ HasSession(s) /\ (s \in record => ~ LoggedIn(s))
  <2>1. s \in orphaned => s \in Sessions /\ SessionFree(s[1])
    BY DEF IInv, OrphansStay, Types, DaemonTypes
  <2>2. s \in orphaned /\ s \in record => s[2] \in PortalsOf(s[1]) /\ s = <<s[1], s[2]>>
    BY <2>1 DEF IInv, PortalsAreReal, Sessions
  <2>3. QED
    BY <2>1, <2>2 DEF SessionFree, HasSession
<1>3. \A rest, at : SweepTo(rest, at) =>
        sweep'.todo = rest /\ sweep'.at \in {"done", at}
  BY DEF SweepTo
<1>4. CASE RecheckRecord
  <2>1. orphaned' = orphaned /\ record' = record
    BY <1>4 DEF RecheckRecord, node, ghosts
  <2>2. CASE s \in record
    BY <1>1, <1>3, <1>4, <2>1, <2>2 DEF RecheckRecord
  <2>3. CASE s \notin record
    BY <1>1, <1>3, <1>4, <2>1, <2>3 DEF RecheckRecord, SkipOrphan
  <2>4. QED
    BY <2>2, <2>3
<1>5. CASE RecheckSessions
  <2>1. orphaned' = orphaned /\ record' = record
    BY <1>5 DEF RecheckSessions, node, ghosts
  <2>2. CASE HasSession(s)
    BY <1>1, <1>2, <1>3, <1>5, <2>1, <2>2 DEF RecheckSessions, SkipOrphan
  <2>3. CASE ~ HasSession(s)
    BY <1>1, <1>3, <1>5, <2>1, <2>3 DEF RecheckSessions
  <2>4. QED
    BY <2>2, <2>3
<1>6. CASE DeleteOrphan
  <2>1. orphaned' = orphaned /\ record' = IF LoggedIn(s) THEN record ELSE record \ {s}
    BY <1>6 DEF DeleteOrphan, Deletes, ghosts
  <2>2. QED
    BY <1>1, <1>2, <1>3, <1>6, <2>1 DEF DeleteOrphan, SkipOrphan
<1>7. CASE SweepFails
  <2>1. orphaned' = orphaned \ {s} /\ record' = record /\ SkipOrphan
    BY <1>7 DEF SweepFails, node
  <2>2. QED
    BY <1>1, <1>3, <2>1 DEF SkipOrphan
<1>8. QED
  BY <1>4, <1>5, <1>6, <1>7 DEF Sweeper, ListNodeDBEntries, SelectOrphanedRecords

\* The sweeper forgets nothing that it has to delete.
LEMMA OrphansListedNext ==
  ASSUME IInv, [Next]_vars
  PROVE  OrphansAreListed' /\ OrphansAreSwept'
<1> DEFINE Goal == OrphansAreListed' /\ OrphansAreSwept'
<1> USE DEF OrphansAreListed, OrphansAreSwept
<1>1. /\ orphaned \in SUBSET Sessions
      /\ sweep.at \in {"waiting", "sessions", "exists", "recheck", "delete", "done"}
      /\ sweep.at \in {"waiting", "sessions"} => orphaned = {}
      /\ sweep.at \in {"exists", "recheck", "delete"} =>
           orphaned \cap record \subseteq sweep.todo
      /\ sweep.at = "done" => orphaned \cap record = {}
  BY DEF IInv, Types, DaemonTypes
<1>2. CASE sweep' = sweep
  <2>1. orphaned' \subseteq orphaned
    BY <1>2, OrphansChange
  <2>2. orphaned' \cap record' \subseteq record
    <3>1. ASSUME NEW s \in orphaned', s \in record', s \notin record PROVE FALSE
      <4>1. PICK v \in Volumes : pc[v] = "create" /\ s = Here(v)
        BY <3>1, RecordsChange
      <4>2. s[1] = v
        BY <4>1, HereIsMine DEF LoopSteps, IInv
      <4>3. QED
        BY <2>1, <3>1, <4>1, <4>2 DEF IInv, OrphansStay, StageSteps
    <3>2. QED
      BY <3>1
  <2>3. QED
    BY <1>1, <1>2, <2>1, <2>2
<1>3. CASE (Sweeper \/ SweepFails) /\ sweep.at \in {"exists", "recheck", "delete"}
  <2>1. orphaned' \cap record' \subseteq sweep'.todo /\ sweep'.at \notin {"waiting", "sessions"}
    BY <1>3, SweepSkips
  <2>2. sweep'.at = "done" => sweep'.todo = {}
    BY <1>3 DEF Sweeper, ListNodeDBEntries, SelectOrphanedRecords, RecheckRecord,
       RecheckSessions, DeleteOrphan, SweepFails, SkipOrphan, SweepTo
  <2>3. QED
    BY <2>1, <2>2
<1>4. CASE ListNodeDBEntries
  BY <1>1, <1>4 DEF ListNodeDBEntries, SweepTo, ghosts
<1>5. CASE SelectOrphanedRecords
  <2>1. \A s \in orphaned' : s \in sweep'.todo /\ sweep'.at = "exists"
    BY <1>1, <1>5, OrphansChange DEF SelectOrphanedRecords
  <2>2. sweep'.at \in {"exists", "done"}
    BY <1>5 DEF SelectOrphanedRecords, SweepTo
  <2>3. QED
    BY <2>1, <2>2
<1>6. CASE SweepFails /\ sweep.at \notin {"exists", "recheck", "delete"}
  BY <1>1, <1>6 DEF SweepFails
<1>7. CASE Restart \/ Reboot
  BY <1>7 DEF Restart, Reboot, Killed
<1>8. ASSUME NEW v \in Volumes,
             \/ Wants(v) \/ NodeStageVolume(v) \/ NodeUnstageVolume(v)
             \/ StageStep(v) \/ LoginGivesUp(v) \/ UnstageStep(v)
             \/ HandlerFails(v) \/ TargetFails(v) \/ TargetReturns(v)
      PROVE  sweep' = sweep
  BY <1>8 DEF Wants, NodeStageVolume, NodeUnstageVolume, StageStep, CreateNodeDBEntry,
     Login, FindSession, WaitForDevice, Mount, Expand, LoginGivesUp, UnstageStep, Umount,
     ForceUmount, FindSessions, FindSessionsByDevice, Logout, VerifyLogout,
     DeleteNodeDBEntry, VerifyDelete, Remaining, Finish, HandlerFails, TargetFails,
     TargetReturns, elsewhere, daemons
<1>9. CASE Reaper \/ PassFails \/ ReaperLogoutFails \/ UNCHANGED vars
             \/ (\E s \in Sessions : DeviceChanges(s))
  <2>1. sweep' = sweep
    BY <1>9 DEF Reaper, BeginPass, Evaluate, ReaperLogsOut, ReaperDeletes, PassFails,
       ReaperLogoutFails, DeviceChanges, vars, daemons
  <2>2. QED
    BY <1>2, <2>1
<1> HIDE DEF OrphansAreListed, OrphansAreSwept
<1>10. CASE Sweeper
  BY <1>3, <1>4, <1>5, <1>10 DEF Sweeper, RecheckRecord, RecheckSessions, DeleteOrphan
<1>11. QED
  BY <1>2, <1>3, <1>6, <1>7, <1>8, <1>9, <1>10 DEF Next

----------------------------------------------------------------------------
(* The inductive invariant, and what it implies.                           *)

\* A node that starts has nothing staged, and no sweep or pass under way.
LEMMA InitIInv == Init => IInv
<1> SUFFICES ASSUME Init PROVE IInv
  OBVIOUS
<1> USE DEF Init
<1>1. CallTypes
  BY DEF CallTypes, Steps, LoopSteps
<1>2. NodeTypes /\ BoundTypes
  <2>1. PICK s \in Setups : /\ layout = s.layout /\ changes = s.changes
                            /\ faults = s.faults /\ outages = s.outages
    OBVIOUS
  <2>2. /\ s.layout \in [Volumes -> Layout]
        /\ s.changes \in Nat /\ s.faults \in Nat /\ s.outages \in Nat
    BY SetupsAssumption DEF Setup
  <2>3. QED
    BY <2>1, <2>2 DEF NodeTypes, BoundTypes, States, Sessions
<1>3. DaemonTypes
  BY MinStaleAssumption DEF DaemonTypes
<1>4. HandlersServeGoals /\ PortalsAreReal
  BY DEF HandlersServeGoals, StageSteps, UnstageSteps, PortalsAreReal, LoggedIn
<1>5. ASSUME NEW v \in Volumes PROVE SessionFree(v)
  <2>1. \A p \in PortalsOf(v) : <<v, p>> \in Sessions
    BY <1>1, <1>2, <1>3, LayoutFacts DEF Types, Sessions
  <2>2. QED
    BY <2>1 DEF SessionFree, LoggedIn
<1>6. NoSessionAtTheEnd /\ AckedUnstageIsDetached
  BY <1>5 DEF NoSessionAtTheEnd, AckedUnstageIsDetached, Detached, SessionFree
<1>7. CalmIsUndisturbed /\ CalmMountsStay /\ AckedStageIsUsable
  BY DEF CalmIsUndisturbed, CalmMountsStay, AckedStageIsUsable
<1>8. OrphansStay /\ OrphansAreListed /\ OrphansAreSwept
  BY DEF OrphansStay, OrphansAreListed, OrphansAreSwept
<1>9. QED
  BY <1>1, <1>2, <1>3, <1>4, <1>6, <1>7, <1>8 DEF IInv, Types

\* Every step keeps it, part by part.
LEMMA NextIInv == IInv /\ [Next]_vars => IInv'
<1> SUFFICES ASSUME IInv, [Next]_vars PROVE IInv'
  OBVIOUS
<1>1. Types'
  BY CallTypesNext, NodeTypesNext, DaemonTypesNext, BoundTypesNext DEF Types, IInv
<1>2. QED
  BY <1>1, HandlersNext, PortalsAreRealNext, NoSessionAtTheEndNext, AckedUnstageNext,
     CalmNext, CalmMountsNext, AckedStageNext, OrphansStayNext, OrphansListedNext
     DEF IInv

\* Whatever fails, restarts or runs beside it, the inductive invariant holds.
THEOREM Inductive == Spec => []IInv
BY InitIInv, NextIInv, PTL DEF Spec

\* The types of TypeOK, for every set of volumes, of portals and of layouts.
THEOREM TypeCorrect == Spec => []TypeOK
<1>1. IInv => TypeOK
  BY TypesAreTypeOK DEF IInv
<1>2. QED
  BY <1>1, Inductive, PTL

\* NodeUnstageVolume is never answered OK while something is mounted or a session left, for
\* a volume whose target's name contains its id; for other names this is not so.
THEOREM UnstageDetaches == Spec => []AckedUnstageIsDetached
<1>1. IInv => AckedUnstageIsDetached
  BY DEF IInv
<1>2. QED
  BY <1>1, Inductive, PTL

\* What NodeStageVolume was answered OK for stays mounted from a device that works.
THEOREM StageStaysUsable == Spec => []AckedStageIsUsable
<1>1. IInv => AckedStageIsUsable
  BY DEF IInv
<1>2. QED
  BY <1>1, Inductive, PTL

\* A sweep that ends has deleted the records that it had to.
THEOREM SweepIsThorough == Spec => []OrphansAreSwept
<1>1. IInv => OrphansAreSwept
  BY DEF IInv
<1>2. QED
  BY <1>1, Inductive, PTL
====
