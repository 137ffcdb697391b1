----------------------------- MODULE IscsiNode -----------------------------
(***************************************************************************)
(* The iSCSI side of the node service: NodeStageVolume logs in to a        *)
(* volume's target and mounts its device, NodeUnstageVolume unmounts it    *)
(* and reclaims the sessions (driver/index.js), a one-shot sweeper deletes *)
(* node-DB records without a session (utils/iscsi-node-db-sweeper.js) and  *)
(* a reaper logs out of sessions whose devices are gone                    *)
(* (utils/iscsi-session-reaper.js).  All of them run iscsiadm commands one *)
(* at a time (utils/iscsi.js) on the state the kernel and iscsid keep;     *)
(* between two commands of one, any other may run.                         *)
(*                                                                         *)
(* The operation lock lets one of the two calls run on a volume; nothing   *)
(* keeps the sweeper or the reaper off a volume that is being staged.      *)
(***************************************************************************)
EXTENDS Naturals

CONSTANTS
    Volumes,
    Portals,
    MinStale,       \* minStaleSeconds, in passes of the reaper
    Setups          \* the layouts of volumes to consider, and bounds

\* embedded: the target's IQN contains the volume id.  portals: those in the
\* volume context; with several, the devices are the paths of a multipath one.
Layout == [embedded : BOOLEAN, portals : (SUBSET Portals) \ {{}}]

\* The bounds: how often the CO changes its mind, commands fail or the process or
\* the node dies, and a target fails.
Setup == [layout : [Volumes -> Layout],
          changes : Nat, faults : Nat, outages : Nat]

ASSUME SetupsAssumption == Setups \subseteq Setup
ASSUME MinStaleAssumption == MinStale \in Nat

\* A session, and a record of the node DB: a target (a volume's) and a portal.
Sessions == Volumes \X Portals

VARIABLES
    layout,
    goal,       \* goal[v]: what the CO wants, "staged" or "unstaged"
    acked,      \* acked[v]: it was answered OK since it wants it
    pc,         \* pc[v]: the next step of v's handler, "idle" without one
    todo,       \* todo[v]: the portals v's handler has yet to deal with
    got,        \* got[v]: the portals whose devices NodeStageVolume found
    block,      \* block[v]: is_block and block_device_info, NodeUnstageVolume
    dead,       \* dead[v]: device_confirmed_dead of NodeUnstageVolume
    target,     \* target[v]: v's target answers
    sess,       \* sess[s]: session s and the state of its device
    record,     \* the node-DB records
    mount,      \* mount[v]: v's staging path: "none", "device", or "stale"
                \* when the device it was mounted from has gone
    sweep,      \* where the sweeper is, and the orphans it has left to do
    reap,       \* where the reaper's pass is, and what it has left to do
    stale,      \* staleSince: 0, or 1 + the passes since s was first seen stale
    calm,       \* calm[v]: no outage or reboot since v's staging began (ghost)
    orphaned,   \* the records the sweeper has to delete (ghost)
    changes, faults, outages    \* those that are left

local == <<pc, todo, got, block, dead>>
node == <<sess, record, mount>>
daemons == <<sweep, reap, stale>>
ghosts == <<calm, orphaned>>
bounds == <<changes, faults, outages>>
vars == <<layout, goal, acked, local, target, node, daemons, ghosts, bounds>>

----------------------------------------------------------------------------
PortalsOf(v) == layout[v].portals
Multipath(v) == \E p, q \in PortalsOf(v) : p # q
LoggedIn(s) == sess[s] # "none"
HasDevice(s) == sess[s] \in {"running", "offline"}
Attached(v) == {p \in PortalsOf(v) : HasDevice(<<v, p>>)}
Usable(v) == \E p \in PortalsOf(v) : sess[<<v, p>>] = "running"

\* The element of a list that a loop is at; lists are sets here.
First(S) == CHOOSE x \in S : TRUE
Here(v) == <<v, First(todo[v])>>

Fault == faults > 0 /\ faults' = faults - 1

Init ==
    /\ \E s \in Setups :
         /\ layout = s.layout
         /\ changes = s.changes /\ faults = s.faults /\ outages = s.outages
    /\ goal = [v \in Volumes |-> "unstaged"]
    /\ acked = [v \in Volumes |-> TRUE]
    /\ pc = [v \in Volumes |-> "idle"]
    /\ todo = [v \in Volumes |-> {}]
    /\ got = [v \in Volumes |-> {}]
    /\ block = [v \in Volumes |-> FALSE]
    /\ dead = [v \in Volumes |-> FALSE]
    /\ target = [v \in Volumes |-> TRUE]
    /\ sess = [s \in Sessions |-> "none"]
    /\ record = {}
    /\ mount = [v \in Volumes |-> "none"]
    /\ sweep = [at |-> "waiting", todo |-> {}]
    /\ reap = [at |-> "idle", todo |-> {}, seen |-> {}, ok |-> TRUE]
    /\ stale = [s \in Sessions |-> 0]
    /\ calm = [v \in Volumes |-> FALSE]
    /\ orphaned = {}

----------------------------------------------------------------------------
(* iscsiadm and the kernel.                                                *)

\* iscsiadm -m node -u: logs out of a session that has a record, mounted or
\* not, and says "no records found" (code 21, swallowed) otherwise.
LogsOut(s) ==
    LET gone == [sess EXCEPT ![s] = IF s \in record THEN "none" ELSE @]
    IN  /\ sess' = gone
        /\ mount' = [mount EXCEPT ![s[1]] =
             IF @ = "device" /\ \A p \in PortalsOf(s[1]) : gone[<<s[1], p>>] = "none"
             THEN "stale" ELSE @]

\* iscsiadm -m node -o delete: refused while a session is using the record.
Deletes(s) == record' = IF LoggedIn(s) THEN record ELSE record \ {s}

TargetFails(v) ==
    /\ target[v] /\ outages > 0
    /\ target' = [target EXCEPT ![v] = FALSE]
    /\ calm' = [calm EXCEPT ![v] = FALSE]
    /\ outages' = outages - 1
    /\ UNCHANGED <<layout, goal, acked, local, node, daemons, orphaned,
                   changes, faults>>

TargetReturns(v) ==
    /\ ~ target[v]
    /\ target' = [target EXCEPT ![v] = TRUE]
    /\ UNCHANGED <<layout, goal, acked, local, node, daemons, ghosts, bounds>>

\* The device appears some time after the login, goes offline some time after
\* the target does (replacement_timeout), and recovers with the session.
DeviceChanges(s) ==
    /\ sess' = [sess EXCEPT ![s] =
                  CASE @ = "none"     -> "none"
                    [] ~ target[s[1]] -> IF @ = "running" THEN "offline" ELSE @
                    [] OTHER          -> "running"]
    /\ sess' # sess
    /\ UNCHANGED <<layout, goal, acked, local, target, record, mount, daemons,
                   ghosts, bounds>>

----------------------------------------------------------------------------
(* The calls of the CO.                                                    *)

\* The CO changes its mind only between two calls, whether or not the last
\* one succeeded.
Wants(v) ==
    /\ pc[v] = "idle" /\ changes > 0
    /\ goal' = [goal EXCEPT ![v] = IF @ = "staged" THEN "unstaged" ELSE "staged"]
    /\ acked' = [acked EXCEPT ![v] = FALSE]
    /\ calm' = [calm EXCEPT ![v] = FALSE]
    /\ changes' = changes - 1
    /\ UNCHANGED <<layout, local, target, node, daemons, orphaned,
                   faults, outages>>

\* A handler's step: v's handler goes on at `next`, nothing else of it changes.
Goes(v, next) ==
    /\ pc' = [pc EXCEPT ![v] = next]
    /\ UNCHANGED <<todo, got, block, dead>>

Answers(v, ok) ==
    /\ pc' = [pc EXCEPT ![v] = "idle"]
    /\ todo' = [todo EXCEPT ![v] = {}]
    /\ got' = [got EXCEPT ![v] = {}]
    /\ block' = [block EXCEPT ![v] = FALSE]
    /\ dead' = [dead EXCEPT ![v] = FALSE]
    /\ acked' = [acked EXCEPT ![v] = @ \/ ok]

Fails(v) == Answers(v, FALSE)

elsewhere == <<layout, goal, target, daemons, ghosts, bounds>>

\* A command of the handler fails (for good, where it is tried again).
HandlerFails(v) ==
    /\ pc[v] # "idle"
    /\ Fault
    /\ Fails(v)
    /\ UNCHANGED <<layout, goal, target, node, daemons, ghosts, changes, outages>>

----------------------------------------------------------------------------
(* NodeStageVolume.                                                        *)

\* No outage shows, and the reaper has not seen one that it may act on: none is
\* in its list, and it is not about to log out of a session of v.
Undisturbed(v) ==
    /\ target[v]
    /\ \A p \in PortalsOf(v) : sess[<<v, p>>] # "offline"
    /\ \A e \in reap.todo : e[1][1] = v => e[2] # "offline"
    /\ reap.at = "logout" => First(reap.todo)[1][1] # v

NodeStageVolume(v) ==
    /\ pc[v] = "idle" /\ goal[v] = "staged"
    /\ pc' = [pc EXCEPT ![v] = "create"]
    /\ todo' = [todo EXCEPT ![v] = PortalsOf(v)]
    /\ calm' = [calm EXCEPT ![v] = IF acked[v] THEN @ ELSE Undisturbed(v)]
    /\ orphaned' = {s \in orphaned : s[1] # v}
    /\ UNCHANGED <<layout, goal, acked, got, block, dead, target, node, daemons,
                   bounds>>

CreateNodeDBEntry(v) ==
    /\ pc[v] = "create"
    /\ record' = record \cup {Here(v)}
    /\ Goes(v, "login")
    /\ UNCHANGED <<acked, sess, mount, elsewhere>>

\* Mutant: a login that is refused because of a session (code 15) fails.
LoginAnew(v) ==
    /\ pc[v] = "login"
    /\ \/ /\ ~ LoggedIn(Here(v)) /\ target[v] /\ Here(v) \in record
          /\ sess' = [sess EXCEPT ![Here(v)] = "nodevice"]
          /\ Goes(v, "session")
          /\ UNCHANGED acked
       \/ /\ LoggedIn(Here(v)) /\ Fails(v) /\ UNCHANGED sess
    /\ UNCHANGED <<record, mount, elsewhere>>

\* "Already logged in" (code 15) will do.  The device appears later.
Login(v) ==
    /\ pc[v] = "login"
    /\ \/ LoggedIn(Here(v)) /\ UNCHANGED sess
       \/ /\ ~ LoggedIn(Here(v)) /\ target[v] /\ Here(v) \in record
          /\ sess' = [sess EXCEPT ![Here(v)] = "nodevice"]
    /\ Goes(v, "session")
    /\ UNCHANGED <<acked, record, mount, elsewhere>>

\* The target does not answer, or the record has been deleted ("no records
\* found"), in every one of the tries.
LoginGivesUp(v) ==
    /\ pc[v] = "login"
    /\ ~ LoggedIn(Here(v)) /\ (~ target[v] \/ Here(v) \notin record)
    /\ Fails(v)
    /\ UNCHANGED <<node, elsewhere>>

\* getSession and rescanSession.
FindSession(v) ==
    /\ pc[v] = "session"
    /\ IF LoggedIn(Here(v)) THEN Goes(v, "device") /\ UNCHANGED acked
                            ELSE Fails(v)
    /\ UNCHANGED <<node, elsewhere>>

\* Mutant: the loop over the portals goes on after the last of them.
WaitForDeviceAgain(v) ==
    /\ pc[v] = "device"
    /\ got' = [got EXCEPT ![v] =
                 IF HasDevice(Here(v)) THEN @ \cup {First(todo[v])} ELSE @]
    /\ todo' = [todo EXCEPT ![v] = @ \ {First(@)}]
    /\ pc' = [pc EXCEPT ![v] = "create"]
    /\ UNCHANGED <<acked, block, dead, node, elsewhere>>

\* The device is there, or has not come within 30 seconds: the next portal.
WaitForDevice(v) ==
    /\ pc[v] = "device"
    /\ got' = [got EXCEPT ![v] =
                 IF HasDevice(Here(v)) THEN @ \cup {First(todo[v])} ELSE @]
    /\ todo' = [todo EXCEPT ![v] = @ \ {First(@)}]
    /\ pc' = [pc EXCEPT ![v] = IF todo'[v] = {} THEN "mount" ELSE "create"]
    /\ UNCHANGED <<acked, block, dead, node, elsewhere>>

GotUsable(v) == \E p \in got[v] : sess[<<v, p>>] = "running"

\* Formats and checks the device, and mounts it unless it is mounted there.  A
\* stale mount is mounted over.
Mount(v) ==
    /\ pc[v] = "mount"
    /\ IF GotUsable(v)
       THEN /\ mount' = [mount EXCEPT ![v] = "device"]
            /\ Goes(v, "expand")
            /\ UNCHANGED acked
       ELSE Fails(v) /\ UNCHANGED mount
    /\ UNCHANGED <<sess, record, elsewhere>>

Expand(v) ==
    /\ pc[v] = "expand"
    /\ Answers(v, GotUsable(v))
    /\ UNCHANGED <<node, elsewhere>>

----------------------------------------------------------------------------
(* NodeUnstageVolume.                                                      *)

NodeUnstageVolume(v) ==
    /\ pc[v] = "idle" /\ goal[v] = "unstaged"
    /\ pc' = [pc EXCEPT ![v] = "umount"]
    /\ block' = [block EXCEPT ![v] = mount[v] = "device"]
    /\ UNCHANGED <<acked, todo, got, dead, node, elsewhere>>

\* The device the mount came from is missing, or it (one path) is offline.
StagingDeviceIsDead(v) ==
    \/ mount[v] = "stale"
    \/ \E p \in PortalsOf(v) : sess[<<v, p>>] = "offline"

\* umount() takes exit code 32 ("target is busy", among others) for success.
Umount(v) ==
    /\ pc[v] = "umount"
    /\ \/ mount' = [mount EXCEPT ![v] = "none"] /\ UNCHANGED faults
       \/ mount[v] # "none" /\ UNCHANGED mount /\ Fault
    /\ Goes(v, "sessions")
    /\ UNCHANGED <<layout, goal, acked, target, sess, record, daemons, ghosts,
                   changes, outages>>

\* Mutant: umount failing is an error, dead device or not.
ForceUmountNever(v) ==
    /\ pc[v] = "umount"
    /\ mount[v] # "none" /\ StagingDeviceIsDead(v)
    /\ Fails(v)
    /\ UNCHANGED <<node, elsewhere>>

\* umount hangs because the device is gone: a lazy forced one is tried, its
\* failure is ignored, and the handler goes on to reclaim the session.
ForceUmount(v) ==
    /\ pc[v] = "umount"
    /\ mount[v] # "none" /\ StagingDeviceIsDead(v)
    /\ \/ mount' = [mount EXCEPT ![v] = "none"] /\ UNCHANGED faults
       \/ UNCHANGED mount /\ Fault
    /\ pc' = [pc EXCEPT ![v] = "sessions"]
    /\ dead' = [dead EXCEPT ![v] = TRUE]
    /\ UNCHANGED <<layout, goal, acked, todo, got, block, target, sess, record,
                   daemons, ghosts, changes, outages>>

\* reclaimDeadIscsiSession: the sessions whose target contains the volume id.
FindSessions(v) ==
    /\ pc[v] = "sessions"
    /\ LET matches == {p \in PortalsOf(v) : LoggedIn(<<v, p>>) /\ layout[v].embedded}
       IN  /\ todo' = [todo EXCEPT ![v] = matches]
           /\ pc' = [pc EXCEPT ![v] = IF matches = {} THEN "fallback" ELSE "logout"]
    /\ UNCHANGED <<acked, got, block, dead, node, elsewhere>>

\* The sessions of the device(s) that were mounted when the handler began, if
\* the target's name told nothing; lsblk fails if the last of them has gone.
FindSessionsByDevice(v) ==
    /\ pc[v] = "fallback"
    /\ IF ~ block[v] \/ dead[v]
       THEN Goes(v, "finish") /\ UNCHANGED acked
       ELSE IF Attached(v) = {}
       THEN Fails(v)
       ELSE /\ todo' = [todo EXCEPT ![v] = Attached(v)]
            /\ pc' = [pc EXCEPT ![v] = "logout"]
            /\ UNCHANGED <<acked, got, block, dead>>
    /\ UNCHANGED <<node, elsewhere>>

\* logoutAndDeleteTarget: whatever iscsiadm's exit code, what counts is the
\* state found afterwards (and once more 250 ms later).
Logout(v) ==
    /\ pc[v] = "logout"
    /\ \/ LogsOut(Here(v)) /\ UNCHANGED faults
       \/ UNCHANGED <<sess, mount>> /\ Fault
    /\ Goes(v, "verifylogout")
    /\ UNCHANGED <<layout, goal, acked, target, record, daemons, ghosts, changes,
                   outages>>

VerifyLogout(v) ==
    /\ pc[v] = "verifylogout"
    /\ IF LoggedIn(Here(v)) THEN Fails(v)
                            ELSE Goes(v, "delete") /\ UNCHANGED acked
    /\ UNCHANGED <<node, elsewhere>>

DeleteNodeDBEntry(v) ==
    /\ pc[v] = "delete"
    /\ \/ Deletes(Here(v)) /\ UNCHANGED faults
       \/ UNCHANGED record /\ Fault
    /\ Goes(v, "verifydelete")
    /\ UNCHANGED <<layout, goal, acked, target, sess, mount, daemons, ghosts,
                   changes, outages>>

VerifyDelete(v) ==
    /\ pc[v] = "verifydelete"
    /\ IF Here(v) \in record
       THEN Fails(v)
       ELSE /\ todo' = [todo EXCEPT ![v] = @ \ {First(@)}]
            /\ pc' = [pc EXCEPT ![v] =
                        IF todo'[v] = {} THEN "remaining" ELSE "logout"]
            /\ UNCHANGED <<acked, got, block, dead>>
    /\ UNCHANGED <<node, elsewhere>>

\* The sessions are enumerated again: none of the volume's may be left.
Remaining(v) ==
    /\ pc[v] = "remaining"
    /\ IF layout[v].embedded /\ \E p \in PortalsOf(v) : LoggedIn(<<v, p>>)
       THEN Fails(v)
       ELSE Goes(v, "finish") /\ UNCHANGED acked
    /\ UNCHANGED <<node, elsewhere>>

\* Mutant: success although the staging path is still mounted.
FinishAnyway(v) ==
    /\ pc[v] = "finish"
    /\ Answers(v, TRUE)
    /\ UNCHANGED <<node, elsewhere>>

\* "Refusing NodeUnstageVolume success: staging path still mounted"; else the
\* directory is removed.
Finish(v) ==
    /\ pc[v] = "finish"
    /\ Answers(v, mount[v] = "none")
    /\ UNCHANGED <<node, elsewhere>>

----------------------------------------------------------------------------
(* The sweeper: one sweep, some time after the process starts.             *)
handlers == <<layout, goal, acked, local, target>>

SweepTo(rest, at) ==
    sweep' = [at |-> IF rest = {} THEN "done" ELSE at, todo |-> rest]

SkipOrphan == SweepTo(sweep.todo \ {First(sweep.todo)}, "exists")

ListNodeDBEntries ==
    /\ sweep.at = "waiting"
    /\ SweepTo(record, "sessions")
    /\ UNCHANGED <<handlers, node, reap, stale, ghosts, bounds>>

HasSession(s) == \E p \in PortalsOf(s[1]) : LoggedIn(<<s[1], p>>)

SelectOrphanedRecords ==
    /\ sweep.at = "sessions"
    /\ LET orphans == {s \in sweep.todo : ~ HasSession(s)}
       IN  /\ SweepTo(orphans, "exists")
           /\ orphaned' = {s \in orphans : pc[s[1]] = "idle"}
    /\ UNCHANGED <<handlers, node, reap, stale, calm, bounds>>

RecheckRecord ==
    /\ sweep.at = "exists"
    /\ IF First(sweep.todo) \in record THEN SweepTo(sweep.todo, "recheck")
                                       ELSE SkipOrphan
    /\ UNCHANGED <<handlers, node, reap, stale, ghosts, bounds>>

RecheckSessions ==
    /\ sweep.at = "recheck"
    /\ IF HasSession(First(sweep.todo)) THEN SkipOrphan
                                        ELSE SweepTo(sweep.todo, "delete")
    /\ UNCHANGED <<handlers, node, reap, stale, ghosts, bounds>>

DeleteOrphan ==
    /\ sweep.at = "delete"
    /\ Deletes(First(sweep.todo))
    /\ SkipOrphan
    /\ UNCHANGED <<handlers, sess, mount, reap, stale, ghosts, bounds>>

\* Mutant: a failure on one record ends the sweep.
SweepAborts ==
    /\ sweep.at \in {"sessions", "exists", "recheck", "delete"}
    /\ Fault
    /\ sweep' = [at |-> "done", todo |-> {}]
    /\ orphaned' = orphaned \ {First(sweep.todo)}
    /\ UNCHANGED <<handlers, node, reap, stale, calm, changes, outages>>

\* A command fails: it ends the sweep before the loop, and skips one record in it.
SweepFails ==
    /\ sweep.at \in {"waiting", "sessions", "exists", "recheck", "delete"}
    /\ Fault
    /\ IF sweep.at \in {"waiting", "sessions"}
       THEN sweep' = [at |-> "done", todo |-> {}] /\ UNCHANGED orphaned
       ELSE SkipOrphan /\ orphaned' = orphaned \ {First(sweep.todo)}
    /\ UNCHANGED <<handlers, node, reap, stale, calm, changes, outages>>

Sweeper ==
    \/ ListNodeDBEntries \/ SelectOrphanedRecords
    \/ RecheckRecord \/ RecheckSessions \/ DeleteOrphan

----------------------------------------------------------------------------
(* The reaper: reconcile, again and again (runOnce keeps passes apart).    *)

\* Mutant: every session is forgotten at the end of a pass.
PassGoesOnForgetting(rest, seen, tracked) ==
    /\ reap' = [at |-> IF rest = {} THEN "idle" ELSE "evaluate", todo |-> rest,
                seen |-> IF rest = {} THEN {} ELSE seen, ok |-> TRUE]
    /\ stale' = [s \in Sessions |-> IF rest = {} THEN 0 ELSE tracked[s]]

\* The pass goes on with the rest of its sessions; at its end, sessions that
\* are no candidates (seen) are forgotten.
PassGoesOn(rest, seen, tracked) ==
    /\ reap' = [at |-> IF rest = {} THEN "idle" ELSE "evaluate", todo |-> rest,
                seen |-> IF rest = {} THEN {} ELSE seen, ok |-> TRUE]
    /\ stale' = [s \in Sessions |->
                   IF rest = {} /\ s \notin seen THEN 0 ELSE tracked[s]]

Later == [s \in Sessions |->
            IF stale[s] \in 1..MinStale THEN stale[s] + 1 ELSE stale[s]]

\* getSessionsDetails: the sessions and the states of their devices.
BeginPass ==
    /\ reap.at = "idle"
    /\ LET found == {<<s, sess[s]>> : s \in {t \in Sessions : LoggedIn(t)}}
       IN  PassGoesOn(found, {}, Later)
    /\ UNCHANGED <<handlers, node, sweep, calm, orphaned, bounds>>

PassFails ==
    /\ reap.at = "idle"
    /\ Fault
    /\ stale' = Later
    /\ UNCHANGED <<handlers, node, sweep, reap, ghosts, changes, outages>>

\* Mutant: a device that is not mounted is stale whatever its state.
IsSessionUnmounted(s, listed) ==
    /\ listed # "nodevice"
    /\ Multipath(s[1]) \/ mount[s[1]] = "none"

\* The state of the device (from sysfs, or as listed if it has gone since) and
\* whether it is mounted: the paths of a multipath device never are.
IsSessionReapable(s, listed) ==
    /\ listed # "nodevice"
    /\ (IF HasDevice(s) THEN sess[s] ELSE listed) = "offline"
    /\ Multipath(s[1]) \/ mount[s[1]] = "none"

Evaluate ==
    /\ reap.at = "evaluate"
    /\ LET e == First(reap.todo)
           s == e[1]
           firstSeen == [stale EXCEPT ![s] = IF @ = 0 THEN 1 ELSE @]
       IN  IF ~ IsSessionReapable(s, e[2])
           THEN PassGoesOn(reap.todo \ {e}, reap.seen, [stale EXCEPT ![s] = 0])
           ELSE IF firstSeen[s] > MinStale
           THEN /\ reap' = [reap EXCEPT !.at = "logout", !.seen = @ \cup {s}]
                /\ stale' = firstSeen
           ELSE PassGoesOn(reap.todo \ {e}, reap.seen \cup {s}, firstSeen)
    /\ UNCHANGED <<handlers, node, sweep, calm, orphaned, bounds>>

ReaperLogsOut ==
    /\ reap.at = "logout"
    /\ LogsOut(First(reap.todo)[1])
    /\ reap' = [reap EXCEPT !.at = "delete"]
    /\ UNCHANGED <<handlers, record, sweep, stale, ghosts, bounds>>

\* A logout that fails keeps the staleness timer.
ReaperLogoutFails ==
    /\ reap.at = "logout"
    /\ Fault
    /\ reap' = [reap EXCEPT !.at = "delete", !.ok = FALSE]
    /\ UNCHANGED <<handlers, node, sweep, stale, ghosts, changes, outages>>

\* The failure of the deletion is only logged.
ReaperDeletes ==
    /\ reap.at = "delete"
    /\ \/ Deletes(First(reap.todo)[1]) /\ UNCHANGED faults
       \/ UNCHANGED record /\ Fault
    /\ LET e == First(reap.todo)
       IN  IF reap.ok
           THEN PassGoesOn(reap.todo \ {e}, reap.seen \ {e[1]},
                           [stale EXCEPT ![e[1]] = 0])
           ELSE PassGoesOn(reap.todo \ {e}, reap.seen, stale)
    /\ UNCHANGED <<handlers, sess, mount, sweep, calm, orphaned, changes, outages>>

Reaper == BeginPass \/ Evaluate \/ ReaperLogsOut \/ ReaperDeletes

----------------------------------------------------------------------------
(* The process restarts, alone or with its node.  The calls in progress end *)
(* unanswered; open-iscsi keeps its records, and logs in to none (manual).  *)
Killed ==
    /\ Fault
    /\ pc' = [v \in Volumes |-> "idle"]
    /\ todo' = [v \in Volumes |-> {}]
    /\ got' = [v \in Volumes |-> {}]
    /\ block' = [v \in Volumes |-> FALSE]
    /\ dead' = [v \in Volumes |-> FALSE]
    /\ sweep' = [at |-> "waiting", todo |-> {}]
    /\ reap' = [at |-> "idle", todo |-> {}, seen |-> {}, ok |-> TRUE]
    /\ stale' = [s \in Sessions |-> 0]
    /\ orphaned' = {}
    /\ UNCHANGED <<layout, goal, acked, target, record, changes, outages>>

Restart == Killed /\ UNCHANGED <<sess, mount, calm>>

Reboot ==
    /\ Killed
    /\ sess' = [s \in Sessions |-> "none"]
    /\ mount' = [v \in Volumes |-> "none"]
    /\ calm' = [v \in Volumes |-> FALSE]

StageStep(v) ==
    \/ CreateNodeDBEntry(v) \/ Login(v) \/ FindSession(v) \/ WaitForDevice(v)
    \/ Mount(v) \/ Expand(v)

UnstageStep(v) ==
    \/ Umount(v) \/ ForceUmount(v) \/ FindSessions(v) \/ FindSessionsByDevice(v)
    \/ Logout(v) \/ VerifyLogout(v) \/ DeleteNodeDBEntry(v) \/ VerifyDelete(v)
    \/ Remaining(v) \/ Finish(v)

Next ==
    \/ \E v \in Volumes :
         \/ Wants(v) \/ NodeStageVolume(v) \/ NodeUnstageVolume(v)
         \/ StageStep(v) \/ LoginGivesUp(v)
         \/ UnstageStep(v)
         \/ HandlerFails(v)
         \/ TargetFails(v) \/ TargetReturns(v)
    \/ \E s \in Sessions : DeviceChanges(s)
    \/ Sweeper \/ SweepFails
    \/ Reaper \/ PassFails \/ ReaperLogoutFails
    \/ Restart \/ Reboot

Spec == Init /\ [][Next]_vars

\* The CO sends a call again until it is answered OK; handlers, sweeper and
\* reaper go on; devices follow their targets.
Fairness ==
    /\ \A v \in Volumes :
         /\ WF_vars(~ acked[v] /\ (NodeStageVolume(v) \/ NodeUnstageVolume(v)))
         /\ WF_vars(StageStep(v) \/ LoginGivesUp(v))
         /\ WF_vars(UnstageStep(v))
    /\ \A s \in Sessions : WF_vars(DeviceChanges(s))
    /\ WF_vars(Sweeper) /\ WF_vars(Reaper)

FairSpec == Spec /\ Fairness

----------------------------------------------------------------------------
\* The types of what iscsid and the kernel keep, of the handlers' variables
\* and of the daemons'; a loop is only left with nothing to do.
TypeOK ==
    /\ layout \in [Volumes -> Layout]
    /\ {changes, faults, outages} \subseteq Nat
    /\ goal \in [Volumes -> {"staged", "unstaged"}]
    /\ acked \in [Volumes -> BOOLEAN]
    /\ pc \in [Volumes -> {"idle", "create", "login", "session", "device",
                 "mount", "expand", "umount", "sessions", "fallback", "logout",
                 "verifylogout", "delete", "verifydelete", "remaining", "finish"}]
    /\ todo \in [Volumes -> SUBSET Portals]
    /\ got \in [Volumes -> SUBSET Portals]
    /\ block \in [Volumes -> BOOLEAN]
    /\ dead \in [Volumes -> BOOLEAN]
    /\ target \in [Volumes -> BOOLEAN]
    /\ sess \in [Sessions -> {"none", "nodevice", "running", "offline"}]
    /\ record \subseteq Sessions
    /\ mount \in [Volumes -> {"none", "device", "stale"}]
    /\ sweep.at \in {"waiting", "sessions", "exists", "recheck", "delete", "done"}
    /\ sweep.todo \subseteq record \cup Sessions
    /\ reap.at \in {"idle", "evaluate", "logout", "delete"}
    /\ reap.seen \subseteq Sessions
    /\ stale \in [Sessions -> 0 .. MinStale + 1]
    /\ calm \in [Volumes -> BOOLEAN]
    /\ orphaned \subseteq Sessions
    /\ \A v \in Volumes :
         pc[v] \in {"create", "login", "session", "device", "logout",
                    "verifylogout", "delete", "verifydelete"} <=> todo[v] # {}
    /\ sweep.at \in {"exists", "recheck", "delete"} => sweep.todo # {}
    /\ reap.at = "idle" <=> reap.todo = {}

Detached(v) ==
    mount[v] = "none" /\ \A p \in PortalsOf(v) : ~ LoggedIn(<<v, p>>)

\* "Reporting success here would let the CO DeleteVolume under a live session":
\* once NodeUnstageVolume has been answered OK nothing is mounted and no
\* session is left, whatever failed, died or ran beside it on the way, for a
\* target whose name contains the volume id.
AckedUnstageIsDetached ==
    \A v \in Volumes :
      layout[v].embedded /\ goal[v] = "unstaged" /\ acked[v] => Detached(v)

\* A volume answered OK to NodeStageVolume stays mounted from a device that
\* works for as long as its target does: neither the sweeper, the reaper, a
\* restart nor a second call detaches it.
AckedStageIsUsable ==
    \A v \in Volumes :
      goal[v] = "staged" /\ acked[v] /\ calm[v] => mount[v] = "device" /\ Usable(v)

\* The sweep does its job: when it ends, no record is left that had no session
\* and no call in progress when it began, but for those a command failed on.
OrphansAreSwept == sweep.at = "done" => orphaned \cap record = {}

\* "only force-clear a confirmed-dead target; never a healthy busy mount": while
\* the staging path is mounted, NodeUnstageVolume logs out of no session with a
\* working device, unless it has found the device dead.
BusyMountsAreKept ==
    [][ \A v \in Volumes :
          Logout(v) /\ ~ dead[v] /\ mount[v] = "device" /\ sess[Here(v)] = "running"
            => UNCHANGED sess ]_vars

\* "Any running or mounted device leaves the session completely untouched"
\* (examples/node-common.yaml): the reaper logs out of no session whose device
\* works and is mounted.
MountedSessionsAreKept ==
    [][ \A s \in Sessions :
          /\ ReaperLogsOut /\ First(reap.todo)[1] = s
          /\ sess[s] = "running" /\ mount[s[1]] = "device"
          => sess'[s] = "running" ]_vars

\* Every NodeUnstageVolume succeeds in the end, although its target is dead, and
\* every NodeStageVolume while the target works, although records and sessions
\* are deleted under it and an earlier attempt has left its own.
HandlersSucceed ==
    \A v \in Volumes : []<>(acked[v] \/ (goal[v] = "staged" /\ ~ target[v]))

\* A session whose devices are offline does not stay: it recovers, is in use,
\* or goes.
StaleSessionsGo ==
    \A s \in Sessions : []<>(sess[s] # "offline" \/ mount[s[1]] # "none")

=============================================================================
