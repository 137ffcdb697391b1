--------------------------- MODULE ControllerZfs ---------------------------
(***************************************************************************)
(* The controller service of the ZFS drivers (driver/controller-zfs):      *)
(* volumes, clones, snapshots and detached snapshots on a pool, one zfs or *)
(* share command at a time, under the keys of the operation lock and with  *)
(* commands that fail and processes that die between any two of them.      *)
(*                                                                         *)
(* The handlers keep nothing in memory from one call to the next: all that *)
(* a retry finds is the pool.                                              *)
(***************************************************************************)
EXTENDS ControllerCalls

CONSTANTS
    ResourceTypes,  \* the kinds of driver to consider
    EnableQuotas,   \* zfs.datasetEnableQuotas
    IgnoreForeign,  \* zfs.deleteVolumeIgnoreForeignSnapshots
    Writable,       \* the volumes whose data changes while they are in use
    MaxWrites,      \* bound: writes to volumes in a behaviour
    MaxFaults       \* bound: failed commands and restarts in a behaviour

ASSUME OptionsAssumption ==
    /\ ResourceTypes \subseteq {"filesystem", "volume"}
    /\ EnableQuotas \in BOOLEAN /\ IgnoreForeign \in BOOLEAN
    /\ Writable \subseteq Volumes /\ MaxWrites \in Nat /\ MaxFaults \in Nat

VARIABLES
    resourceType,   \* driverZfsResourceType
    origin,     \* origin[r]: the origin DeleteVolume read at its start
    ds,         \* the pool's datasets
    snap,       \* the pool's snapshots
    shares,     \* the volumes with a share (an export, a target)
    since,      \* since[r]: the write count when r was first sent (ghost)
    writes, faults

pool == <<ds, snap, shares>>
ghosts == <<since, promised, captured>>
bounds == <<writes, faults>>
options == <<call, resourceType>>
vars == <<options, pc, origin, answer, pool, ghosts, bounds>>

Sized == resourceType = "volume" \/ EnableQuotas

----------------------------------------------------------------------------
(* The steps of each handler, in the order of the code.  A step may end    *)
(* the handler with an error; only Receive can skip one.                   *)

\* Mutant: a detached clone forgets the temporary snapshot of its source.
CopyStepsLeaving(c) ==
    CASE c.source[1] = "none"     -> <<"create">>
      [] c.source[1] = "snapshot" ->
           IF c.detached THEN <<"receive", "props", "strip">> ELSE <<"clone">>
      [] OTHER -> IF c.detached THEN <<"tmp", "receive", "props", "strip">>
                                ELSE <<"tmp", "clone">>

\* Mutant: the dataset is created before it is cloned.
CopyStepsCreating(c) ==
    CASE c.source[1] = "none"     -> <<"create">>
      [] c.source[1] = "snapshot" -> <<"create", "clone">>
      [] OTHER                    -> <<"tmp", "create", "clone">>

CopySteps(c) ==
    CASE c.source[1] = "none" -> <<"create">>
      [] c.source[1] = "snapshot" ->
           IF c.detached THEN <<"receive", "props", "strip">> ELSE <<"clone">>
      [] c.source[1] = "detached" ->
           IF c.detached THEN <<"tmp", "receive", "props", "strip", "untmp">>
                         ELSE <<"tmp", "clone", "untmp">>
      [] c.source[1] = "volume" ->
           IF c.detached THEN <<"tmp", "receive", "props", "strip", "untmp">>
                         ELSE <<"tmp", "clone">>

\* What CreateVolume does once the dataset exists.
FinalSteps == <<"size", "share", "context", "success">>

\* Mutant: the dataset is destroyed before its share.
DeleteStepsMisordered == <<"read", "origin", "managed", "destroy", "unshare">>

DeleteSteps == <<"read", "unshare", "origin", "managed", "destroy">>

SnapshotSteps(c) ==
    IF c.detached
      THEN <<"check", "container", "tmp", "receive", "props", "strip", "untmp",
             "success">>
      ELSE <<"check", "take", "success">>

Steps(c) ==
    CASE c.method = "CreateVolume"           -> <<"check">> \o CopySteps(c) \o FinalSteps
      [] c.method = "DeleteVolume"           -> DeleteSteps
      [] c.method = "ControllerExpandVolume" -> <<"size">>
      [] c.method = "CreateSnapshot"         -> SnapshotSteps(c)
      [] c.method = "DeleteSnapshot"         ->
           IF c.source[1] = "detached" THEN <<"destroy", "uncontain">> ELSE <<"release">>

StepAfter(c, step) ==
    LET steps == Append(Steps(c), "reply")
    IN  steps[1 + CHOOSE i \in DOMAIN Steps(c) : steps[i] = step]

\* r's handler does its current step, which leads to the next or to step.
Advance(r) ==
    /\ pc' = [pc EXCEPT ![r] = StepAfter(call[r], pc[r])]
    /\ UNCHANGED <<options, origin, answer, since, promised, captured, writes, faults>>

SkipTo(r, step) ==
    /\ pc' = [pc EXCEPT ![r] = step]
    /\ UNCHANGED <<options, origin, answer, since, promised, captured, writes, faults>>

\* r's handler throws: the client is told code and will send r again.
Throw(r, code) ==
    /\ pc' = [pc EXCEPT ![r] = "pending"]
    /\ answer' = [answer EXCEPT ![r] = code]
    /\ UNCHANGED <<options, origin, pool, since, promised, captured, writes, faults>>

----------------------------------------------------------------------------
(* The pool: what zfs does for each command of the handlers (utils/zfs.js).*)

Clones(k) == {d \in DOMAIN ds : ds[d].origin = k}

SnapsOf(d) == {k \in DOMAIN snap : k[1] = d}

\* zfs snapshot: idempotent.
Snapshot(k, managed) ==
    snap' = IF k \in DOMAIN snap THEN snap
            ELSE [x \in DOMAIN snap \cup {k} |->
                    IF x = k THEN [content |-> ds[k[1]].content, size |-> ds[k[1]].size,
                                   managed |-> managed, defer |-> FALSE]
                             ELSE snap[x]]

\* A new dataset; zfs create and zfs clone do nothing to one that exists.
Put(d, content, org, size, managed) ==
    ds' = IF d \in DOMAIN ds THEN ds
          ELSE [x \in DOMAIN ds \cup {d} |->
                  IF x = d THEN [content |-> content, origin |-> org, size |-> size,
                                 managed |-> managed, context |-> FALSE, success |-> FALSE]
                           ELSE ds[x]]

\* Mutant: zfs destroy of a snapshot, its clones promoted or not.
DeferNothing(k) == snap' = [x \in DOMAIN snap \ {k} |-> snap[x]]

\* zfs destroy -d of a snapshot: destroyed at once, or with its last clone.
Defer(k) ==
    snap' = IF k \in DOMAIN snap /\ Clones(k) # {}
              THEN [snap EXCEPT ![k].defer = TRUE]
              ELSE [x \in DOMAIN snap \ {k} |-> snap[x]]

\* zfs destroy -r of a dataset without dependent clones.
Destroy(d) ==
    LET released == {k \in DOMAIN snap : snap[k].defer /\ Clones(k) = {d}}
    IN  /\ ds' = [x \in DOMAIN ds \ {d} |-> ds[x]]
        /\ snap' = [k \in DOMAIN snap \ (SnapsOf(d) \cup released) |-> snap[k]]

HasClones(d) == \E k \in SnapsOf(d) : Clones(k) # {}

----------------------------------------------------------------------------
Init ==
    /\ call \in Plans /\ resourceType \in ResourceTypes
    /\ pc = [r \in Requests |-> "idle"]
    /\ origin = [r \in Requests |-> NoOrigin]
    /\ answer = [r \in Requests |-> "none"]
    /\ ds = [d \in {} |-> NoOrigin]
    /\ snap = [k \in {} |-> NoOrigin]
    /\ shares = {}
    /\ since = [r \in Requests |-> 0]
    /\ promised = [v \in {} |-> 0]
    /\ captured = [s \in {} |-> 0]
    /\ writes = 0 /\ faults = 0

\* The CO sends r, and the proxy runs its handler when its keys are free.
Start(r) ==
    /\ \/ pc[r] = "pending"
       \/ pc[r] = "idle" /\ MaySend(r)
    /\ ~ Locked(r)
    /\ pc' = [pc EXCEPT ![r] = Head(Steps(call[r]))]
    /\ answer' = [answer EXCEPT ![r] = "none"]
    /\ since' = IF Sent(r) \/ ~ CopiesVolume(call[r]) THEN since
               ELSE [since EXCEPT ![r] = ds[From(call[r])].content]
    /\ UNCHANGED <<options, origin, pool, promised, captured, bounds>>

On(r, step) == pc[r] = step

\* Only the datasets (snapshots, shares) change with r's step.
OnlyDs(r) == Advance(r) /\ UNCHANGED <<snap, shares>>
OnlySnap(r) == Advance(r) /\ UNCHANGED <<ds, shares>>
OnlyShares(r) == Advance(r) /\ UNCHANGED <<ds, snap>>
Nothing(r) == Advance(r) /\ UNCHANGED pool

\* zfs set on d: an error when it does not exist.
Set(r, d, props) ==
    IF d \in DOMAIN ds THEN ds' = [ds EXCEPT ![d] = props] /\ OnlyDs(r)
                       ELSE Throw(r, "UNKNOWN")

(* CreateVolume.                                                           *)

\* Mutant: a volume of just the size is a conflict.
ConflictAtEqual(c, size) == size <= c.size \/ (c.limit > 0 /\ size > c.limit)

Conflict(c, size) == size < c.size \/ (c.limit > 0 /\ size > c.limit)

\* Mutant: a dataset that exists is taken for a volume that was completed.
CheckSizeShortcut(r) ==
    /\ On(r, "check") /\ Is(r, "CreateVolume")
    /\ IF Dest(call[r]) \in DOMAIN ds THEN SkipTo(r, "reply") /\ UNCHANGED pool
                                     ELSE Nothing(r)

CheckSize(r) ==
    /\ On(r, "check") /\ Is(r, "CreateVolume")
    /\ LET d == Dest(call[r]) IN
         IF d \in DOMAIN ds /\ Sized /\ Conflict(call[r], ds[d].size)
           THEN Throw(r, "ALREADY_EXISTS")
           ELSE Nothing(r)

Create(r) ==
    /\ On(r, "create")
    /\ Put(Dest(call[r]), 0, NoOrigin,
           IF resourceType = "volume" THEN call[r].size ELSE 0, TRUE)
    /\ OnlyDs(r)

\* A temporary snapshot of the source, unless a first attempt left one.
TakeTemporary(r) ==
    /\ On(r, "tmp")
    /\ IF From(call[r]) \in DOMAIN ds
         THEN Snapshot(CopyFrom(call[r]), FALSE) /\ OnlySnap(r)
         ELSE Throw(r, IF Is(r, "CreateVolume") THEN "NOT_FOUND" ELSE "FAILED_PRECONDITION")

CopiedSize(k) == IF resourceType = "volume" THEN snap[k].size ELSE 0

Clone(r) ==
    /\ On(r, "clone")
    /\ LET k == CopyFrom(call[r]) IN
         IF k \in DOMAIN snap
           THEN Put(Dest(call[r]), snap[k].content, k, CopiedSize(k), TRUE) /\ OnlyDs(r)
           ELSE Throw(r, "NOT_FOUND")

\* zfs send | zfs receive brings the data and the snapshot, no properties.
\* When the destination exists the handler moves along: past the setting of
\* its properties too, when both are in the same try.
Receive(r) ==
    /\ On(r, "receive")
    /\ LET c == call[r]  k == CopyFrom(c)  d == Dest(c) IN
         CASE k \notin DOMAIN snap -> Throw(r, "UNKNOWN")
           [] k \in DOMAIN snap /\ d \in DOMAIN ds ->
                /\ IF c.method = "CreateVolume" /\ c.source[1] = "volume"
                     THEN Advance(r) ELSE SkipTo(r, "strip")
                /\ UNCHANGED pool
           [] k \in DOMAIN snap /\ d \notin DOMAIN ds ->
                IF c.method = "CreateSnapshot" /\ Con(c.volume) \notin DOMAIN ds
                  THEN Throw(r, "UNKNOWN")
                  ELSE /\ Put(d, snap[k].content, NoOrigin, CopiedSize(k), FALSE)
                       /\ snap' = [x \in DOMAIN snap \cup {<<d, Tag(c)>>} |->
                                     IF x \in DOMAIN snap THEN snap[x]
                                     ELSE [snap[k] EXCEPT !.managed = FALSE, !.defer = FALSE]]
                       /\ Advance(r) /\ UNCHANGED shares

SetProperties(r) ==
    /\ On(r, "props")
    /\ LET d == Dest(call[r]) IN Set(r, d, [ds[d] EXCEPT !.managed = TRUE])

\* CreateVolume destroys every snapshot of the new dataset, CreateSnapshot
\* only the one it was received with.
StripSnapshots(r) ==
    /\ On(r, "strip")
    /\ LET d == Dest(call[r]) IN
         IF Is(r, "CreateSnapshot")
           THEN Defer(<<d, Tag(call[r])>>) /\ OnlySnap(r)
           ELSE IF HasClones(d)
             THEN Throw(r, "UNKNOWN")
             ELSE snap' = [k \in DOMAIN snap \ SnapsOf(d) |-> snap[k]] /\ OnlySnap(r)

DropTemporary(r) ==
    /\ On(r, "untmp")
    /\ Defer(CopyFrom(call[r]))
    /\ OnlySnap(r)

\* refquota or volsize; also all that ControllerExpandVolume does.
SetSize(r) ==
    /\ On(r, "size")
    /\ LET d == Dest(call[r]) IN
         IF Sized THEN Set(r, d, [ds[d] EXCEPT !.size = call[r].size]) ELSE Nothing(r)

CreateShare(r) ==
    /\ On(r, "share")
    /\ IF Dest(call[r]) \in DOMAIN ds
         THEN shares' = shares \cup {Dest(call[r])} /\ OnlyShares(r)
         ELSE Throw(r, "UNKNOWN")

SetContext(r) ==
    /\ On(r, "context")
    /\ LET d == Dest(call[r]) IN Set(r, d, [ds[d] EXCEPT !.context = TRUE])

\* The last write of a creation; for an attached snapshot, on the snapshot.
SetSuccess(r) ==
    /\ On(r, "success")
    /\ LET c == call[r]  d == Dest(c) IN
         IF c.method = "CreateVolume" \/ c.detached
           THEN Set(r, d, [ds[d] EXCEPT !.success = TRUE])
           ELSE IF SnapOf(IdOf(c)) \in DOMAIN snap THEN Nothing(r) ELSE Throw(r, "UNKNOWN")

----------------------------------------------------------------------------
(* DeleteVolume.                                                           *)

ReadOrigin(r) ==
    /\ On(r, "read")
    /\ LET d == Dest(call[r]) IN
         origin' = [origin EXCEPT ![r] = IF d \in DOMAIN ds THEN ds[d].origin ELSE NoOrigin]
    /\ pc' = [pc EXCEPT ![r] = StepAfter(call[r], "read")]
    /\ UNCHANGED <<options, answer, pool, ghosts, bounds>>

\* deleteShare() finds what to remove in the dataset's properties, and
\* returns at once when there is no dataset.
DeleteShare(r) ==
    /\ On(r, "unshare")
    /\ shares' = IF Dest(call[r]) \in DOMAIN ds THEN shares \ {Dest(call[r])} ELSE shares
    /\ OnlyShares(r)

DeferOrigin(r) ==
    /\ On(r, "origin")
    /\ IF origin[r] # NoOrigin /\ origin[r][2][1] = "for-volume"
         THEN Defer(origin[r])
         ELSE UNCHANGED snap
    /\ OnlySnap(r)

\* A snapshot inherits the managed property of its dataset.
CheckManaged(r) ==
    /\ On(r, "managed")
    /\ LET d == Dest(call[r]) IN
         IF \E k \in SnapsOf(d) : snap[k].managed \/ (~ IgnoreForeign /\ ds[d].managed)
           THEN Throw(r, "FAILED_PRECONDITION")
           ELSE Nothing(r)

DestroyVolume(r) ==
    /\ On(r, "destroy") /\ Is(r, "DeleteVolume")
    /\ IF HasClones(Dest(call[r]))
         THEN Throw(r, "FAILED_PRECONDITION")
         ELSE Destroy(Dest(call[r])) /\ Advance(r) /\ UNCHANGED shares

----------------------------------------------------------------------------
(* CreateSnapshot and DeleteSnapshot.                                      *)

\* Is the name in use for a snapshot of the same type on another volume?
NameTaken(c) ==
    \E v \in Volumes \ {c.volume} :
        IF c.detached THEN Det(v, c.name) \in DOMAIN ds
                      ELSE SnapOf(<<"snapshot", v, c.name>>) \in DOMAIN snap

CheckName(r) ==
    /\ On(r, "check") /\ Is(r, "CreateSnapshot")
    /\ IF NameTaken(call[r]) THEN Throw(r, "ALREADY_EXISTS") ELSE Nothing(r)

TakeSnapshot(r) ==
    /\ On(r, "take")
    /\ IF From(call[r]) \in DOMAIN ds
         THEN Snapshot(SnapOf(IdOf(call[r])), TRUE) /\ OnlySnap(r)
         ELSE Throw(r, "FAILED_PRECONDITION")

CreateContainer(r) ==
    /\ On(r, "container")
    /\ Put(Con(call[r].volume), 0, NoOrigin, 0, FALSE)
    /\ OnlyDs(r)

ReleaseSnapshot(r) ==
    /\ On(r, "release")
    /\ Defer(SnapOf(call[r].source))
    /\ OnlySnap(r)

DestroyDetached(r) ==
    /\ On(r, "destroy") /\ Is(r, "DeleteSnapshot")
    /\ IF HasClones(Dest(call[r]))
         THEN Throw(r, "UNKNOWN")
         ELSE Destroy(Dest(call[r])) /\ Advance(r) /\ UNCHANGED shares

\* The container of the volume's detached snapshots goes with the last.
DestroyContainer(r) ==
    /\ On(r, "uncontain")
    /\ LET v == call[r].source[2] IN
         IF \E d \in DOMAIN ds : d[1] = "det" /\ d[2] = v
           THEN UNCHANGED ds
           ELSE ds' = [d \in DOMAIN ds \ {Con(v)} |-> ds[d]]
    /\ OnlyDs(r)

----------------------------------------------------------------------------
Reply(r) ==
    /\ On(r, "reply")
    /\ pc' = [pc EXCEPT ![r] = "done"]
    /\ answer' = [answer EXCEPT ![r] = "OK"]
    /\ promised' = Promised(call[r])
    /\ LET c == call[r] IN
       /\ captured' =
            IF c.method = "CreateSnapshot" /\ IdOf(c) \notin DOMAIN captured
              THEN [x \in DOMAIN captured \cup {IdOf(c)} |->
                      IF x \in DOMAIN captured THEN captured[x]
                      ELSE IF c.detached THEN ds[Dest(c)].content
                                         ELSE snap[SnapOf(IdOf(c))].content]
              ELSE captured
    /\ UNCHANGED <<options, origin, pool, since, bounds>>

\* The command of r's step fails, or its answer is lost: the handler throws.
\* (What the command did before it failed is r's step followed by Fail.)
Fail(r) ==
    /\ Running(r) /\ faults < MaxFaults
    /\ pc' = [pc EXCEPT ![r] = "pending"]
    /\ answer' = [answer EXCEPT ![r] = "UNKNOWN"]
    /\ faults' = faults + 1
    /\ UNCHANGED <<options, origin, pool, ghosts, writes>>

\* The process dies; the pool stays, and the clients send their calls again.
Restart ==
    /\ faults < MaxFaults
    /\ \E r \in Requests : Running(r)
    /\ pc' = [r \in Requests |-> IF Running(r) THEN "pending" ELSE pc[r]]
    /\ faults' = faults + 1
    /\ UNCHANGED <<options, origin, answer, pool, ghosts, writes>>

\* A workload writes to the volume it uses.
Write(v) ==
    /\ OwnsVolume(v) /\ writes < MaxWrites
    /\ writes' = writes + 1
    /\ ds' = [ds EXCEPT ![Vol(v)].content = writes + 1]
    /\ UNCHANGED <<options, pc, origin, answer, snap, shares, ghosts, faults>>

VolumeStep(r) ==
    \/ CheckSize(r) \/ Create(r) \/ Clone(r)
    \/ SetSize(r) \/ CreateShare(r) \/ SetContext(r)
    \/ ReadOrigin(r) \/ DeleteShare(r) \/ DeferOrigin(r) \/ CheckManaged(r)
    \/ DestroyVolume(r)

CopyStep(r) ==
    \/ TakeTemporary(r) \/ Receive(r) \/ SetProperties(r)
    \/ StripSnapshots(r) \/ DropTemporary(r)

SnapshotStep(r) ==
    \/ CheckName(r) \/ TakeSnapshot(r) \/ CreateContainer(r)
    \/ ReleaseSnapshot(r) \/ DestroyDetached(r) \/ DestroyContainer(r)

Handle(r) == VolumeStep(r) \/ CopyStep(r) \/ SnapshotStep(r) \/ SetSuccess(r) \/ Reply(r)

\* Nothing is under way; the CO may ask for more or be content.
Quiet == (\A r \in Requests : ~ Unfinished(r)) /\ UNCHANGED vars

Next ==
    \/ \E r \in Requests : Start(r) \/ Handle(r) \/ Fail(r)
    \/ Restart
    \/ \E v \in Writable : Write(v)
    \/ Quiet

Spec == Init /\ [][Next]_vars

\* A handler goes on, and the CO sends again what was not answered OK: often
\* enough to find the keys free.  Faults need not happen.
FairSpec ==
    Spec /\ \A r \in Requests : WF_vars(Handle(r)) /\ SF_vars(Start(r))

----------------------------------------------------------------------------
(* Properties.                                                             *)

\* Every variable has its type.
TypeOK ==
    /\ call \in Plans /\ resourceType \in ResourceTypes
    /\ \A r \in Requests :
         /\ pc[r] \in {"idle", "pending", "reply", "done"}
                        \cup {Steps(call[r])[i] : i \in DOMAIN Steps(call[r])}
         /\ origin[r] = NoOrigin \/ origin[r][1][1] \in {"vol", "det"}
         /\ answer[r] \in {"none", "OK", "UNKNOWN", "ALREADY_EXISTS", "NOT_FOUND",
                           "FAILED_PRECONDITION"}
         /\ since[r] \in 0..MaxWrites
    /\ \A d \in DOMAIN ds :
         /\ d \in {Vol(v) : v \in Volumes} \cup {Con(v) : v \in Volumes}
                    \cup {Det(v, s) : v \in Volumes, s \in SnapshotNames}
         /\ ds[d].content \in 0..MaxWrites /\ ds[d].size \in Nat
         /\ {ds[d].managed, ds[d].context, ds[d].success} \subseteq BOOLEAN
         /\ ds[d].origin # NoOrigin => ds[d].origin \in DOMAIN snap
    /\ \A k \in DOMAIN snap :
         /\ k[1] \in DOMAIN ds /\ k[2][1] \in {"csi", "for-volume", "for-snapshot"}
         /\ snap[k].content \in 0..MaxWrites /\ snap[k].size \in Nat
         /\ {snap[k].managed, snap[k].defer} \subseteq BOOLEAN
    /\ shares \subseteq {Vol(v) : v \in Volumes}
    /\ DOMAIN promised \subseteq Volumes /\ DOMAIN captured \subseteq SnapshotIds
    /\ writes \in 0..MaxWrites /\ faults \in 0..MaxFaults

\* A volume CreateVolume or ControllerExpandVolume has answered OK for stays
\* usable until its deletion is asked for: its dataset exists with all its
\* properties, it is shared, and it has at least the size that was promised,
\* whatever failed on the way and whatever happens to its source.
AckedVolumesAreUsable ==
    \A v \in Volumes : OwnsVolume(v) =>
        /\ Vol(v) \in DOMAIN ds /\ Vol(v) \in shares
        /\ ds[Vol(v)].context /\ ds[Vol(v)].success
        /\ Sized => ds[Vol(v)].size >= promised[v]

Exists(sid) ==
    IF sid[1] = "snapshot" THEN SnapOf(sid) \in DOMAIN snap
                           ELSE Det(sid[2], sid[3]) \in DOMAIN ds

DataOf(sid) ==
    IF sid[1] = "snapshot" THEN snap[SnapOf(sid)].content
                           ELSE ds[Det(sid[2], sid[3])].content

\* A snapshot CreateSnapshot has answered OK for exists with the same data
\* until its own deletion is asked for: deleting its volume, or another
\* snapshot, or creating volumes from it never takes it away.
AckedSnapshotsAreKept ==
    \A sid \in SnapshotIds : OwnsSnapshot(sid) =>
        /\ Exists(sid) /\ DataOf(sid) = captured[sid]
        /\ sid[1] = "snapshot" => ~ snap[SnapOf(sid)].defer

SnapshotsAreFresh ==
    \A sid \in DOMAIN captured :
        \E r \in Requests : /\ Is(r, "CreateSnapshot") /\ IdOf(call[r]) = sid
                            /\ Sent(r) /\ captured[sid] >= since[r]

CopiesMatch ==
    \A r \in Requests :
        LET c == call[r] IN
        /\ Is(r, "CreateVolume") /\ pc[r] = "done"
        /\ OwnsVolume(VolumeId(c)) /\ VolumeId(c) \notin Writable
        => /\ c.source \in SnapshotIds => ds[Dest(c)].content = captured[c.source]
           /\ c.source[1] = "volume" =>
                \E q \in Requests : call[q] = c /\ Sent(q) /\ ds[Dest(c)].content >= since[q]

\* A snapshot holds data its volume had after the snapshot was asked for,
\* never a state from before: the temporary snapshot that an attempt finds
\* is one of an earlier attempt at the same request.  A volume created from a
\* snapshot has the snapshot's data, one created from a volume has data the
\* source had after the call was sent.
CopiesAreFaithful == SnapshotsAreFresh /\ CopiesMatch

\* No two volumes have a snapshot of the same name and kind.
OneVolumePerSnapshotName ==
    \A a, b \in {sid \in DOMAIN captured : OwnsSnapshot(sid)} :
        a[1] = b[1] /\ a[3] = b[3] => a = b

\* When DeleteVolume has been answered OK neither the dataset nor its share
\* is left, though deleteShare() removes nothing once the dataset is gone; and
\* when every request sent has been, no temporary snapshot is left but the
\* origins of clones, and no container without a snapshot.
DeletionsLeaveNothing ==
    /\ \A r \in Requests : Is(r, "DeleteVolume") /\ pc[r] = "done" =>
         Dest(call[r]) \notin DOMAIN ds \cup shares
    /\ (\A r \in Requests : ~ Unfinished(r)) =>
         /\ \A k \in DOMAIN snap : k[2][1] # "csi" => Clones(k) # {}
         /\ \A v \in Volumes : Con(v) \in DOMAIN ds =>
              \E s \in SnapshotNames : Det(v, s) \in DOMAIN ds

\* As long as the CO sends its requests again, every one that it has sent is
\* answered OK in the end, in whatever order commands fail and processes die.
EveryRequestSucceeds == \A r \in Requests : Sent(r) ~> pc[r] = "done"
=============================================================================
