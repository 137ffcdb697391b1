---------------------------- MODULE NodeService ----------------------------
(***************************************************************************)
(* The node service of driver/index.js for one volume: NodeStageVolume     *)
(* attaches it to the node and mounts it at the staging path,              *)
(* NodePublishVolume bind-mounts it from there at the target path of a     *)
(* pod, NodeUnpublishVolume and NodeUnstageVolume undo that.  A volume is  *)
(* a share (nfs, smb), an NVMe-oF namespace or a path of the node; it is   *)
(* mounted, or handed out as a block device.  (IscsiNode has the sessions  *)
(* of iscsi volumes, command by command.)                                  *)
(*                                                                         *)
(* The operation lock admits one call on the volume.  Beside it the server *)
(* comes and goes, and the kernel gives up connections.  A mount outlives  *)
(* the device it was made from, and a device that comes back has another   *)
(* name; so mounts at a path may be stacked.                               *)
(***************************************************************************)
EXTENDS Naturals, SequencesExt

CONSTANTS
    Targets,        \* the target paths, one of each pod
    NoTarget,       \* the target path of NodeStageVolume and NodeUnstageVolume
    Setups          \* the volumes to consider

Kinds == {"nfs", "smb", "nvmeof", "hostpath"}

\* kind: node_attach_driver.  access: the access type, "block" for nvmeof only.
\* The rest are bounds: how often the CO changes its mind, commands fail or the
\* process or the node dies, and the server goes.
Setup == [kind : Kinds, access : {"mount", "block"},
          changes : Nat, faults : Nat, outages : Nat]

ASSUME SetupsAssumption ==
    Setups \subseteq {s \in Setup : s.access = "block" => s.kind = "nvmeof"}
ASSUME TargetsAssumption == IsFiniteSet(Targets) /\ NoTarget \notin Targets

VARIABLES
    kind, access,
    want,       \* want[t]: the CO wants the volume published at t
    ok,         \* ok[t]: the call that brings it there was answered OK
    staged,     \* what the CO knows of the staging: "no", "yes" or "unknown"
    h,          \* the handler: the step it is at and its variables
    server,     \* the server answers
    conn,       \* the NVMe-oF connection: "none", "live" or "connecting"
    dev,        \* the name of the volume's device, 0 without one
    staging,    \* the devices mounted at the staging path, the oldest first
    target,     \* target[t]: the device mounted at t, or 0
    dir, file,  \* the staging directory exists, and block_device in it
    path,       \* path[t]: the directory or file t exists
    calm,       \* calm[t]: nothing has gone wrong since t was published afresh
    left        \* how many changes, faults and outages are left

options == <<kind, access>>
co == <<want, ok, staged>>
net == <<server, conn, dev>>
mounts == <<staging, target>>
paths == <<dir, file, path>>
vars == <<options, co, h, net, mounts, paths, calm, left>>

----------------------------------------------------------------------------
Share == kind \in {"nfs", "smb"}
NVMe == kind = "nvmeof"

\* A name that no mount of a lost device holds.
HeldNames == Range(staging) \cup Range(target)
FreshName == CHOOSE n \in 1 .. Cardinality(HeldNames) + 1 : n \notin HeldNames

\* findmnt lists the mounts at a path oldest first, and the first is taken.
MountPointDevice == Head(staging)
Top == Last(staging)
Staged == staging # <<>>

Works(m) == m = dev /\ m # 0 /\ server /\ (NVMe => conn = "live")

\* I/O on mount m waits for the server.  (A lost device fails at once.)
Stalled(m) ==
    \/ Share /\ m # 0 /\ ~ server
    \/ NVMe /\ m = dev /\ m # 0 /\ conn = "connecting"

\* statSync() on a stalled share blocks the whole process.
Blocked ==
    /\ Share /\ ~ server
    /\ \/ h.pc = "mkdir" /\ Staged
       \/ h.pc \in {"target", "remove"} /\ target[h.t] # 0

Idle == [pc |-> "idle", t |-> NoTarget, device |-> 0, block |-> FALSE,
         file |-> FALSE, dead |-> FALSE]

Goes(next) == h' = [h EXCEPT !.pc = next]
Fails == h' = Idle

Use(what) == left[what] > 0 /\ left' = [left EXCEPT ![what] = @ - 1]
Fault == Use("faults")

Init ==
    \E s \in Setups :
      /\ kind = s.kind /\ access = s.access
      /\ left = [changes |-> s.changes, faults |-> s.faults, outages |-> s.outages]
      /\ want = [t \in Targets |-> FALSE]
      /\ ok = [t \in Targets |-> TRUE]
      /\ staged = "no"
      /\ h = Idle
      /\ server = TRUE /\ conn = "none" /\ dev = IF s.kind = "nvmeof" THEN 0 ELSE 1
      /\ staging = <<>> /\ target = [t \in Targets |-> 0]
      /\ dir = FALSE /\ file = FALSE /\ path = [t \in Targets |-> FALSE]
      /\ calm = [t \in Targets |-> FALSE]

----------------------------------------------------------------------------
(* The server and the kernel.                                              *)
ServerFails ==
    /\ kind # "hostpath" /\ server /\ Use("outages")
    /\ server' = FALSE
    /\ conn' = IF conn = "live" THEN "connecting" ELSE conn
    /\ calm' = [t \in Targets |-> FALSE]
    /\ UNCHANGED <<options, co, h, dev, mounts, paths>>

ServerReturns ==
    /\ ~ server
    /\ server' = TRUE
    /\ UNCHANGED <<options, co, h, conn, dev, mounts, paths, calm, left>>

Reconnects ==
    /\ conn = "connecting" /\ server
    /\ conn' = "live"
    /\ UNCHANGED <<options, co, h, server, dev, mounts, paths, calm, left>>

\* ctrl_loss_tmo: the connection is given up and the device goes.
DeviceLost ==
    /\ conn = "connecting" /\ ~ server
    /\ conn' = "none" /\ dev' = 0
    /\ UNCHANGED <<options, co, h, server, mounts, paths, calm, left>>

----------------------------------------------------------------------------
(* The CO.  It publishes what is staged, and unstages what is nowhere      *)
(* published; a call that fails it sends again.                            *)
Wants(t) ==
    /\ h.pc = "idle" /\ Use("changes")
    /\ want' = [want EXCEPT ![t] = ~ @]
    /\ ok' = [ok EXCEPT ![t] = FALSE]
    /\ calm' = [calm EXCEPT ![t] = FALSE]
    /\ UNCHANGED <<options, staged, h, net, mounts, paths>>

\* A published volume is published again, and maybe staged, as after a restart
\* of the CO.
WantsAgain(t) ==
    /\ h.pc = "idle" /\ want[t] /\ ok[t] /\ Use("changes")
    /\ ok' = [ok EXCEPT ![t] = FALSE]
    /\ staged' \in {staged, "unknown"}
    /\ UNCHANGED <<options, want, h, net, mounts, paths, calm>>

Begins(pc, t) == h.pc = "idle" /\ h' = [Idle EXCEPT !.pc = pc, !.t = t]

\* The CO gets the handler's answer OK.
Publishes == ok' = [ok EXCEPT ![h.t] = TRUE] /\ Fails

\* A command of the handler fails, for good where it is tried again, or the
\* process dies: the CO learns neither what was done.
HandlerFails ==
    /\ h.pc # "idle" /\ ~ Blocked
    /\ Fault
    /\ Fails
    /\ UNCHANGED <<options, co, net, mounts, paths, calm>>

\* A process that does not answer Probe is killed.
ProbeFails ==
    /\ Blocked
    /\ Fails
    /\ UNCHANGED <<options, co, net, mounts, paths, calm, left>>

\* The node restarts, unnoticed maybe: mounts and connections go, files stay.
Reboot ==
    /\ Fault
    /\ h' = Idle
    /\ conn' = "none" /\ dev' = IF NVMe THEN 0 ELSE 1
    /\ staging' = <<>> /\ target' = [t \in Targets |-> 0]
    /\ ok' = [t \in Targets |-> ok[t] /\ ~ want[t]]
    /\ staged' \in IF staged = "no" THEN {"no"} ELSE {staged, "unknown"}
    /\ calm' = [t \in Targets |-> FALSE]
    /\ UNCHANGED <<options, want, server, paths>>

----------------------------------------------------------------------------
(* NodeStageVolume.                                                        *)
NodeStageVolume ==
    /\ Begins("mkdir", NoTarget)
    /\ staged # "yes" /\ \E t \in Targets : want[t] /\ ~ ok[t]
    /\ staged' = "unknown"
    /\ UNCHANGED <<options, want, ok, net, mounts, paths, calm, left>>

MakeDirectory ==
    /\ h.pc = "mkdir" /\ ~ Blocked
    /\ dir' = TRUE
    /\ Goes(IF NVMe THEN "connect" ELSE "mount")
    /\ UNCHANGED <<options, co, net, mounts, file, path, calm, left>>

\* Mutant: "already connected" fails.
ConnectAnew ==
    /\ h.pc = "connect"
    /\ IF conn = "none" /\ server
       THEN conn' = "live" /\ dev' = FreshName /\ Goes("device")
       ELSE Fails /\ UNCHANGED <<conn, dev>>
    /\ UNCHANGED <<options, co, server, mounts, paths, calm, left>>

\* "Already connected" will do.
Connect ==
    /\ h.pc = "connect"
    /\ IF conn # "none" THEN Goes("device") /\ UNCHANGED <<conn, dev>>
       ELSE IF server THEN conn' = "live" /\ dev' = FreshName /\ Goes("device")
       ELSE Fails /\ UNCHANGED <<conn, dev>>
    /\ UNCHANGED <<options, co, server, mounts, paths, calm, left>>

\* The connection must be live before the device is looked for.
FindDevice ==
    /\ h.pc = "device"
    /\ IF conn = "live"
       THEN h' = [h EXCEPT !.pc = IF access = "block" THEN "touch" ELSE "mount",
                           !.device = dev]
       ELSE Fails
    /\ UNCHANGED <<options, co, net, mounts, paths, calm, left>>

\* Mutant: whatever is mounted at the staging path will do.
StageMountAnything ==
    /\ h.pc = "mount"
    /\ ~ (NVMe /\ conn = "connecting")
    /\ IF Staged THEN Goes("expand") /\ UNCHANGED staging
       ELSE IF dev = (IF NVMe THEN h.device ELSE 1) /\ server
       THEN staging' = Append(staging, dev) /\ Goes("expand")
       ELSE Fails /\ UNCHANGED staging
    /\ UNCHANGED <<options, co, net, target, paths, calm, left>>

\* Mutant: the device is mounted, although it is mounted there.
StageMountAgain ==
    /\ h.pc = "mount"
    /\ ~ (NVMe /\ conn = "connecting")
    /\ IF dev = (IF NVMe THEN h.device ELSE 1) /\ server
       THEN staging' = Append(staging, dev) /\ Goes("expand")
       ELSE Fails /\ UNCHANGED staging
    /\ UNCHANGED <<options, co, net, target, paths, calm, left>>

\* The device is formatted, checked and mounted, unless it is mounted there;
\* the mount of another is mounted over.  It is waited for if it stalls.
StageMount ==
    /\ h.pc = "mount"
    /\ ~ (NVMe /\ conn = "connecting")
    /\ LET device == IF NVMe THEN h.device ELSE 1
       IN  IF device \in Range(staging) THEN Goes("expand") /\ UNCHANGED staging
           ELSE IF device = dev /\ server
           THEN staging' = Append(staging, device) /\ Goes("expand")
           ELSE Fails /\ UNCHANGED staging
    /\ UNCHANGED <<options, co, net, target, paths, calm, left>>

\* Grows the filesystem to the device's size; a share is left alone.
StageExpand ==
    /\ h.pc = "expand"
    /\ ~ (NVMe /\ conn = "connecting")
    /\ staged' = "yes" /\ Fails
    /\ UNCHANGED <<options, want, ok, net, mounts, paths, calm, left>>

\* A block device is bind-mounted on a file; any device mounted there will do.
TouchBlockFile ==
    /\ h.pc = "touch"
    /\ IF Staged THEN staged' = "yes" /\ Fails /\ UNCHANGED file
                 ELSE file' = TRUE /\ Goes("bind") /\ UNCHANGED staged
    /\ UNCHANGED <<options, want, ok, net, mounts, dir, path, calm, left>>

BindBlockDevice ==
    /\ h.pc = "bind"
    /\ IF h.device = dev
       THEN staging' = <<dev>> /\ staged' = "yes"
       ELSE UNCHANGED <<staging, staged>>
    /\ Fails
    /\ UNCHANGED <<options, want, ok, net, target, paths, calm, left>>

StageStep ==
    \/ MakeDirectory \/ Connect \/ FindDevice \/ StageMount \/ StageExpand
    \/ TouchBlockFile \/ BindBlockDevice

----------------------------------------------------------------------------
(* NodePublishVolume.                                                      *)

\* Nothing stands in the way of a working mount at a target path that is not
\* mounted yet.
Afresh(t) ==
    /\ target[t] = 0 /\ server
    /\ NVMe => conn = "live"
    /\ access = "block" => Staged /\ Works(Top)

NodePublishVolume(t) ==
    /\ Begins("target", t)
    /\ want[t] /\ ~ ok[t] /\ staged = "yes"
    /\ calm' = [calm EXCEPT ![t] = @ \/ Afresh(t)]
    /\ UNCHANGED <<options, co, net, mounts, paths, left>>

MakeTarget ==
    /\ h.pc = "target" /\ ~ Blocked
    /\ path' = [path EXCEPT ![h.t] = TRUE]
    /\ Goes("publish")
    /\ UNCHANGED <<options, co, net, mounts, dir, file, calm, left>>

\* The staging path must be mounted (else the CO is told to stage first); a target
\* that is mounted already must have the device of the staging path (for a block
\* device, any).
BindTarget ==
    /\ h.pc = "publish"
    /\ staged' = IF Staged THEN staged ELSE "unknown"
    /\ IF ~ Staged THEN Fails /\ UNCHANGED <<target, ok>>
       ELSE IF target[h.t] = 0
       THEN \/ target' = [target EXCEPT ![h.t] = Top] /\ Publishes
            \/ Stalled(Top) /\ Fails /\ UNCHANGED <<target, ok>>
       ELSE /\ UNCHANGED target
            /\ IF access = "block" \/ target[h.t] = MountPointDevice
               THEN Publishes ELSE Fails /\ UNCHANGED ok
    /\ UNCHANGED <<options, want, net, staging, paths, calm, left>>

----------------------------------------------------------------------------
(* NodeUnpublishVolume.                                                    *)
NodeUnpublishVolume(t) ==
    /\ Begins("unpublish", t)
    /\ ~ want[t] /\ ~ ok[t]
    /\ UNCHANGED <<options, co, net, mounts, paths, calm, left>>

\* Mutant: umount of a stalled share is not forced.
UmountTargetGently ==
    /\ h.pc = "unpublish"
    /\ IF Stalled(target[h.t]) THEN Fails /\ UNCHANGED target
       ELSE target' = [target EXCEPT ![h.t] = 0] /\ Goes("remove")
    /\ UNCHANGED <<options, co, net, staging, paths, calm, left>>

\* A umount that hangs is forced for nfs, and for every kind if findmnt hangs
\* first; one that fails is taken for a success.
UmountTarget ==
    /\ h.pc = "unpublish"
    /\ LET m == target[h.t]
       IN  \/ /\ target' = [target EXCEPT ![h.t] = 0]
              /\ Goes("remove") /\ UNCHANGED left
           \/ m # 0 /\ ~ Stalled(m) /\ Fault /\ Goes("remove") /\ UNCHANGED target
           \/ Stalled(m) /\ kind # "nfs" /\ Fails /\ UNCHANGED <<target, left>>
    /\ UNCHANGED <<options, co, net, staging, paths, calm>>

\* Mutant: that the path cannot be removed is no error.
RemoveTargetAnyway ==
    /\ h.pc = "remove" /\ ~ Blocked
    /\ path' = [path EXCEPT ![h.t] = target[h.t] # 0] /\ Publishes
    /\ UNCHANGED <<options, want, staged, net, mounts, dir, file, calm, left>>

\* rmdir and rm refuse ("busy") what is mounted.
RemoveTarget ==
    /\ h.pc = "remove" /\ ~ Blocked
    /\ IF target[h.t] # 0 THEN Fails /\ UNCHANGED <<path, ok>>
       ELSE path' = [path EXCEPT ![h.t] = FALSE] /\ Publishes
    /\ UNCHANGED <<options, want, staged, net, mounts, dir, file, calm, left>>

PublishStep == MakeTarget \/ BindTarget
UnpublishStep == UmountTarget \/ RemoveTarget

----------------------------------------------------------------------------
(* NodeUnstageVolume.                                                      *)
NodeUnstageVolume ==
    /\ Begins("probe", NoTarget)
    /\ staged # "no" /\ \A t \in Targets : ~ want[t] /\ ok[t]
    /\ staged' = "unknown"
    /\ UNCHANGED <<options, want, ok, net, mounts, paths, calm, left>>

\* Is block_device mounted, or a block device at the staging path?  lsblk fails
\* on a block_device that is lost.  findmnt may hang below a stalled mount, which
\* is unmounted by force.
Probe ==
    /\ h.pc = "probe"
    /\ IF access = "block" /\ Staged
       THEN /\ h' = IF Top = dev
                    THEN [h EXCEPT !.pc = "umount", !.block = TRUE, !.file = TRUE]
                    ELSE Idle
            /\ UNCHANGED staging
       ELSE \E forced \in {FALSE, Staged /\ Stalled(Top)} :
            LET rest == IF forced THEN Front(staging) ELSE staging IN
            /\ staging' = rest
            /\ h' = [h EXCEPT !.pc = "umount",
                     !.block = NVMe /\ rest # <<>> /\ Head(rest) = dev]
    /\ UNCHANGED <<options, co, net, target, paths, calm, left>>

\* The device that findmnt names is missing.  So is a file called //server/share.
StagingDeviceIsDead == kind = "smb" \/ (NVMe /\ MountPointDevice # dev)

\* A umount that hangs is forced for nfs and for a dead device (where the
\* failure of that too is ignored); one that fails is taken for a success.
UmountStaging ==
    /\ h.pc = "umount"
    /\ IF ~ Staged THEN Goes("disconnect") /\ UNCHANGED <<staging, left>>
       ELSE \/ /\ staging' = Front(staging) /\ Goes("disconnect")
               /\ UNCHANGED left
            \/ /\ ~ Stalled(Top) /\ Fault
               /\ Goes("disconnect") /\ UNCHANGED staging
            \/ /\ Stalled(Top) /\ kind # "nfs" /\ StagingDeviceIsDead
               /\ h' = [h EXCEPT !.pc = "disconnect", !.dead = TRUE]
               /\ \/ staging' = Front(staging) /\ UNCHANGED left
                  \/ Fault /\ UNCHANGED staging
            \/ /\ Stalled(Top) /\ kind # "nfs" /\ ~ StagingDeviceIsDead
               /\ Fails /\ UNCHANGED <<staging, left>>
    /\ UNCHANGED <<options, co, net, target, paths, calm>>

\* The connection is reclaimed by the device that was mounted at the beginning,
\* and must be gone.
Disconnect ==
    /\ h.pc = "disconnect"
    /\ IF h.block /\ ~ h.dead /\ conn # "none"
       THEN \/ conn' = "none" /\ dev' = 0 /\ Goes("rmdir") /\ UNCHANGED left
            \/ Fault /\ Fails /\ UNCHANGED <<conn, dev>>
       ELSE Goes("rmdir") /\ UNCHANGED <<conn, dev, left>>
    /\ UNCHANGED <<options, co, server, mounts, paths, calm>>

\* "Refusing NodeUnstageVolume success: staging path still mounted".  The file
\* block_device is removed if it was mounted; rmdir refuses the directory
\* ("not empty") if it is there still.
RemoveStaging ==
    /\ h.pc = "rmdir"
    /\ IF Staged \/ (file /\ ~ h.file)
       THEN UNCHANGED <<staged, dir, file>>
       ELSE staged' = "no" /\ dir' = FALSE /\ file' = FALSE
    /\ Fails
    /\ UNCHANGED <<options, want, ok, net, mounts, path, calm, left>>

UnstageStep == Probe \/ UmountStaging \/ Disconnect \/ RemoveStaging

----------------------------------------------------------------------------
Next ==
    \/ ServerFails \/ ServerReturns \/ Reconnects \/ DeviceLost
    \/ HandlerFails \/ ProbeFails \/ Reboot
    \/ \E t \in Targets :
         \/ Wants(t) \/ WantsAgain(t)
         \/ NodePublishVolume(t) \/ NodeUnpublishVolume(t)
    \/ NodeStageVolume \/ StageStep
    \/ PublishStep \/ UnpublishStep
    \/ NodeUnstageVolume \/ UnstageStep

Spec == Init /\ [][Next]_vars

\* The CO repeats its calls, those for one pod beside those for another; handlers
\* go on, stalled processes are killed; the kernel reconnects to a server that
\* answers and gives up one that does not.
Fairness ==
    /\ \A t \in Targets :
         SF_vars(NodePublishVolume(t)) /\ SF_vars(NodeUnpublishVolume(t))
    /\ WF_vars(NodeStageVolume)
    /\ WF_vars(NodeUnstageVolume)
    /\ WF_vars(StageStep) /\ WF_vars(PublishStep)
    /\ WF_vars(UnpublishStep) /\ WF_vars(UnstageStep)
    /\ WF_vars(ProbeFails)
    /\ WF_vars(Reconnects) /\ WF_vars(DeviceLost)

FairSpec == Spec /\ Fairness

----------------------------------------------------------------------------
\* The types of what the kernel keeps and of the handler's variables; no device
\* is mounted twice at the staging path, and a mount is over something.
TypeOK ==
    /\ want \in [Targets -> BOOLEAN]
    /\ ok \in [Targets -> BOOLEAN]
    /\ staged \in {"no", "yes", "unknown"}
    /\ h.pc \in {"idle", "mkdir", "connect", "device", "mount", "expand", "touch",
                 "bind", "target", "publish", "unpublish", "remove", "probe",
                 "umount", "disconnect", "rmdir"}
    /\ h.t \in Targets <=> h.pc \in {"target", "publish", "unpublish", "remove"}
    /\ server \in BOOLEAN
    /\ conn \in {"none", "live", "connecting"}
    /\ dev \in Nat
    /\ NVMe => (dev = 0 <=> conn = "none")
    /\ staging \in Seq(Nat) /\ IsInjective(staging)
    /\ target \in [Targets -> Nat]
    /\ Staged => dir /\ (access = "block" => file)
    /\ \A t \in Targets : target[t] # 0 => path[t]
    /\ calm \in [Targets -> BOOLEAN]

\* What NodeUnpublishVolume and NodeUnstageVolume have answered OK to is gone,
\* mount and path.
RemovedIsGone ==
    /\ \A t \in Targets : ~ want[t] /\ ok[t] => target[t] = 0 /\ ~ path[t]
    /\ staged = "no" => ~ Staged /\ ~ dir

\* A volume published afresh works for as long as its server does.
PublishedServes ==
    \A t \in Targets : want[t] /\ ok[t] /\ calm[t] => Works(target[t])

\* An answer OK holds: after NodeUnpublishVolume and NodeUnstageVolume nothing is
\* mounted and the path is gone, although umount's failures are swallowed and
\* calls die half way (the CO deletes what it believes is not mounted); and what
\* earlier calls and outages left mounted is not what NodePublishVolume gives a
\* pod, nor does a call for another pod take its mount away.
AckedCallsHold == RemovedIsGone /\ PublishedServes

\* What the code does not get out of: NodeUnstageVolume finds a block_device that
\* is not mounted any more, or whose device is lost.
BlockDeviceIsStuck ==
    /\ access = "block" /\ h.pc = "idle" /\ \A t \in Targets : ~ want[t] /\ ok[t]
    /\ IF Staged THEN Top # dev ELSE file

\* After the loss of a device NodePublishVolume refuses a target that has another
\* device than findmnt names for the staging path, even the right one.
Refused(t) == target[t] # 0 /\ Staged /\ target[t] # MountPointDevice

\* The CO has a call to make, and it can succeed: without the server nothing is
\* published, and no cifs mount unmounted.
Pending ==
    \/ \E t \in Targets : want[t] /\ ~ ok[t] /\ server /\ ~ Refused(t)
    \/ \E t \in Targets : ~ want[t] /\ ~ ok[t] /\ (server \/ kind # "smb")
    \/ staged # "no" /\ \A t \in Targets : ~ want[t] /\ ok[t]

\* Every call succeeds in the end: unpublishing and unstaging although the server
\* is gone for good, staging and publishing although earlier ones died half way.
EveryCallSucceeds == []<>(~ Pending \/ BlockDeviceIsStuck)

=============================================================================
