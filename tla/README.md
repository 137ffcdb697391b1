# A TLA+ development of democratic-csi

democratic-csi is a Container Storage Interface (CSI) driver in JavaScript. A
container orchestrator (CO, usually Kubernetes with its sidecars) sends it gRPC
calls. The *controller* service creates, copies, snapshots and deletes volumes
on a storage server, over ssh, an HTTP API or a mounted share. The *node*
service, a second instance of the same program on every node, attaches and
mounts them. Hardly anything is kept in memory between two calls: what a call
left behind on the storage server or the node is all that a retry finds, and a
call may fail, time out or die with the process between any two commands.
Nearly everything that is hard to get right follows from that, and it is what
the modules in this directory are about.

Contents: [the system](#the-system), [the modules](#the-modules),
[the runs](#the-runs), [fairness](#fairness), [the proofs](#the-proofs),
[what the code is found to do](#what-the-code-is-found-to-do),
[what is only checked](#what-is-only-model-checked),
[what is not modelled](#what-is-not-modelled), [the plan](#the-plan).

To repeat a check: `tlc -config Zfs.cfg MCControllerZfs`; a proof:
`tlapm NodeServiceProofs.tla`. `PROJECT.json` lists the runs, the source
lines each definition stands for, the mutated definitions that each property
was tested against, the findings, the hazards and the theorems.

## The system

| component | source (below `src/src`) | state it keeps | operations |
|---|---|---|---|
| request proxy and operation lock | `bin/democratic-csi` (one level up), `utils/operation_lock.js`, `lockKeysFromRequest` in `utils/general.js` | a table key -> (token, time) in the memory of the process | admit a call, refuse it with ABORTED, evict a stale holder, release |
| ssh client | `utils/zfs_ssh_exec_client.js` | one shared connection, its state, a mutex, the channels open on it | `exec`, reconnection, timeouts, the events of the connection |
| ZFS controller | `driver/controller-zfs` | none; the pool: datasets, snapshots, user properties | CreateVolume, DeleteVolume, ControllerExpandVolume, CreateSnapshot, DeleteSnapshot, lists |
| shares of the generic ZFS driver | `driver/controller-zfs-generic` | none; targets, extents and LUNs of the storage server's shells | `createShare`, `deleteShare` |
| FreeNAS API drivers | `driver/freenas/api.js`, `driver/freenas/http` | none; the pool, and rows of the server's sharing tables, whose ids are kept in dataset properties; replication jobs | the same five calls, over HTTP |
| client drivers | `driver/controller-client-common`, `utils/restic.js`, `utils/kopia.js` | none; directories on a share, snapshots in a repository | the four create and delete calls, by rsync, restic or kopia |
| node service | `driver/index.js`, `utils/mount.js`, `utils/nvmeof.js`, `utils/filesystem.js` | none; mounts, connections, devices, directories | NodeStageVolume, NodePublishVolume, NodeUnpublishVolume, NodeUnstageVolume, NodeExpandVolume, NodeGetVolumeStats |
| iSCSI node | iscsi parts of `driver/index.js`, `utils/iscsi.js` | none; iscsid's sessions and node DB, devices, mounts | NodeStageVolume, NodeUnstageVolume |
| sweeper, reaper | `utils/iscsi-node-db-sweeper.js`, `utils/iscsi-session-reaper.js` | the reaper remembers since when a session is stale | one sweep at start; a pass every few minutes |
| other drivers | `driver/freenas/ssh.js`, `driver/controller-synology`, `driver/controller-objectivefs`, `driver/zfs-local-*`, `driver/ephemeral-*`, `driver/node-manual` | none | the same calls, in other ways |
| utilities | `utils/*` | `registry` caches clients | wrappers of commands, parsers, `retry` |

How they interact. The proxy takes the keys of a call from the operation lock,
runs the driver's handler, answers, and releases the keys, which is all the
mutual exclusion there is: two calls contend when they have a key in common
(a volume id, a volume's or snapshot's name, a snapshot id), and handlers
without a common key interleave at every `await`. The ZFS handlers send zfs
commands and share scripts through one ssh client; a command that fails raises
an error that ends the handler, and nothing is undone. On a node the two
staging calls, the sweeper and the reaper share `iscsiadm`, whose commands a
mutex puts in a row; the reaper and the sweeper take no operation lock.

What is hard, and what makes each component correct:

* **Operation lock.** A handler may outlive its lease and be evicted; it must
  not take the keys of its successor with it. Two-key acquisitions are all or
  nothing. No entry may outlive its request. A handler that hangs must not
  block a volume for ever.
* **ssh client.** Events of replaced connections arrive late; a reconnection
  takes the channels of running commands with it; timers fire while the loop
  waits for something else. Every exec must settle, and leave nothing open.
* **ZFS controller.** CreateVolume is eight or more commands; copies keep
  temporary snapshots alive, which may be in the way of later deletions;
  deletions test first and destroy later. What was acknowledged must stay
  usable, what was deleted must be gone, a retry must be recognised, and in
  the end succeed.
* **Shares.** Configuration shells exit 0 whatever goes wrong; devices appear
  late; the server restarts with what was saved last. An acknowledged share
  must be whole, and none may outlive its dataset.
* **FreeNAS API.** A share is up to four rows, each made by a call and its id
  stored by another; an answer may be lost and the call repeated at once; a
  replication job goes on when its handler is gone, and its target then looks
  like a copy that was made. A deletion goes by ids that may have been given
  away. What was acknowledged must be served and whole, what was deleted gone,
  and nobody else's share touched.
* **Client drivers.** Copies fail half-way; restic's ids change when a
  snapshot is tagged; snapshots are searched for by name and made in two steps.
* **iSCSI node.** iscsiadm reports success and leaves the session, or fails and
  has removed it; targets die; the reaper and the sweeper race with staging.
  An acknowledged unstage must leave nothing logged in, an acknowledged stage
  must stay usable.
* **Node service.** A mount outlives its device, mounts pile up at a path, a
  umount or a mere `stat` under a dead server hangs, and failures of umount are
  hidden. A path answered for as unmounted must be (the CO deletes what is
  below), a pod must get the live device and not what an outage left, and
  unpublishing must succeed although the server never returns.

## The modules

```
LockLeases  <== refined by ==  OperationLock  <--EXTENDS--  OperationLockProofs
                                     ^--EXTENDS--  MCOperationLock
SshExec           <--  SshExecProofs    (checked as it is)
ControllerCalls  <--  ControllerZfs        <--  MCControllerZfs (with ControllerPlans)
       ^                    ^-----  ControllerZfsProofs
       ^-----  Truenas  <--  FreenasApi    <--  MCFreenasApi    (with ControllerPlans)
                                 ^-----  FreenasApiInvariant  <--  FreenasApiProofs
GenericShare      <--  GenericShareProofs    (checked as it is)
ClientController  <--  MCClientController
       ^-----  ClientControllerProofs
IscsiNode         <--  MCIscsiNode
       ^-----  IscsiNodeProofs
NodeService       <--  MCNodeService
       ^-----  NodeServiceProofs
```

An MC module has only the values of constants: workloads and setups. A *setup*
is a record of options and bounds from which the initial states are chosen, so
that one run covers several configurations of the driver.

### OperationLock, LockLeases

`call[r]` is the call a request carries, `pc[r]` where the proxy is with it,
`held` the lock's Map with an age in the place of a time stamp, `token[r]` the
`lockToken` of the proxy. `Start`/`Refuse` are `acquire()` (synchronous, hence
one step) in `requestHandlerProxy`; `Finish` the `finally` clause and the
answer; `Tick` and `ClockStepBack` the clock behind `Date.now()`; `Restart` the
end of the process, which loses the table, the token counter and every handler
at once. `LockKeys` is `lockKeysFromRequest`. Nothing in the module stops an
evicted handler from going on: that is the point of tokens.

`LockLeases` is the promise, without tokens or ages: a request is granted all
its keys in one step when each is free or lapsed, and only its end frees its own
leases. `Leases` in OperationLock is the refinement: a key's owner is the
running request whose token is in the table.

### SshExec

One action per stretch of `_rexec`, `_connect` and the event listeners that runs
without waiting. Connections are numbered, since every reconnection makes a new
ssh2 client whose old events still come; `sock` is what a connection really is,
`connState` what the client believes. `timers` (chosen at the start) says
whether `execTimeoutMs` is in force: with it, the server need not answer.

### ControllerCalls, ControllerZfs

`ControllerCalls` has what the ZFS and the FreeNAS controllers share: the calls,
the keys under which the proxy runs them, the names in the pool, and the CO.
A handler is a list of steps computed from its call (`CopySteps`,
`DeleteSteps` ...); each step is one zfs command or share operation, under the
keys of the lock. A pool is a set of datasets and of snapshots with the
properties the code reads back (`managed`, `context`, `success`, size, origin,
deferred destruction). A step's effect is that of the command with zfs's
idempotence (`utils/zfs.js`: an existing snapshot or a missing dataset is no
error). `Fail` ends a handler between two commands, which covers a command that
took effect and whose answer was lost; `Restart` ends all of them. The CO sends
a call again until it is answered OK, and does not name a volume or snapshot
after asking for its deletion. It expands a volume by one call at a time, each
to no less than what was promised. `WellFormed` says which plans a CO may have:
requests for one volume are the same, or ask for sizes that exclude each other;
none names the volume it creates as its source; a volume that is expanded, or
received and snapshotted, has one request (see below for the reason).
`captured`, `promised` and `since` are ghosts.

`ResourceTypes` chooses zvols or filesystems. `EnableQuotas` is FALSE in the
runs: with it, the retry of a filesystem whose quota was not set yet is refused
for ever (see below), which `EveryRequestSucceeds` then shows. The lock is taken
here without lapse; OperationLock says when it lapses. A share
is one step here, and GenericShare is what that step consists of.

### Truenas, FreenasApi

`Truenas` is the server as `freenas/http/api.js` uses it: the pool, the sharing
services' tables of rows with ids, and replication jobs, each call with the
errors that the driver reads as success ("already exists", "does not exist").
`FreenasApi` is the driver: a handler is again a list of steps, and a step one
HTTP call with the reading that precedes it. `mem[r]` is what a handler has in
memory (the ids it was given, what it read at its start, its job), `ds[d].ids`
the ids in the dataset's properties. A handler ends early when a call fails or
its answer is lost (`Fail`), when a target is made without its groups
(`HalfPost`), or with the process (`Restart`); where the driver repeats a call at
once, the first may have taken effect without an answer (`DropPost`,
`DropDelete`). `AskFor` is the GET of a row before its deletion, which finds it, or
finds none or another's; `Overlook` is the same GET answered 500 for the row that is
there: `deleteShare()` takes 404 and 500 alike for a share that is gone, and goes on.
The ghost `overlooked` keeps which rows it happened to. `RunReplication` starts a
job, `WaitForJob` polls it, and
`JobEnds` and `JobBreaks` are the server's: a job goes on without its handler.
`reuse` says whether the server gives the ids of deleted rows away again; a new row
gets any id that is free. Two assumptions leave out setups for which the code does
not keep what it promises (both are described [below](#what-the-code-is-found-to-do)).
`ReuseAssumption`: ids are given away again only where no call is repeated within
a handler, and not for nvmeof, whose `deleteShare()` does not compare what an id
names. `CopiesAssumption`: no detached volume is made from an attached snapshot.

### GenericShare

`createShare`, `deleteShare` and the commands around them for the strategies
targetCli, nvmetCli, spdkCli, pcs and setDatasetProperties. A share is a set of
objects of the storage server, `live` now and `saved` for its next start. A
script is a list of lines; a line whose needs are not met (`Creatable`) changes
nothing and the script goes on, as the comment in `targetCliVerifyPaths` and
`test/driver/targetcli-create-verify.test.js` say. `CutScript` ends a script
after any number of lines, `Reboot` restores `saved` and takes the devices away
until udev makes them again, `Verify` is `targetCliVerifyPaths`, `Retries` is
`retry()` (a verification that fails ends the attempt here, where the code repeats it
in place if the shell "Ran out of input").
External, and taken from how the code uses them: what the shells
need to create an object, what goes with an object that is deleted, that pcs
fails when there is nothing to delete, what keeps a zvol busy.

### ClientController

Volumes and filecopy snapshots are directories of files, a file's data the number
of times it was written; a restic or kopia repository is a set of snapshots with
an id, the id it was made with, and tags. Copying commands go file by file with
failures, writes and other handlers in between; file-system calls between two
awaits are one step. A failure the code cannot see (a command killed by a signal
has exit code null and counts as success; a kopia restore of a missing snapshot;
ignored errors of restic) is an action with its own bound, and the properties
except the requests it happened to.

### IscsiNode

Each iscsiadm command, mount or umount is a step of NodeStageVolume
(`CreateNodeDBEntry`, `Login`, `FindSession`, `WaitForDevice`, `Mount`,
`Expand`), NodeUnstageVolume (`Umount`, `ForceUmount`, `FindSessions`,
`FindSessionsByDevice`, `Logout`, `VerifyLogout`, `DeleteNodeDBEntry`,
`VerifyDelete`, `Finish`), the sweeper or the reaper, on one state: sessions with
the state of their device, node-DB records, the mount. The mutex in `iscsi.js`
makes commands atomic towards each other and does nothing more. The target goes
away and comes back, devices follow it. External, taken from how the code uses
it: iscsiadm does not delete a record that a session uses; a command that timed
out took effect when it ran or not at all. The reaper's evaluation of a session
(sysfs and findmnt) is one step; `minStaleSeconds` is counted in passes. `umount`
exits with 32 for a busy path, which `mount.js` takes for success.

### NodeService

The four calls for one volume, which is an nfs or smb share, a path of the node,
or an NVMe-oF namespace, mounted or handed out as a block device; at the same
time another view of what IscsiNode has command by command. `h` is the handler
that the operation lock admits, its `pc` the step of the code it is at: `mkdir`,
`connect`, `device`, `mount`, `expand` (or `touch`, `bind` for a block device) of
NodeStageVolume, `target`, `publish` of NodePublishVolume, `unpublish`, `remove`
of NodeUnpublishVolume, `probe`, `umount`, `disconnect`, `rmdir` of
NodeUnstageVolume. `staging` is the stack of mounts at the staging path, each
known by the name of its device; findmnt lists them oldest first
(`MountPointDevice`), a bind mount gets the uppermost (`Top`). `Stalled(m)` is a
mount whose I/O waits for its server, `Blocked` a process that does (`pathExists`
is `statSync`), which only the liveness probe ends. `want`, `ok` and `staged` are
the CO's, `calm` is a ghost: nothing has gone wrong since the pod's volume was
published from scratch.

## The runs

| run | instance | distinct states | shows |
|---|---|---|---|
| `operation_lock` | three requests that each carry any of five calls on two volumes; leases of two ticks, one restart, one clock step; two handlers may hang | 0.4 M | no entry outlives its request, fair hand-over, the refinement of LockLeases, and that every request gets in |
| `ssh_exec` | two execs, two faults (three connections), with and without timers | 29 K | nothing left open, late events are harmless, every exec settles |
| `zfs` | zvols; plans of up to five calls: copies by clone and by send/receive, attached and detached snapshots, deletions in any order, repeated and conflicting calls; two faults | 1.1 M | the safety of the ZFS controller |
| `zfs_progress` | zvols and filesystems, plans in which every call can succeed, two faults | 7.6 K | every request succeeds |
| `generic_share` | two volumes, five strategies, with and without a template, two faults, one reboot | 0.3 M | shares are whole, end with their datasets, calls succeed |
| `freenas` | nfs, smb, iscsi and nvmeof; creation, cloning, replication, snapshots and deletion; up to two faults, ids given away again or not; rows that a 500 hides | 0.29 M | volumes are served, copies whole, deletions complete but for what a 500 has hidden, and without harm to others, every request succeeds |
| `client` | two volumes of two files, three drivers, two failures, one unnoticed, two writes | 0.2 M | completeness of copies, deletion, one snapshot to a name, progress |
| `client_filecopy` | one filecopy snapshot | until the error | a finding |
| `iscsi_node` | one portal, also with a foreign target name: two faults, two outages, staged, unstaged and staged again; two portals: two faults, staged and unstaged | 0.5 M | answers hold, orphans are swept, progress, stale sessions go |
| `iscsi_busy` | one portal, a busy mount | until the error | a finding |
| `iscsi_verdict` | one portal; a fault, an outage, two changes of mind | until the error | a finding |
| `node_service` | two pods; nfs, smb, hostpath, nvmeof mounted and nvmeof as a block device; four changes of mind, three faults, one outage (two for nvmeof) | 0.2 M | answers hold, every call succeeds |

Why the bounds are enough for what is asked. Three requests are the least for an
evicted handler, its successor and a third that the evicted one would let in.
Two execs and two faults let one exec replace the connection under the other,
and a late event of the first connection meet the third. Two faults allow a
failure in a call and another in its retry; no handler keeps anything from its
first attempt for a third to be different from the second. Two volumes are the
least for a copy, or for a snapshot name used twice. Two files tell a partial
copy from none and from a whole one. Two portals tell a partial logout from a
whole one; the target fails at all of them at once, so outages go with one
portal. One reboot suffices since it may come at every point, and restores the
same again. On the node, two outages lose the device twice, so that mounts of two
lost devices lie below the live one; three faults are one in each of a failed
stage, its failed unstage and the stage after that. A job of TrueNAS is left
behind by a first fault and broken by a second. `MaxTries` of 2 stands for the
code's 3 and 12: one attempt in place and its last.
Where a run says CHECK_DEADLOCK FALSE the modelled workload
ends (all requests answered, all connections used up); elsewhere a step of the
quiet system, or the CO's next wish, makes up for it.

## Fairness

Handlers go on (node runs what can run, and commands end or fail, with timers
where the code has them), the CO sends again what was not answered OK, and the
daemons go on. Faults, outages, reboots and *first* calls are never forced.
`ControllerZfs` and `ClientController` ask for strong fairness of the CO's
sending only: a call that finds its key taken is refused with ABORTED and sent
again with back-off, and is not sent for ever at the wrong moments. In
OperationLock the handlers in `Hung` are given no fairness at all, and eviction
alone has to do. Without timers SshExec lets the server answer, since then the
code itself waits for nothing else; with timers it need not. In IscsiNode devices
follow their targets, which open-iscsi does. udev makes the link of a zvol some
day. A replication job of TrueNAS ends some day, well or not. In NodeService the
calls for one pod go on beside those for another (strong fairness: they exclude
each other by the lock), the kernel reconnects to a server that answers and gives
up one that does not (`ctrl_loss_tmo`), the container's liveness probe kills a
process that hangs; the server need never return, and the properties ask for
nothing that needs it.

## The proofs

Eight modules hold proofs, each an inductive invariant with a lemma for each action
or for each part of the invariant. What they assume of the constants is named in
the modules they extend, and TLC evaluates it in every run.

`OperationLockProofs` proves, for every set of requests, names, volumes and
snapshots, every workload and every bound:

* `TypeCorrect`, `NoOrphanEntries`: `Spec => []Inv` for the two invariants of
  the run;
* `NewestRequestHolds`: a key belongs to the request that was granted it last;
* `MutualExclusion`: with `OPERATION_LOCK_MAX_HOLD_MS=0` two running requests
  never share a key;
* `FairHandover`: a key leaves its holder only with the holder's end, a lapsed
  lease or the process's end;
* `ImplementsLeases`: every behaviour of the lock is one of LockLeases.

The assumptions are those the module names on its constants (a workload of
well-formed calls, natural bounds). The argument is one inductive invariant,
`IInv`. That an entry's owner runs (`EveryEntryHasOwner`) is not inductive: for a
release to remove just the entries of its own request, tokens must be unique
among those that run (`TokensAreUnique`), which rests on the counter being ahead
of them all, also after a restart that resets the counter and ends every
request. `TokensMatchCalls` says which requests have a token at all;
`NewestHolds` orders the running requests by their tokens and is what
distinguishes eviction from theft; `NothingEvicted` carries mutual exclusion when
eviction is off. There is one lemma per action (`StartIInv`, `FinishIInv`, and
`AgesIInv` for the clock), joined in `NextIInv`. The refinement has a lemma for
each action again: `StartGrants`, `FinishEnds`, `AgesPass`, all resting on
`OneOwner`, that a key has one owner at a time.

`SshExecProofs` proves, for every set of execs and any number of faults of the
connection, with timers and without:

* `TypeCorrect`: the client's fields, connections and execs stay typed, and the
  mutex is held by the one exec that is connecting;
* `NothingIsLeft`: `SettledLeavesNothing`, that is: what settled leaves no
  listener, and no open channel on a connection that is up;
* `OneConnectionLives`: `OnlyCurrentIsLive`, that is: reconnecting leaks no
  connection.

It assumes that the bound is a natural number and that 0, which stands for no
exec and no connection, is no exec. Two conjuncts make the invariant inductive.
`ConnectingIsCurrent` says that a connection is being made just while the mutex is
held, and that it is then the current one: without it, a reconnection could leave
one behind that no `end()` reaches. `ChannelsFollow` says that an exec's channel
and listeners are on the connection that its loop ended with, which is no longer
connecting: without it, `Settle` could look for the channel on a connection other
than its own. The lemmas are one to a conjunct, with a step for each group of
actions.

`NodeServiceProofs` proves, for every finite set of pods, all volumes of the
kinds in the module and any number of changes of mind, faults and outages:

* `TypeCorrect`: the node's and the handler's variables stay typed, no device is
  mounted twice at the staging path, and no mount is without its path;
* `AnswersHold`: `AckedCallsHold`, that is: what was unpublished or unstaged is
  gone, and what was published from scratch is the live device for as long as
  the server answers.

The assumptions are that the set of pods is finite (the kernel must have a free
name for a device) and that only NVMe-oF volumes are handed out as block devices.
Neither property is inductive. `CallsAreMeant` says what a handler may rely on at
each step because the operation lock admits no other call and the CO changes its
mind only in between: that a pod's volume is wanted, or is not, and that the CO
takes a volume for unstaged at no step of staging. `DeviceIsOnTop` is the heart
of it: the live device is mounted at most once at the staging path and nothing is
above it, and a filesystem that the CO takes for staged has it, unless it is lost;
so the bind mount gets the device although findmnt would name another.
`DeviceMatches` ties devices to connections, `PathsExist` mounts to paths, and
`CalmTargets` says that nothing has been done to a pod to which nothing happened.
`FreshNameIsNew` needs a counting argument, since the kernel takes the first free
name. Each part has a lemma over all actions (`CallsAreMeantNext`,
`DeviceIsOnTopNext`, ...), joined in `NextIInv`; facts about the handler's record
(`HandlerGoesOn`, `ProbeGoesOn`) and about sequences (`FrontFacts`,
`AppendFacts`) come first.

`IscsiNodeProofs` proves, for every set of volumes, portals and layouts, any
staleness threshold and any number of changes of mind, faults and outages:

* `TypeCorrect`: types, and that a handler or daemon leaves a loop over portals
  just when nothing is left to do;
* `UnstageDetaches`: `AckedUnstageIsDetached`, that is: an acknowledged unstage
  has left neither mount nor session, for a target whose name contains the volume id
  (for another, a session may survive, `index.js:3388`);
* `StageStaysUsable`: `AckedStageIsUsable`, that is: nothing detaches a staged
  volume whose target has stayed up, the sweeper and the reaper included;
* `SweepIsThorough`: `OrphansAreSwept`.

It assumes natural bounds and layouts that give a volume a portal. What is
missing from the properties is what the actors know of each other.
`HandlersServeGoals`: a call runs for the goal that the CO has, so that a volume
being unstaged gets no session, and one being staged loses none to its own
handler. `NoSessionAtTheEnd`: a NodeUnstageVolume past its verification has seen
that no session is left. `CalmIsUndisturbed` says what makes the reaper harmless:
no session of the volume is offline, none is in the reaper's list with an offline
device, and it is not about to log out of one. This is why calm is more than
that the target is up now; the finding `iscsi_verdict` is the difference.
`CalmMountsStay` keeps the mount for the step behind it. `OrphansStay` and
`OrphansAreListed` follow an orphaned record through the sweep: its volume gets
no session before a call for it begins, and the sweep still has it on its list.
There is a lemma for each part over all actions (`CallTypesNext`, `CalmNext`,
`OrphansStayNext`, ...), joined in `NextIInv`.

`GenericShareProofs` proves, for every set of volumes and of strategies and any
number of attempts, faults and reboots:

* `TypeCorrect`: the handlers stay within their steps and attempts;
* `AcksServe`: `AckedSharesServe`, that is: what was acknowledged is what a reboot
  restores, and is whole with the shells that are looked after;
* `SharesNeedDatasets`: `SharesHaveDatasets`, that is: no object of a share outlives
  its dataset.

Neither property is inductive. A script of one handler saves the configuration
of every volume, and a reboot goes back to it, so each part is said of `live` and
`saved` alike (`ConfiguredWell`, `HasDatasetForShare`). `NeededThingsExist` says
along a handler's steps that the dataset outlives the scripts and that the name
under which the objects are removed is there before there is anything to answer
for. `ScriptsHaveRun` says what a script that ended has left for the steps after
it. The positions of a handler are made explicit first (`FirstScript`, `Last`). A
script is a recursive function of its lines; as induction is out of the provers'
reach and the scripts are given, of four lines at most, the lemmas unroll it
line by line. That a cut script stops after any line makes no difference to them:
each line on its own keeps the invariant.

`ClientControllerProofs` proves, for every set of requests, volumes, names and
files, every well-formed plan, and any number of writes and failures:

* `TypeCorrect`: `TypeOK`;
* `VolumesAreComplete`: `AckedVolumesAreComplete`, that is: a copy that was answered
  OK has all that its source had, in whatever attempts it was made, failures the
  code cannot see excepted;
* `SnapshotsAreKept`: `AckedSnapshotsAreKept`, that is: the id answered for a restic
  or kopia snapshot names a complete one, although tagging changes ids;
* `OnePerName`: `OneSnapshotPerName`, that is: asking again gives the same id, and a
  deletion leaves nothing under the name.

It assumes what a CO does (`WellFormed`): a volume is asked for by one request, sent
again as often as needed, since a second request for a volume in use would copy
its source over it again; a request for a snapshot of the same name, volume and
driver is the same; a deletion is of a snapshot. No snapshot is called "none",
which stands for an untagged backup. The invariant, `IInv`, follows a snapshot
from the search for its name to its deletion (`RepoSnapshot`, `DirSnapshot`,
`DeletedIsGone`) and a copy file by file (`SourceLasts`, `VolumeCopy`). What ties
them together is who may touch a path or a tag. `OneAtATime` is what the lock on
`create_snapshot_name` is there for: no second call is between the search for a
name and the tagging with it, without which two backups would get it.
`BackupsHaveOwners` and `BackupsAreDistinct` keep the ids apart, and
`TaggedBackupsAreComplete` says that only a whole backup has a name, so that a
retry that finds one may answer with it. `UnwantedIsSettled` says that nothing the
CO has asked to delete is being made. There is a lemma for each action; most rest
on `MadeThingsGrow` (what was made only grows, or goes as a whole) and on the frame
lemmas for a step at one directory (`DirStep`) or in a repository (`RepoStep`).
`FilecopySnapshotsAreKept` is the same promise for filecopy; it is false
(`client_filecopy`), and the proof shows where: a directory has no tag by which a
partial copy would be known.

`ControllerZfsProofs` proves, for every set of requests, volumes and names, every
set of well-formed plans, zvols and filesystems, quotas on or off, and any number
of writes and failures:

* `TypeCorrect`: `TypeOK`, with the steps that each call can be at;
* `VolumesAreUsable`: `AckedVolumesAreUsable`, that is: what was answered OK stays
  complete, shared and large enough until its deletion is asked for;
* `SnapshotsAreKept`: `AckedSnapshotsAreKept`, and `NamesAreUnique`:
  `OneVolumePerSnapshotName`;
* `Faithful`: `CopiesAreFaithful`, that is: a copy has its source's data, of after
  the request, also when it is made from what an attempt before has left;
* `NothingRemains`: `DeletionsLeaveNothing`.

It assumes what the modules name: that a name has a volume id
(`VolumeIdAssumption`), well-formed plans (`PlansAssumption`), and natural bounds,
the two types of resources and Boolean options (`OptionsAssumption`,
`ProtectAssumption`). The invariant, `IInv`,
has layers, each of which needs those before it.

1. `Types` has the names in the pool, the fields, and `InItsPlace`: a handler is at
   a step of its own call. The lists of steps are made explicit once
   (`StepAfterIs`, `After`), since sequences are hard on the provers.
2. `Control` is the CO and the lock. `Exclusive`: handlers that run have no key in
   common. `UnwantedIsSettled`: what is being deleted is not being made.
   `SourceWasMade`: a call names what was acknowledged to the CO before.
3. `PoolIsSound` is zfs's own: snapshots have datasets, clones have origins,
   deferred destruction waits for a clone. `Origins` ties each volume's origin to
   the call that made it; a volume could otherwise be a clone of anything.
4. `VolumesAreSound` says place by place what a CreateVolume has done
   (`VolumeStands`) and a DeleteVolume has done or read (`VolumeGoes`). The latter
   carries the order of the deletion: the share goes first, the origin is marked
   while the clone still holds it, no managed snapshot appears between the test
   and `zfs destroy -r`.
5. `SnapshotsAreSound` says the same of snapshots: an attached one is marked for
   deferred destruction only when its own deletion was asked for, and a name was
   free on other volumes when CreateSnapshot passed its check, and is still.
6. `Data` follows contents. The heart is `TemporaryData`: the temporary snapshot
   of a copy has data of after a request for that very copy, since its name is
   the copy's; so the attempt that finds one may use it.
7. `Leftovers` says for each temporary snapshot and each container who still needs
   it: a clone, or a request at a step before the one that destroys it.

The proof says first what each of the actions does to the pool in a few forms
(`Adds`, `Changes`, `Removes`, `Captures`, `Discards`, `Marks`), and then, from the
other side, which steps can create, change or destroy a given dataset or snapshot
(`WaysToChange`, `NewSnapshots`, `NewContents`, `DetachedSteps`, ...). The layers
rest on these lemmas and on those of the lock (`Excluded`, `WhoseVolume`,
`DeletionIsAlone`), with one lemma for each conjunct, joined in `NextIInv`.
The whole of `IInv` is an invariant of the
`zfs` run's instance too, 1.1 million states, although no run lists it.

`FreenasApiProofs` proves, for every set of requests, volumes, names and ids, every
set of well-formed plans, the four kinds of share, and any number of faults, lost
answers, broken jobs and restarts:

* `TypeCorrect`: `TypeOK`;
* `VolumesServe`: `AckedVolumesServe`, that is: an acknowledged volume is whole, large
  enough, and served by rows that refer to each other and that its dataset knows;
* `CopiesAreWhole`: `AckedCopiesAreWhole`, that is: what was answered OK as a copy is
  not still being received;
* `NothingRemains`: `DeletionsLeaveNothing`, that is: of a deleted volume there is no
  dataset, and no row but those for which the server answered 500 (`overlooked`);
* `OthersAreKept`: `SharesOfOthersAreKept`, an action property: a row is deleted only
  while the volume it is named after is being deleted;
* `Inductive`: the invariant `IInv` that they rest on.

It assumes what the modules name: well-formed plans and volume ids, `SetupsAssumption`
(what a setup is), `ReuseAssumption` and `CopiesAssumption` (see
[above](#truenas-freenasapi)). The invariant is stated, part by part, in
`FreenasApiInvariant`:

1. `Types` and `Control` are those of ControllerZfs, with a handler's memory, which
   is blank when no handler runs.
2. `VolumesAreSound`. The heart is `ReceivingIsHeld`: a dataset that is still being
   received is the target of a request that has yet to pass `untmp`. A handler
   may be gone and its job go on, so this is said of the request and not of its
   handler; and it holds up to `untmp` because the snapshot being sent is busy and
   cannot be deleted (`BeingSent`) before the job is over. That is all that keeps
   "already exists" from being answered with OK for half a copy; where
   there is no such snapshot to delete, CreateVolume does so (`CopiesAssumption`).
   `VolumeStands`, `VolumeExpands` and `VolumeIsKept` follow size and properties.
3. `SharesAreSound`. A row is made before its id is stored and erased before its id is
   removed, so rows and ids cannot be said to agree. `RowsAreSound`: a row belongs,
   by itself or by the rows it refers to, to one volume, which has one row of a table
   at most, and whose dataset exists unless a 500 has hidden the row from the
   deletion (`Forgotten`); a retry that meets a conflict has therefore
   met its own row. `IdsAreSound`: an id in a dataset is its own row's, or is of a row
   deleted for this volume. `ShareStands` has along createShare() the places at
   which a row's id is in memory (`Got`) and written (`Kept`). `ShareIsKept`: from the
   acknowledgement on no row is known to nobody, so that a deletion finds them all.
   `ShareGoes` has along deleteShare() the places at which the id read is still the
   one written (`Ahead`) and at which the row is gone (`Gone`) or `Forgotten`, and that
   a row about to be deleted is the volume's, even if ids are given away again.
4. `SnapshotsAreSound` ties clones, origins and marks to the calls that made them.
5. `Leftovers`: who still needs a temporary snapshot (`TemporaryIsHeld`) or a container
   (`ContainerIsUsed`), and that DeleteVolume has marked the origin before it
   destroys the clone (`VolumeGoes`).

The proof makes the lists of steps explicit first, since sequences are hard on the
provers (`JoinIs`, `CreationAfter`, `DeletionAfter`, `OtherAfter`), and states what each
action does in a form without them (`DoesCheckSize` ... `DoesDestroyContainer`,
lemmas `StepIs` and `TableStepIs`). The effects have few forms (`Adds`, `Changes`,
`Removes`, `Captures`, `Releases`, `Discards`, `Inserts`, `Erases`); from the other side,
lemmas say which steps can change a given dataset, snapshot or row (`Posted`,
`Erased`, `Frees`, `Destroys`). Each conjunct of the invariant then has its lemma,
joined in `NextIInv`. The model was changed where it was wrong: a new
row had the lowest free id, which the server does not promise;
`DatasetDestroySnapshots` destroyed snapshots that have clones, where zfs defers. TLC
checked `IInv` on the instance of the `freenas` run as well, although no run lists it.

## What the code is found to do

Three runs end in a counterexample to what the repository says.

* **A partial snapshot is acknowledged** (`client_filecopy`). CreateSnapshot by
  filecopy takes a directory that exists for a finished snapshot, also when it
  is what a failed rsync has left.
* **A busy volume is logged out of** (`iscsi_busy`). NodeUnstageVolume means to
  stop at a path that is busy (the comment at `driver/index.js:3294`), but
  `umount()` of `mount.js:420` hides exactly that failure: the session is logged
  out of under the mounted filesystem before the call is refused.
* **The reaper acts on a verdict of the past** (`iscsi_verdict`). The reaper is
  said to leave any running or mounted device alone
  (`examples/node-common.yaml:34`). It looks at the device and its mount once
  (`isSessionReapable`) and logs out in a command of its own behind the iscsiadm
  mutex (`iscsi-session-reaper.js:359`). A session that a failed attempt left, and
  whose target comes back in between, is taken over and mounted by
  NodeStageVolume and then logged out of. `AckedStageIsUsable` is about volumes
  whose staging did not begin under such a verdict (`Undisturbed`).

Beyond these, the models show or the code has the following, which the runs
leave out by a setup or a property excepts, each where it is named.

*Controllers.*
* A retry is refused as a conflict: a filesystem whose creation failed between
  `zfs create` and `zfs set refquota` has quota 0, and the size check of its own
  retry answers ALREADY_EXISTS (`controller-zfs/index.js:820`; the API driver has
  the same at `freenas/api.js:2745`). So it is for a zvol cloned from a smaller
  one when the attempt failed before it was grown. `EnableQuotas` shows it.
* The retry of a send/receive skips the properties that its first attempt did
  not set, and marks the volume successful all the same. A clone request that
  the CO gives up leaves `source@for-volume-X`. A second CreateVolume of a smaller
  size without a limit shrinks the zvol. Sizes are compared as strings.
* nvmetcli's and spdkcli's scripts neither wait for the zvol's device nor check
  their result; a pcs deletion that failed half-way never succeeds.
* A second CreateVolume for a volume that was made by send/receive destroys the
  snapshots taken of it since: past a destination that exists, the handler goes
  on to `zfs destroy volume@%` (`controller-zfs/index.js:1022` and 1148, by way of
  `removeSnapshotsFromDatatset`, 196), which is there for what was received with the
  first attempt. `WellFormed` leaves it out, as a CO that has its answer does not
  ask again.
* FreeNAS API: for nvmeof, DeleteVolume deletes by an id without comparing what
  it names (`api.js:2134`; the comment at 1774 says why the others compare), which
  only matters if ids are given away again. With
  `detachedVolumesFromSnapshots`, a volume made from an attached snapshot gets a
  received snapshot that keeps it from being deleted (2958), and a retry answers OK
  for it while the job that an earlier attempt left behind still fills it: no
  temporary snapshot has to be deleted first. Before it deletes a row, `deleteShare()`
  asks for it, and takes an answer of 500 like one of 404: "assume share is gone for
  now" (`api.js:1720`, 1827, 1949, 2034). A server that fails for a moment thus has
  DeleteVolume destroy the dataset, which alone knows the row's id, and answer OK; the
  row stays for good. The model does so too (`Overlook`), and
  `DeletionsLeaveNothing` excepts just the rows that this happened to.
  The outcome of setperm jobs is not
  looked at.

*Node.*
* A session survives an acknowledged unstage: for a target whose name does not
  contain the volume id, the search by device works only while the staging path
  is mounted; after an attempt that failed past that point the answer is OK
  (`index.js:3388`). The node-DB record of a stage that never logged in stays too.
  `AckedUnstageIsDetached` is about the other names. The search is by
  `target.includes(volume_id)`, so that `vol-1` finds the sessions of `vol-10`.
* The reaper looks for mounts of `/dev/sdX`; a multipath volume is mounted from
  `/dev/dm-N`, so that a path of it that goes offline is reaped though in use.
* A block volume may never be unstaged again: NodeUnstageVolume removes the file
  `block_device` only if it finds it mounted, so after an attempt that unmounted
  it and failed, rmdir finds the directory not empty (`index.js:3502`); and when
  the device is lost, lsblk fails (`BlockDeviceIsStuck`). NodeStageVolume takes
  any device mounted there for the right one.
* After the loss of a device a pod is not repaired: its republish is refused if
  findmnt names another device for the staging path than for the target
  (`Refused`), and answered OK if both are stale.
* An NVMe-oF connection stays when unstaging fails between the unmounting and
  the disconnection, or is forced, or finds mounts stacked: the next attempt no
  longer knows the device.
* `getSubsystemPathByNQNTransport` (`nvmeof.js:575`) leaves its search at the first
  path that is listed, so that one path that is down fails the stage; the loop in
  NodeStageVolume means to go on with the others.
* `pathExists` is `statSync` (`filesystem.js:913`): on a stalled share it stops the
  whole process, until the liveness probe has it killed.
* NodeExpandVolume's catch (`index.js:4547`) rethrows only errors of code 1, and
  answers OK after others. `pathIsMounted` asks `err.stderr.contains`, which is
  no function of a string.

## What is only model-checked

Liveness: every request is answered, or succeeds, in the end; it stays with TLC, as
does whatever needs ENABLED, since induction over data, ENABLED and fairness are
beyond the installed provers. Every invariant of a passing run is the subject of a
theorem, and so is every action property. `NewestHolds` and
`MutexWithoutEviction` are the other way round: they are proved and not checked
by a run, the first as a part of `IInv`, the second since the run has eviction
on.

## What is not modelled

`PROJECT.json` lists every component with its state. In the modelled ones:
permissions, ACLs, reservations and the retain strategy of the ZFS controller;
quotas and naming templates of the FreeNAS API driver; `_nexec` (a connection per
command) and shell escaping of the ssh client; CHAP and the parsing of
iscsiadm's output on the node; restic's own locks and prune; several NVMe-oF
transports, partitions and mkfs on the node; all read-only calls, the listings
and GetCapacity. Of the node service, NodeExpandVolume (which grows what is
there, or answers OK without) and NodeGetVolumeStats are not modelled.

A command that times out for the driver and takes effect on the server later,
beside the retry, is modelled only for TrueNAS's replication jobs. Clock ages in
OperationLock stop at the lease's length, which is all that eviction compares.
Names are values: templates, hashing, prefixes and lower-casing are out, but for
GenericShare's difference between a templated name and the dataset's own. Sizes
are small numbers, not strings.

The ssh driver of FreeNAS and the Synology and ObjectiveFS drivers each repeat
what is modelled of a sibling with other commands; inline volumes are a
CreateVolume and a DeleteVolume inside the publish calls. Windows support, the
stand-alone scripts, the parsers, logging and the bootstrap are pure input and
output, or data without control.

## The plan

Done, in the order of what matters most to a user's data: OperationLock with
LockLeases; SshExec; ControllerZfs; GenericShare; ClientController; IscsiNode;
Truenas and FreenasApi; NodeService; and the safety proofs of all of them.
What would come next:

1. **CapacityRange**: the validity and size arithmetic of `capacity_range` and
   `generateZvolSize` as operators on digit sequences, compared with numbers.
2. **Synology**: LUN, target and mapping over a session that expires.
3. **Inline volumes**, whose publish creates and whose unpublish destroys, over
   NodeService and one of the controllers.
4. Compositions: `Share`, the life of a share as ControllerZfs sees it (one step
   to make it, one to remove it), with GenericShare and FreenasApi as
   refinements; an abstract attachment that IscsiNode and NodeService refine;
   ControllerZfs under a lock that lapses.
5. **ObjectiveFs**, and `registry.getAsync` with concurrent first callers.

Theorems worth proving next: the refinements of point 4, step by step, for which the
invariants of both sides are there; and that ControllerZfs and FreenasApi keep
their promises under the weaker exclusion that OperationLock gives when leases lapse,
or where they do not. No module has a RECURSIVE operator.
