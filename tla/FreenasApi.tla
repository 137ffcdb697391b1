----------------------------- MODULE FreenasApi -----------------------------
(***************************************************************************)
(* The controller service of the FreeNAS API drivers (freenas/api.js): it  *)
(* makes, copies, shares and deletes volumes with calls to a TrueNAS       *)
(* server, any of which may fail, take effect without an answer, or be the *)
(* last one of a process.                                                  *)
(*                                                                         *)
(* A share is made of rows in the server's tables, whose ids the driver    *)
(* writes into properties of the volume's dataset, one by one, and deletes *)
(* the rows by.  Copies that are to be detached are made by replication    *)
(* jobs, which go on when nobody waits for them.                           *)
(***************************************************************************)
EXTENDS Truenas

CONSTANT Setups     \* the setups to consider

Kinds == {"nfs", "smb", "iscsi", "nvmeof"}

\* kind: the driver's share type; reuse: Truenas's; drops: may an answer be lost
\* whose call the driver repeats at once?  faults: a bound, the calls that go
\* wrong, the jobs that break and the restarts.
Setup == [kind : Kinds, reuse : BOOLEAN, drops : BOOLEAN, faults : Nat, plans : SUBSET Plans]

ASSUME SetupsAssumption == Setups \subseteq Setup

\* An id may be given away again when no call is repeated within a handler, and not
\* for nvmeof, whose deleteShare() does not look at what an id names.
ASSUME ReuseAssumption == \A s \in Setups : s.reuse => ~ s.drops /\ s.kind # "nvmeof"

\* No volume is replicated from an attached snapshot: CreateVolume would answer OK for
\* one that is still being received.
ASSUME CopiesAssumption ==
    \A s \in Setups : \A plan \in s.plans : \A r \in Requests :
      plan[r].method = "CreateVolume" /\ plan[r].source[1] = "snapshot" => ~ plan[r].detached

VARIABLES
    kind, drops,    \* of the setup
    mem,            \* mem[r]: what r's handler has in memory
    faults,         \* those that are left
    overlooked      \* <<t, v>>: v's row of table t was once taken for gone (ghost)

options == <<call, kind, drops, reuse>>
ghosts == <<promised, captured, overlooked>>
vars == <<options, pc, answer, mem, ghosts, pool, table, faults>>

Zvols == kind \in {"iscsi", "nvmeof"}

\* ids: of the rows that the server has answered with, or that were read from
\* the dataset; origin, listed: what DeleteVolume read at its start; job: the
\* state of the job that was started.
Blank == [ids |-> Unset, origin |-> NoOrigin, listed |-> {}, job |-> "none"]

----------------------------------------------------------------------------
(* The steps of the handlers, in the order of the code.                    *)

KeepSteps == [nfs |-> "keep-nfs", smb |-> "keep-smb", target |-> "keep-target",
              extent |-> "keep-extent", lun |-> "keep-lun", subsys |-> "keep-subsys",
              namespace |-> "keep-namespace", port |-> "keep-port"]
AskSteps == [nfs |-> "ask-nfs", smb |-> "ask-smb", target |-> "ask-target",
             extent |-> "ask-extent", lun |-> "ask-lun", subsys |-> "ask-subsys",
             namespace |-> "ask-namespace", port |-> "ask-port"]
RemoveSteps == [nfs |-> "delete-nfs", smb |-> "delete-smb", target |-> "delete-target",
                extent |-> "delete-extent", lun |-> "delete-lun", subsys |-> "delete-subsys",
                namespace |-> "delete-namespace", port |-> "delete-port"]
InheritSteps == [nfs |-> "inherit-nfs", smb |-> "inherit-smb", target |-> "inherit-target",
                 extent |-> "inherit-extent", lun |-> "inherit-lun", subsys |-> "inherit-subsys",
                 namespace |-> "inherit-namespace", port |-> "inherit-port"]

\* The steps that concern a table: its row's id is written to the dataset; the
\* row is asked for, and deleted; the id is removed from the dataset.
Keep(t) == KeepSteps[t]
Ask(t) == AskSteps[t]
Remove(t) == RemoveSteps[t]
Inherit(t) == InheritSteps[t]

CreateNfs == <<"look", "nfs", Keep("nfs")>>
CreateSmb == <<"look", "smb", Keep("smb")>>
CreateIscsi == <<"look", "target", "groups", Keep("target"), "extent", Keep("extent"),
                 "lun", Keep("lun"), "name">>
CreateNvmeof == <<"look", "subsys", Keep("subsys"), "namespace", Keep("namespace"),
                  "port", "name">>

CreateShare == [nfs |-> CreateNfs, smb |-> CreateSmb, iscsi |-> CreateIscsi,
                nvmeof |-> CreateNvmeof]

DeleteNfs == <<"find", Ask("nfs"), Remove("nfs"), Inherit("nfs")>>
DeleteSmb == <<"find", Ask("smb"), Remove("smb"), Inherit("smb")>>
DeleteIscsi == <<"find", Ask("target"), Remove("target"), Inherit("target"),
                 Ask("extent"), Remove("extent"), Inherit("extent")>>
DeleteNvmeof == <<"find", Remove("namespace"), Inherit("namespace"),
                  Remove("subsys"), Inherit("subsys")>>

DeleteShare == [nfs |-> DeleteNfs, smb |-> DeleteSmb, iscsi |-> DeleteIscsi,
                nvmeof |-> DeleteNvmeof]

\* Mutant: the source keeps its temporary snapshot.
VolumeStepsLeaving(c) ==
    CASE c.source[1] = "none"     -> <<"check", "create", "size">>
      [] c.source[1] = "snapshot" ->
           IF c.detached THEN <<"check", "run", "poll", "props", "strip", "size">>
                         ELSE <<"check", "clone", "size">>
      [] OTHER ->
           IF c.detached THEN <<"check", "tmp", "run", "poll", "props", "strip", "size">>
                         ELSE <<"check", "tmp", "clone", "size">>

\* The steps of a creation up to its share, those of a snapshot's.
VolumeSteps(c) ==
    CASE c.source[1] = "none"     -> <<"check", "create", "size">>
      [] c.source[1] = "snapshot" ->
           IF c.detached THEN <<"check", "run", "poll", "props", "strip", "size">>
                         ELSE <<"check", "clone", "size">>
      [] c.source[1] = "detached" ->
           IF c.detached
           THEN <<"check", "tmp", "run", "poll", "props", "strip", "untmp", "size">>
           ELSE <<"check", "tmp", "clone", "untmp", "size">>
      [] c.source[1] = "volume"   ->
           IF c.detached
           THEN <<"check", "tmp", "run", "poll", "props", "strip", "untmp", "size">>
           ELSE <<"check", "tmp", "clone", "size">>

SnapshotSteps(c) ==
    IF c.detached THEN <<"check", "container", "tmp", "run", "poll", "props", "strip",
                         "untmp", "success">>
                  ELSE <<"check", "take", "success">>

Steps(c) ==
    CASE c.method = "CreateVolume"           ->
           VolumeSteps(c) \o CreateShare[kind] \o <<"context", "success">>
      [] c.method = "DeleteVolume"           ->
           <<"read">> \o DeleteShare[kind] \o <<"origin", "managed", "destroy">>
      [] c.method = "ControllerExpandVolume" -> <<"resize">>
      [] c.method = "CreateSnapshot"         -> SnapshotSteps(c)
      [] c.method = "DeleteSnapshot"         ->
           IF c.source[1] = "detached" THEN <<"destroy", "uncontain">> ELSE <<"release">>

StepAfter(c, step) ==
    LET steps == Append(Steps(c), "reply")
    IN  steps[1 + CHOOSE i \in DOMAIN Steps(c) : steps[i] = step]

On(r, step) == pc[r] = step

\* r's handler goes on after the given step, its own or a later one.
SkipPast(r, step) ==
    /\ pc' = [pc EXCEPT ![r] = StepAfter(call[r], step)]
    /\ UNCHANGED <<options, answer, ghosts, faults>>

Advance(r) == SkipPast(r, pc[r])

Proceed(r) == Advance(r) /\ UNCHANGED mem

Stops(r, state, code) ==
    /\ pc' = [pc EXCEPT ![r] = state]
    /\ mem' = [mem EXCEPT ![r] = Blank]
    /\ answer' = [answer EXCEPT ![r] = code]
    /\ UNCHANGED options

\* The handler throws, and the CO sends the call again.
Throw(r, code) ==
    Stops(r, "pending", code) /\ UNCHANGED <<pool, table, ghosts, faults>>

OnlyDs(r) == Proceed(r) /\ UNCHANGED <<snap, table>>
OnlySnap(r) == Proceed(r) /\ UNCHANGED <<ds, table>>
OnlyTable(r) == Proceed(r) /\ UNCHANGED pool
Nothing(r) == Proceed(r) /\ UNCHANGED <<pool, table>>

\* The call's dataset gets new properties; an error when there is none.
Set(r, props) ==
    LET d == Dest(call[r]) IN
    IF d \in DOMAIN ds THEN DatasetSet(d, props) /\ OnlyDs(r) ELSE Throw(r, "UNKNOWN")

Has(r, p) == LET d == Dest(call[r]) IN Set(r, [ds[d] EXCEPT !.has = @ \cup {p}])

----------------------------------------------------------------------------
Init ==
    /\ \E s \in Setups :
         /\ kind = s.kind /\ reuse = s.reuse /\ drops = s.drops /\ faults = s.faults
         /\ call \in s.plans
    /\ pc = [r \in Requests |-> "idle"]
    /\ answer = [r \in Requests |-> "none"]
    /\ mem = [r \in Requests |-> Blank]
    /\ promised = [v \in {} |-> 0]
    /\ captured = [sid \in {} |-> 0]
    /\ overlooked = {}
    /\ ds = [d \in {} |-> 0]
    /\ snap = [k \in {} |-> 0]
    /\ table = EmptyTables

\* The CO sends r, and the proxy runs its handler when its keys are free.
Start(r) ==
    /\ pc[r] = "pending" \/ (pc[r] = "idle" /\ MaySend(r))
    /\ ~ Locked(r)
    /\ pc' = [pc EXCEPT ![r] = Head(Steps(call[r]))]
    /\ answer' = [answer EXCEPT ![r] = "none"]
    /\ UNCHANGED <<options, mem, ghosts, pool, table, faults>>

(* CreateVolume.                                                           *)

Conflict(c, size) == size < c.size \/ (c.limit > 0 /\ size > c.limit)

\* A volume that exists must have a size that was asked for.
CheckSize(r) ==
    /\ On(r, "check") /\ Is(r, "CreateVolume")
    /\ LET d == Dest(call[r]) IN
         IF d \in DOMAIN ds /\ Zvols /\ Conflict(call[r], ds[d].size)
         THEN Throw(r, "ALREADY_EXISTS")
         ELSE Nothing(r)

Create(r) ==
    /\ On(r, "create")
    /\ DatasetCreate(Dest(call[r]), IF Zvols THEN call[r].size ELSE 0, {"managed"})
    /\ OnlyDs(r)

\* A temporary snapshot of the source, unless a first attempt left one.
TakeTemporary(r) ==
    /\ On(r, "tmp")
    /\ IF From(call[r]) \in DOMAIN ds
       THEN SnapshotCreate(CopyFrom(call[r]), FALSE) /\ OnlySnap(r)
       ELSE Throw(r, IF Is(r, "CreateVolume") THEN "NOT_FOUND" ELSE "FAILED_PRECONDITION")

Clone(r) ==
    /\ On(r, "clone")
    /\ IF CopyFrom(call[r]) \in DOMAIN snap
       THEN CloneCreate(CopyFrom(call[r]), Dest(call[r])) /\ OnlyDs(r)
       ELSE Throw(r, "NOT_FOUND")

\* A replication job is accepted; the answer is its number.
RunReplication(r) ==
    /\ On(r, "run")
    /\ LET k == CopyFrom(call[r])  d == Dest(call[r]) IN
         /\ ReplicationBegins(k, d)
         /\ mem' = [mem EXCEPT ![r].job = Rejection(k, d)]
    /\ Advance(r) /\ UNCHANGED <<snap, table>>

\* Mutant: a target that exists already is an error.
WaitForJobAnew(r) ==
    /\ On(r, "poll") /\ mem[r].job # "RUNNING"
    /\ IF mem[r].job # "SUCCESS" THEN Throw(r, "UNKNOWN") ELSE Nothing(r)

\* CoreGetJobs until the job is over.  A target that exists already is taken
\* for the work of an earlier attempt.
WaitForJob(r) ==
    /\ On(r, "poll") /\ mem[r].job # "RUNNING"
    /\ IF mem[r].job = "FAILED" THEN Throw(r, "UNKNOWN") ELSE Nothing(r)

SetProperties(r) == On(r, "props") /\ Has(r, "managed")

\* CreateVolume destroys every snapshot of the new dataset, CreateSnapshot
\* only the one it was received with.
StripSnapshots(r) ==
    /\ On(r, "strip")
    /\ LET d == Dest(call[r]) IN
         IF Is(r, "CreateSnapshot") THEN SnapshotDelete(<<d, Tag(call[r])>>)
         ELSE DatasetDestroySnapshots(d)
    /\ OnlySnap(r)

\* Mutant: the server deletes a snapshot that is being sent.
BeingSentUnnoticed(c) == FALSE

BeingSent(c) == Receiving(Dest(c))

\* A snapshot that a job is still sending is busy.
DropTemporary(r) ==
    /\ On(r, "untmp")
    /\ IF BeingSent(call[r]) THEN Throw(r, "UNKNOWN")
       ELSE SnapshotDelete(CopyFrom(call[r])) /\ OnlySnap(r)

SizeOf(r) ==
    IF Zvols THEN Set(r, [ds[Dest(call[r])] EXCEPT !.size = call[r].size])
             ELSE Nothing(r)

\* A zvol is made as large as asked for, whatever it was copied from; a
\* filesystem has its mode and owner set by jobs whose outcome is not looked at.
SetSize(r) == On(r, "size") /\ SizeOf(r)

\* ControllerExpandVolume.
Resize(r) == On(r, "resize") /\ SizeOf(r)

SetContext(r) == On(r, "context") /\ Has(r, "context")

\* The last call of a creation.
SetSuccess(r) ==
    /\ On(r, "success")
    /\ IF Is(r, "CreateVolume") \/ call[r].detached THEN Has(r, "success")
       ELSE IF SnapOf(IdOf(call[r])) \in DOMAIN snap THEN Nothing(r)
       ELSE Throw(r, "UNKNOWN")

(* createShare().                                                          *)

Mine(r) == VolumeId(call[r])

\* The rows that the handlers ask for.  Filesystems are shared by their path
\* or by a name made of the volume's, all else is named after the volume.
NfsShare(v) == <<v>>
SmbShare(v) == <<v>>
Target(v, groups) == <<v, groups>>
Extent(v) == <<v>>
Lun(ids) == <<ids["target"], ids["extent"]>>
Subsystem(v) == <<v>>
Namespace(v, ids) == <<v, ids["subsys"]>>
Port(ids) == <<ids["subsys"]>>

RowOf(r, t) ==
    LET v == Mine(r)  ids == mem[r].ids IN
    CASE t = "nfs"       -> NfsShare(v)
      [] t = "smb"       -> SmbShare(v)
      [] t = "target"    -> Target(v, TRUE)
      [] t = "extent"    -> Extent(v)
      [] t = "lun"       -> Lun(ids)
      [] t = "subsys"    -> Subsystem(v)
      [] t = "namespace" -> Namespace(v, ids)
      [] t = "port"      -> Port(ids)

\* A share whose last id is in the dataset's properties is complete.
Complete(ids) ==
    CASE kind = "iscsi"  -> ids["lun"] # 0
      [] kind = "nvmeof" -> FALSE
      [] OTHER           -> ids[kind] # 0

LookUp(r) ==
    /\ On(r, "look")
    /\ LET d == Dest(call[r]) IN
         IF d \notin DOMAIN ds THEN Throw(r, "UNKNOWN")
         ELSE /\ SkipPast(r, IF ~ Complete(ds[d].ids) THEN "look"
                             ELSE IF kind = "iscsi" THEN Keep("lun") ELSE Keep(kind))
              /\ UNCHANGED <<mem, pool, table>>

Gets(r, t, i) == mem' = [mem EXCEPT ![r].ids[t] = i]

\* The ids that a new row may get.
FreeIds(t) == {i \in Ids : table[t][i] = Free}

Absent(r, t) == Conflicts(t, RowOf(r, t)) = {}

\* A row is made, or the one that was made before is found.
Post(r, t) ==
    /\ On(r, t)
    /\ LET row == RowOf(r, t)
           found == {i \in Conflicts(t, row) : Same(t, table[t][i], row)}
       IN  \/ /\ Absent(r, t)
              /\ \E i \in FreeIds(t) : Insert(t, i, row) /\ Gets(r, t, i)
              /\ Advance(r) /\ UNCHANGED pool
           \/ /\ ~ Absent(r, t) /\ found # {}
              /\ \E i \in found : Gets(r, t, i)
              /\ Advance(r) /\ UNCHANGED <<pool, table>>
           \/ /\ ~ Absent(r, t) /\ found = {}
              /\ Throw(r, "UNKNOWN")

\* Mutant: a target that is there has its groups.
NoGroups(r) == On(r, "groups") /\ Nothing(r)

\* A target that lacks its groups gets them.
SetGroups(r) ==
    /\ On(r, "groups")
    /\ LET i == mem[r].ids["target"] IN
         IF i \in Rows("target")
         THEN Insert("target", i, Target(table["target"][i][1], TRUE)) /\ OnlyTable(r)
         ELSE Throw(r, "UNKNOWN")

KeepId(r, t) ==
    /\ On(r, Keep(t))
    /\ Set(r, [ds[Dest(call[r])] EXCEPT !.ids[t] = mem[r].ids[t]])

\* What the rows are called, for deleteShare() to compare.
SetName(r) == On(r, "name") /\ Has(r, "name")

(* deleteShare(): the ids, and what becomes of the rows they name.         *)

\* The ids are read; without a dataset there is nothing to do.
FindShare(r) ==
    /\ On(r, "find")
    /\ LET d == Dest(call[r])  steps == DeleteShare[kind] IN
         IF d \in DOMAIN ds
         THEN mem' = [mem EXCEPT ![r].ids = ds[d].ids] /\ Advance(r)
         ELSE SkipPast(r, steps[Len(steps)]) /\ UNCHANGED mem
    /\ UNCHANGED <<pool, table>>

\* Mutant: a row is known by its id.
OwnById(r, t, i) == i \in Rows(t)

\* The row still belongs to r's volume: by its path, or by its name, if that was
\* ever stored.
Own(r, t, i) ==
    /\ i \in Rows(t)
    /\ \/ table[t][i][1] = Mine(r)
       \/ kind = "iscsi" /\ "name" \notin ds[Dest(call[r])].has

\* The handler deletes a row that is there and its own, and goes on past one that is
\* gone or another's.
AskFor(r, t) ==
    /\ On(r, Ask(t))
    /\ SkipPast(r, IF Own(r, t, mem[r].ids[t]) THEN Ask(t) ELSE Inherit(t))
    /\ UNCHANGED <<mem, pool, table>>

\* By now the row may be gone, or be another's: an error to nfs, if gone.
DeleteRow(r, t) ==
    /\ On(r, Remove(t))
    /\ LET i == mem[r].ids[t] IN
         \/ i = 0 /\ SkipPast(r, Inherit(t)) /\ UNCHANGED <<mem, pool, table>>
         \/ i \in Rows(t) /\ Erase(t, i) /\ OnlyTable(r)
         \/ i \in Ids \ Rows(t) /\ kind = "nfs" /\ Throw(r, "UNKNOWN")
         \/ i \in Ids \ Rows(t) /\ kind # "nfs" /\ Nothing(r)

\* The property goes, so that no retry deletes by an id that is another's.
InheritId(r, t) ==
    /\ On(r, Inherit(t))
    /\ Set(r, [ds[Dest(call[r])] EXCEPT !.ids[t] = 0])

----------------------------------------------------------------------------
(* DeleteVolume.                                                           *)

\* The dataset's origin and the names of its snapshots.
ReadDataset(r) ==
    /\ On(r, "read")
    /\ LET d == Dest(call[r]) IN
         mem' = IF d \in DOMAIN ds
                THEN [mem EXCEPT ![r].origin = ds[d].origin, ![r].listed = SnapsOf(d)]
                ELSE mem
    /\ Advance(r) /\ UNCHANGED <<pool, table>>

DeferOrigin(r) ==
    /\ On(r, "origin")
    /\ IF mem[r].origin # NoOrigin /\ mem[r].origin[2][1] = "for-volume"
       THEN SnapshotDelete(mem[r].origin)
       ELSE UNCHANGED snap
    /\ OnlySnap(r)

\* Each snapshot listed is looked at: one that has gone since is an error, and
\* each inherits the managed property of its dataset.
CheckManaged(r) ==
    /\ On(r, "managed")
    /\ CASE mem[r].listed \ DOMAIN snap # {} -> Throw(r, "UNKNOWN")
         [] mem[r].listed # {} /\ mem[r].listed \subseteq DOMAIN snap ->
              Throw(r, "FAILED_PRECONDITION")
         [] OTHER -> Nothing(r)

DestroyVolume(r) ==
    /\ On(r, "destroy") /\ Is(r, "DeleteVolume")
    /\ IF HasClones(Dest(call[r])) \/ Receiving(Dest(call[r]))
       THEN Throw(r, "FAILED_PRECONDITION")
       ELSE DatasetDelete(Dest(call[r])) /\ Proceed(r) /\ UNCHANGED table

(* CreateSnapshot and DeleteSnapshot.                                      *)

\* Is the name in use on another volume, attached or detached?
NameTaken(c) ==
    \E v \in Volumes \ {c.volume} :
        \/ Det(v, c.name) \in DOMAIN ds
        \/ SnapOf(<<"snapshot", v, c.name>>) \in DOMAIN snap

CheckName(r) ==
    /\ On(r, "check") /\ Is(r, "CreateSnapshot")
    /\ IF NameTaken(call[r]) THEN Throw(r, "ALREADY_EXISTS") ELSE Nothing(r)

TakeSnapshot(r) ==
    /\ On(r, "take")
    /\ IF From(call[r]) \in DOMAIN ds
       THEN SnapshotCreate(SnapOf(IdOf(call[r])), TRUE) /\ OnlySnap(r)
       ELSE Throw(r, "FAILED_PRECONDITION")

CreateContainer(r) ==
    /\ On(r, "container")
    /\ DatasetCreate(Con(call[r].volume), 0, {})
    /\ OnlyDs(r)

ReleaseSnapshot(r) ==
    /\ On(r, "release")
    /\ SnapshotDelete(SnapOf(call[r].source))
    /\ OnlySnap(r)

DestroyDetached(r) ==
    /\ On(r, "destroy") /\ Is(r, "DeleteSnapshot")
    /\ IF HasClones(Dest(call[r])) \/ Receiving(Dest(call[r]))
       THEN Throw(r, "UNKNOWN")
       ELSE DatasetDelete(Dest(call[r])) /\ Proceed(r) /\ UNCHANGED table

Details(v) == {d \in DOMAIN ds : d[1] = "det" /\ d[2] = v}

\* Mutant: the container is destroyed with what is in it.
DestroyContainerWhole(r) ==
    /\ On(r, "uncontain")
    /\ LET v == call[r].source[2] IN
         ds' = [d \in DOMAIN ds \ ({Con(v)} \cup Details(v)) |-> ds[d]]
    /\ OnlyDs(r)

\* The container of the volume's detached snapshots goes with the last.
DestroyContainer(r) ==
    /\ On(r, "uncontain")
    /\ LET v == call[r].source[2] IN
         IF Details(v) # {} THEN UNCHANGED ds ELSE ds' = [d \in DOMAIN ds \ {Con(v)} |-> ds[d]]
    /\ OnlyDs(r)

----------------------------------------------------------------------------
Captured(c) ==
    IF c.method # "CreateSnapshot" THEN captured
    ELSE [sid \in DOMAIN captured \cup {IdOf(c)} |-> 0]

Reply(r) ==
    /\ On(r, "reply")
    /\ Stops(r, "done", "OK")
    /\ promised' = Promised(call[r])
    /\ captured' = Captured(call[r])
    /\ UNCHANGED <<overlooked, pool, table, faults>>

(* What goes wrong.                                                        *)

Fault == faults > 0 /\ faults' = faults - 1

\* The call of r's step fails, or its answer is lost after the step, or a job
\* can no longer be asked for: the handler throws.
Fail(r) ==
    /\ Running(r) /\ Fault
    /\ Stops(r, "pending", "UNKNOWN")
    /\ UNCHANGED <<pool, table, ghosts>>

\* The process dies; the server goes on, and the CO sends its calls again.
Restart ==
    /\ Fault
    /\ \E r \in Requests : Running(r)
    /\ pc' = [r \in Requests |-> IF Running(r) THEN "pending" ELSE pc[r]]
    /\ mem' = [r \in Requests |-> Blank]
    /\ UNCHANGED <<options, answer, ghosts, pool, table>>

\* A target is made without its groups, and the answer is an error.
HalfPost(r) ==
    /\ On(r, "target") /\ Absent(r, "target") /\ Fault
    /\ \E i \in FreeIds("target") : Insert("target", i, Target(Mine(r), FALSE))
    /\ Stops(r, "pending", "UNKNOWN")
    /\ UNCHANGED <<pool, ghosts>>

\* A call takes effect, its answer is lost, and the driver repeats it at once.
DropPost(r, t) ==
    /\ drops /\ t \in {"nfs", "smb"} /\ On(r, t) /\ Absent(r, t) /\ Fault
    /\ \E i \in FreeIds(t) : Insert(t, i, RowOf(r, t))
    /\ UNCHANGED <<options, pc, answer, mem, ghosts, pool>>

DropDelete(r, t) ==
    /\ drops /\ kind # "iscsi" /\ On(r, Remove(t)) /\ mem[r].ids[t] \in Rows(t) /\ Fault
    /\ Erase(t, mem[r].ids[t])
    /\ UNCHANGED <<options, pc, answer, mem, ghosts, pool>>

\* A row that is there is asked for and the answer is 500, which the handler takes for
\* "gone": it goes on, and destroys the dataset that alone knows the row's id.
Overlook(r, t) ==
    /\ On(r, Ask(t)) /\ Own(r, t, mem[r].ids[t]) /\ Fault
    /\ pc' = [pc EXCEPT ![r] = StepAfter(call[r], Inherit(t))]
    /\ overlooked' = overlooked \cup {<<t, Mine(r)>>}
    /\ UNCHANGED <<options, answer, mem, promised, captured, pool, table>>

(* Replication jobs, which go on without their handlers.                   *)

Jobs(d, state) ==
    mem' = [r \in Requests |-> IF mem[r].job = "RUNNING" /\ Dest(call[r]) = d
                               THEN [mem[r] EXCEPT !.job = state] ELSE mem[r]]

\* The call copies by replication.
Replicates(c) ==
    /\ c.detached
    /\ c.method = "CreateSnapshot" \/ (c.method = "CreateVolume" /\ c.source[1] # "none")

Filling(r) == Replicates(call[r]) /\ Sent(r) /\ Receiving(Dest(call[r]))

JobEnds(r) ==
    /\ Filling(r)
    /\ ReplicationEnds(CopyFrom(call[r]), Dest(call[r]))
    /\ Jobs(Dest(call[r]), "SUCCESS")
    /\ UNCHANGED <<options, pc, answer, ghosts, table, faults>>

JobBreaks(r) ==
    /\ Filling(r) /\ Fault
    /\ ReplicationBreaks(Dest(call[r]))
    /\ Jobs(Dest(call[r]), "FAILED")
    /\ UNCHANGED <<options, pc, answer, ghosts, table>>

VolumeStep(r) ==
    \/ CheckSize(r) \/ Create(r) \/ Clone(r) \/ SetSize(r) \/ Resize(r)
    \/ SetContext(r) \/ ReadDataset(r) \/ DeferOrigin(r) \/ CheckManaged(r) \/ DestroyVolume(r)

CopyStep(r) ==
    \/ TakeTemporary(r) \/ RunReplication(r) \/ WaitForJob(r) \/ SetProperties(r)
    \/ StripSnapshots(r) \/ DropTemporary(r)

ShareStep(r) ==
    \/ LookUp(r) \/ SetGroups(r) \/ SetName(r) \/ FindShare(r)
    \/ \E t \in Tables :
         Post(r, t) \/ KeepId(r, t) \/ AskFor(r, t) \/ DeleteRow(r, t) \/ InheritId(r, t)

SnapshotStep(r) ==
    \/ CheckName(r) \/ TakeSnapshot(r) \/ CreateContainer(r)
    \/ ReleaseSnapshot(r) \/ DestroyDetached(r) \/ DestroyContainer(r)

Handle(r) ==
    VolumeStep(r) \/ CopyStep(r) \/ ShareStep(r) \/ SnapshotStep(r) \/ SetSuccess(r) \/ Reply(r)

\* Nothing is under way; the CO may ask for more or be content.
Quiet == (\A r \in Requests : ~ Unfinished(r)) /\ UNCHANGED vars

Next ==
    \/ \E r \in Requests :
         \/ Start(r) \/ Handle(r) \/ JobEnds(r)
         \/ Fail(r) \/ HalfPost(r) \/ JobBreaks(r)
         \/ \E t \in Tables : DropPost(r, t) \/ DropDelete(r, t) \/ Overlook(r, t)
    \/ Restart
    \/ Quiet

Spec == Init /\ [][Next]_vars

\* Handlers and jobs go on, and the CO sends again what was not answered OK:
\* often enough to find the keys free.  Faults need not happen.
FairSpec ==
    /\ Spec
    /\ WF_vars(\E r \in Requests : JobEnds(r))
    /\ \A r \in Requests : WF_vars(Handle(r)) /\ SF_vars(Start(r))

----------------------------------------------------------------------------
(* Properties.                                                             *)

NamedTables == {"nfs", "smb", "target", "extent", "subsys", "namespace"}

\* The rows named after v: <<table, id>>.
RowsNamed(v) == {x \in NamedTables \X Ids : x[2] \in Rows(x[1]) /\ table[x[1]][x[2]][1] = v}

\* Every variable has its type.
TypeOK ==
    /\ \E s \in Setups : /\ kind = s.kind /\ reuse = s.reuse /\ drops = s.drops
                         /\ call \in s.plans /\ faults <= s.faults
    /\ \A r \in Requests :
         /\ pc[r] \in {"idle", "pending", "reply", "done"}
                        \cup {Steps(call[r])[i] : i \in DOMAIN Steps(call[r])}
         /\ answer[r] \in {"none", "OK", "UNKNOWN", "ALREADY_EXISTS", "NOT_FOUND",
                           "FAILED_PRECONDITION"}
         /\ mem[r].ids \in [Tables -> {0} \cup Ids]
         /\ mem[r].job \in {"none", "RUNNING", "SUCCESS", "FAILED", "already-exists"}
    /\ \A d \in DOMAIN ds :
         /\ ds[d].size \in Nat /\ ds[d].whole \in BOOLEAN
         /\ ds[d].ids \in [Tables -> {0} \cup Ids]
         /\ ds[d].has \subseteq {"managed", "name", "context", "success"}
         /\ ds[d].origin # NoOrigin => ds[d].origin \in DOMAIN snap
    /\ \A k \in DOMAIN snap :
         k[1] \in DOMAIN ds /\ {snap[k].managed, snap[k].defer} \subseteq BOOLEAN
    /\ \A t \in Tables : \A i \in Rows(t) : Len(table[t][i]) \in 1..2
    /\ faults \in Nat /\ overlooked \subseteq NamedTables \X Volumes

\* v's share is whole, and its parts belong together and to v.
Serves(v) ==
    LET ids == ds[Vol(v)].ids IN
    CASE kind = "iscsi"  ->
           /\ ids["target"] # 0 /\ table["target"][ids["target"]] = Target(v, TRUE)
           /\ ids["extent"] # 0 /\ table["extent"][ids["extent"]] = Extent(v)
           /\ ids["lun"] # 0 /\ table["lun"][ids["lun"]] = Lun(ids)
      [] kind = "nvmeof" ->
           /\ ids["subsys"] # 0 /\ table["subsys"][ids["subsys"]] = Subsystem(v)
           /\ ids["namespace"] # 0
           /\ table["namespace"][ids["namespace"]] = Namespace(v, ids)
           /\ \E i \in Rows("port") : table["port"][i] = Port(ids)
      [] OTHER           ->
           ids[kind] # 0 /\ table[kind][ids[kind]] = <<v>>

\* A volume that CreateVolume has answered OK for is usable until its deletion
\* is asked for: of the size promised, whole, and served by a share whose rows
\* belong together, though they were made one by one, by several attempts.
AckedVolumesServe ==
    \A v \in Volumes : OwnsVolume(v) =>
        /\ Vol(v) \in DOMAIN ds
        /\ {"context", "success"} \subseteq ds[Vol(v)].has
        /\ Zvols => ds[Vol(v)].size >= promised[v]
        /\ Serves(v)

\* What was answered OK as a copy is whole: a volume, a snapshot, or a detached
\* snapshot, though an attempt may leave its replication job behind and the
\* next one takes the target that exists for a copy that was made.
AckedCopiesAreWhole ==
    /\ \A v \in Volumes : OwnsVolume(v) => ~ Receiving(Vol(v))
    /\ \A sid \in SnapshotIds : OwnsSnapshot(sid) =>
         IF sid[1] = "snapshot"
         THEN SnapOf(sid) \in DOMAIN snap /\ ~ snap[SnapOf(sid)].defer
         ELSE Det(sid[2], sid[3]) \in DOMAIN ds /\ ~ Receiving(Det(sid[2], sid[3]))

\* The call copies by way of a temporary snapshot.
Copies(c) ==
    IF c.method = "CreateVolume" THEN c.source[1] \in {"volume", "detached"}
                                 ELSE c.method = "CreateSnapshot" /\ c.detached

\* DeleteVolume leaves neither the dataset nor a row of its share, but for the rows
\* that a server answering 500 made it overlook; and when all is answered only clones
\* keep temporary snapshots and no container is empty.
DeletionsLeaveNothing ==
    /\ \A r \in Requests : Is(r, "DeleteVolume") /\ pc[r] = "done" =>
         LET v == call[r].volume IN
         Vol(v) \notin DOMAIN ds /\ \A x \in RowsNamed(v) : <<x[1], v>> \in overlooked
    /\ (\A r \in Requests : ~ Unfinished(r)) =>
         /\ \A r \in Requests : Copies(call[r]) /\ CopyFrom(call[r]) \in DOMAIN snap
                                  => Clones(CopyFrom(call[r])) # {}
         /\ \A v \in Volumes : Con(v) \in DOMAIN ds => Details(v) # {}

Deleting(v) == \E r \in Requests : Running(r) /\ Is(r, "DeleteVolume") /\ call[r].volume = v

\* A row goes only while the deletion of the volume it is named after runs: a
\* deletion that is repeated deletes nothing by an id that was given away.
SharesOfOthersAreKept ==
    [][\A v \in Volumes : ~ Deleting(v) => RowsNamed(v) \subseteq RowsNamed(v)']_vars

\* As long as the CO sends its requests again, every one it has sent is
\* answered OK in the end, or it is the deletion of a dataset with snapshots.
EveryRequestSucceeds ==
    <>[](\A r \in Requests : Unfinished(r) =>
           call[r].method \in {"DeleteVolume", "DeleteSnapshot"} /\ SnapsOf(Dest(call[r])) # {})

=============================================================================
