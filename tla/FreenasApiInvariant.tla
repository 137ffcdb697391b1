------------------------- MODULE FreenasApiInvariant -------------------------
(***************************************************************************)
(* The inductive invariant of FreenasApi, part by part, and what its steps *)
(* do, in the words of the proofs.                                         *)
(***************************************************************************)
EXTENDS FreenasApi

----------------------------------------------------------------------------
(* The vocabulary of the invariant.                                        *)

\* What request r is for: the volume v, the snapshot with the id sid.
Creates(r, v) == Is(r, "CreateVolume") /\ VolumeId(call[r]) = v
Deletes(r, v) == Is(r, "DeleteVolume") /\ call[r].volume = v
Expands(r, v) == Is(r, "ControllerExpandVolume") /\ call[r].volume = v
Takes(r, sid) == Is(r, "CreateSnapshot") /\ IdOf(call[r]) = sid
Drops(r, sid) == Is(r, "DeleteSnapshot") /\ call[r].source = sid

\* Their deletion has been asked for.
VolumeUnwanted(v) == \E r \in Requests : Deletes(r, v) /\ Sent(r)
SnapshotUnwanted(sid) == \E r \in Requests : Drops(r, sid) /\ Sent(r)

\* CreateVolume makes its volume from a snapshot.
ByCloning(c) == c.source[1] # "none" /\ ~ c.detached

\* The tables in which a driver of the setup's kind makes rows.
Used ==
    CASE kind = "nfs"    -> {"nfs"}
      [] kind = "smb"    -> {"smb"}
      [] kind = "iscsi"  -> {"target", "extent", "lun"}
      [] kind = "nvmeof" -> {"subsys", "namespace", "port"}

\* Row i of table t is, or by what it refers to belongs to, a row named after v.
Named(t, i, v) == i \in Rows(t) /\ table[t][i][1] = v

Belongs(t, i, v) ==
    /\ i \in Rows(t)
    /\ CASE t = "target"    -> \E g \in BOOLEAN : table[t][i] = <<v, g>>
         [] t = "lun"       -> \E a, b \in Ids : /\ table[t][i] = <<a, b>>
                                                 /\ Named("target", a, v) /\ Named("extent", b, v)
         [] t = "namespace" -> \E a \in Ids : table[t][i] = <<v, a>> /\ Named("subsys", a, v)
         [] t = "port"      -> \E a \in Ids : table[t][i] = <<a>> /\ Named("subsys", a, v)
         [] OTHER           -> table[t][i] = <<v>>

----------------------------------------------------------------------------
(* Where a handler can be.                                                 *)

\* The steps that make a share, those that remove it, and those of a creation after it.
Sharing ==
    CASE kind = "nfs"    -> {"nfs", "keep-nfs"}
      [] kind = "smb"    -> {"smb", "keep-smb"}
      [] kind = "iscsi"  -> {"target", "groups", "keep-target", "extent", "keep-extent",
                             "lun", "keep-lun", "name"}
      [] kind = "nvmeof" -> {"subsys", "keep-subsys", "namespace", "keep-namespace", "port",
                             "name"}

Unsharing ==
    CASE kind = "nfs"    -> {"ask-nfs", "delete-nfs", "inherit-nfs"}
      [] kind = "smb"    -> {"ask-smb", "delete-smb", "inherit-smb"}
      [] kind = "iscsi"  -> {"ask-target", "delete-target", "inherit-target",
                             "ask-extent", "delete-extent", "inherit-extent"}
      [] kind = "nvmeof" -> {"delete-namespace", "inherit-namespace",
                             "delete-subsys", "inherit-subsys"}

Shared == {"context", "success", "reply"}
Unshared == {"origin", "managed", "destroy"}

\* The steps of a call, case by case.
Places(c) ==
    CASE c.method = "CreateVolume"           ->
           {"check", "size", "look", "context", "success"} \cup Sharing
             \cup (IF c.source[1] = "none" THEN {"create"}
                   ELSE IF c.detached THEN {"run", "poll", "props", "strip"} ELSE {"clone"})
             \cup (IF c.source[1] \in {"volume", "detached"} THEN {"tmp"} ELSE {})
             \cup (IF c.source[1] = "detached" \/ (c.source[1] = "volume" /\ c.detached)
                   THEN {"untmp"} ELSE {})
      [] c.method = "DeleteVolume"           -> {"read", "find"} \cup Unsharing \cup Unshared
      [] c.method = "ControllerExpandVolume" -> {"resize"}
      [] c.method = "CreateSnapshot"         ->
           IF c.detached THEN {"check", "container", "tmp", "run", "poll", "props", "strip",
                               "untmp", "success"}
                         ELSE {"check", "take", "success"}
      [] c.method = "DeleteSnapshot"         ->
           IF c.source[1] = "detached" THEN {"destroy", "uncontain"} ELSE {"release"}

\* A handler takes the steps of its call only.
InItsPlace(r) == pc[r] \in Places(call[r]) \cup {"idle", "pending", "reply", "done"}

----------------------------------------------------------------------------
(* The invariant: types, and who may be at what.                           *)

\* The names of what is in the pool, and the properties.
Tags == ({"csi"} \X SnapshotNames) \cup ({"for-volume"} \X Volumes)
          \cup ({"for-snapshot"} \X SnapshotNames)
Vols == {Vol(v) : v \in Volumes}
Cons == {Con(v) : v \in Volumes}
Dets == {Det(v, s) : v \in Volumes, s \in SnapshotNames}
SnapNames == (Vols \cup Dets) \X Tags
Ids0 == {0} \cup Ids
DatasetType == [origin : SnapNames \cup {NoOrigin}, size : Nat,
                has : SUBSET {"managed", "name", "context", "success"},
                ids : [Tables -> Ids0], whole : BOOLEAN]
SnapshotType == [size : Nat, managed : BOOLEAN, defer : BOOLEAN]
MemoryType == [ids : [Tables -> Ids0], origin : SnapNames \cup {NoOrigin},
               listed : SUBSET SnapNames,
               job : {"none", "RUNNING", "SUCCESS", "FAILED", "already-exists"}]
Codes == {"none", "OK", "UNKNOWN", "ALREADY_EXISTS", "NOT_FOUND", "FAILED_PRECONDITION"}

\* The setup is one to consider.
SetupIs ==
    \E s \in Setups : /\ kind = s.kind /\ reuse = s.reuse /\ drops = s.drops
                      /\ call \in s.plans /\ faults \in 0 .. s.faults

\* The types of the variables.
Types ==
    /\ SetupIs
    /\ DOMAIN pc = Requests /\ pc = [r \in Requests |-> pc[r]]
    /\ \A r \in Requests : InItsPlace(r)
    /\ answer \in [Requests -> Codes]
    /\ mem \in [Requests -> MemoryType]
    /\ DOMAIN ds \subseteq Vols \cup Cons \cup Dets
    /\ ds = [d \in DOMAIN ds |-> ds[d]]
    /\ \A d \in DOMAIN ds : ds[d] \in DatasetType
    /\ DOMAIN snap \subseteq SnapNames
    /\ snap = [k \in DOMAIN snap |-> snap[k]]
    /\ \A k \in DOMAIN snap : snap[k] \in SnapshotType
    /\ DOMAIN promised \subseteq Volumes /\ \A v \in DOMAIN promised : promised[v] \in Nat
    /\ DOMAIN captured \subseteq SnapshotIds
    /\ table = [t \in Tables |-> [i \in Ids |-> table[t][i]]]
    /\ overlooked \subseteq NamedTables \X Volumes

\* What the CO asks to delete is no longer being made, and of two expansions of a volume
\* one is finished.
UnwantedIsSettled ==
    \A q, r \in Requests : Sent(q) =>
      /\ \A v \in Volumes : Deletes(q, v) /\ Creates(r, v) => ~ Unfinished(r)
      /\ \A v \in Volumes : Expands(q, v) /\ Creates(r, v) => pc[r] = "done"
      /\ \A v \in Volumes : Expands(q, v) /\ Expands(r, v) /\ q # r
                               => ~ (Unfinished(q) /\ Unfinished(r))
      /\ \A sid \in SnapshotIds : Drops(q, sid) /\ Takes(r, sid) => ~ Unfinished(r)

\* The lock: no two handlers that run have a key in common.
Exclusive ==
    \A q, r \in Requests : q # r /\ Running(q) /\ Running(r)
        => Keys(call[q]) \cap Keys(call[r]) = {}

\* What was ever acknowledged was made by a request that is done, and a request that is
\* done asked for the size that is promised.
PromisesAreMade ==
    /\ \A v \in DOMAIN promised : \E r \in Requests : Creates(r, v) /\ pc[r] = "done"
    /\ \A sid \in DOMAIN captured : \E r \in Requests : Takes(r, sid) /\ pc[r] = "done"
    /\ \A v \in DOMAIN promised : \E r \in Requests :
         (Creates(r, v) \/ Expands(r, v)) /\ pc[r] = "done" /\ call[r].size = promised[v]

\* A request that has been sent names what has been acknowledged.
SourceWasMade(r) ==
    LET c == call[r] IN
    Sent(r) =>
      /\ c.method \in {"DeleteVolume", "ControllerExpandVolume", "CreateSnapshot"}
           => c.volume \in DOMAIN promised
      /\ c.method = "DeleteSnapshot" => c.source \in DOMAIN captured
      /\ c.method = "CreateVolume" =>
           /\ c.source[1] = "volume" => c.source[2] \in DOMAIN promised
           /\ c.source[1] \in {"snapshot", "detached"} => c.source \in DOMAIN captured

\* All of them; and a handler that does not run has nothing in memory.
Control ==
    /\ UnwantedIsSettled /\ Exclusive /\ PromisesAreMade
    /\ \A r \in Requests : SourceWasMade(r) /\ (~ Running(r) => mem[r] = Blank)

----------------------------------------------------------------------------
(* The invariant: datasets.                                                *)

\* A call that replicates holds its target until it has seen that it is whole.
Holding == {"pending", "check", "container", "tmp", "run", "poll", "props", "strip", "untmp"}

\* Only the target of such a call is still being received.
ReceivingIsHeld ==
    \A d \in DOMAIN ds : ~ ds[d].whole =>
       \E r \in Requests : Replicates(call[r]) /\ Dest(call[r]) = d /\ pc[r] \in Holding

\* The places at which CreateVolume knows that the dataset exists.
MadeSteps == Sharing \cup Shared

\* What is made of a call's dataset stands, place by place, unless the deletion was asked
\* for.
VolumeStands(r) ==
    LET c == call[r]  v == VolumeId(c)  d == Vol(v) IN
    c.method = "CreateVolume" =>
      /\ pc[r] \in {"size", "look"} \cup MadeSteps => ~ Receiving(d)
      /\ pc[r] \in MadeSteps => d \in DOMAIN ds
      /\ pc[r] \in {"success", "reply"} => "context" \in ds[d].has
      /\ pc[r] = "reply" => "success" \in ds[d].has
      /\ pc[r] \in Shared /\ kind = "iscsi" => "name" \in ds[d].has
      /\ pc[r] \in {"look"} \cup MadeSteps /\ Zvols /\ d \in DOMAIN ds => ds[d].size >= c.size
      /\ Running(r) /\ pc[r] # "check" /\ Zvols /\ v \in DOMAIN promised
           => c.size >= promised[v]

\* An expansion is of no less than what was promised, and has set the size before it
\* answers.
VolumeExpands(r) ==
    LET c == call[r]  d == Vol(c.volume) IN
    c.method = "ControllerExpandVolume" =>
      /\ Unfinished(r) => c.size >= promised[c.volume]
      /\ pc[r] = "reply" /\ ~ VolumeUnwanted(c.volume) /\ Zvols => ds[d].size >= c.size

\* A volume that was acknowledged exists, whole and of the size promised.
VolumeIsKept(v) ==
    v \in DOMAIN promised =>
      /\ ~ Receiving(Vol(v))
      /\ kind = "iscsi" /\ Vol(v) \in DOMAIN ds => "name" \in ds[Vol(v)].has
      /\ ~ VolumeUnwanted(v) =>
           /\ Vol(v) \in DOMAIN ds
           /\ {"context", "success"} \subseteq ds[Vol(v)].has
           /\ Zvols => ds[Vol(v)].size >= promised[v]

\* All that is said of volumes.
VolumesAreSound ==
    /\ ReceivingIsHeld
    /\ \A r \in Requests : VolumeStands(r) /\ VolumeExpands(r)
    /\ \A v \in Volumes : VolumeIsKept(v)

----------------------------------------------------------------------------
(* The invariant: rows.                                                    *)

\* v's row of table t was taken for gone; a LUN stays with its target, a port with its
\* subsystem.
Forgotten(t, v) ==
    CASE t = "lun"  -> <<"target", v>> \in overlooked
      [] t = "port" -> <<"subsys", v>> \in overlooked
      [] OTHER      -> <<t, v>> \in overlooked

\* Every row belongs to a volume, whose dataset exists and is whole or was destroyed over
\* a row that was taken for gone, and each volume has at most one in a table.
RowsAreSound ==
    /\ \A t \in Tables : \A i \in Rows(t) :
         t \in Used /\ \E v \in Volumes :
           /\ Belongs(t, i, v)
           /\ (Vol(v) \in DOMAIN ds /\ ds[Vol(v)].whole) \/ Forgotten(t, v)
    /\ \A t \in Tables, v \in Volumes : \A i, j \in Ids :
         Belongs(t, i, v) /\ Belongs(t, j, v) => i = j

\* The id in a property of a volume is that of a row of the volume, until its deletion is
\* asked for; then the row may be gone, and its id another's when ids are given again.
\* The id of a LUN is written after those of its target and extent, and that of a target
\* when it has its groups.
IdsAreSound(v) ==
    LET d == Vol(v) IN
    d \in DOMAIN ds =>
      /\ \A t \in Tables : LET i == ds[d].ids[t] IN
           i # 0 => /\ t \in Used
                    /\ \/ Belongs(t, i, v)
                       \/ VolumeUnwanted(v) /\ (reuse \/ table[t][i] = Spent)
      /\ ~ VolumeUnwanted(v) =>
           /\ ds[d].ids["lun"] # 0 => ds[d].ids["target"] # 0 /\ ds[d].ids["extent"] # 0
           /\ ds[d].ids["target"] # 0 => table["target"][ds[d].ids["target"]] = <<v, TRUE>>

\* The places at which CreateVolume has the id of its row in memory, and those at which it
\* has written it.
Got(t) ==
    CASE t = "nfs"       -> {"keep-nfs"}
      [] t = "smb"       -> {"keep-smb"}
      [] t = "target"    -> {"groups", "keep-target", "extent", "keep-extent", "lun", "keep-lun"}
      [] t = "extent"    -> {"keep-extent", "lun", "keep-lun"}
      [] t = "lun"       -> {"keep-lun"}
      [] t = "subsys"    -> {"keep-subsys", "namespace", "keep-namespace", "port"}
      [] t = "namespace" -> {"keep-namespace"}
      [] t = "port"      -> {}

Kept(t) ==
    CASE t = "target"    -> {"extent", "keep-extent", "lun", "keep-lun", "name"} \cup Shared
      [] t = "extent"    -> {"lun", "keep-lun", "name"} \cup Shared
      [] t = "lun"       -> {"name"} \cup Shared
      [] t = "subsys"    -> {"namespace", "keep-namespace", "port", "name"} \cup Shared
      [] t = "namespace" -> {"port", "name"} \cup Shared
      [] OTHER           -> Shared

\* The row that CreateVolume is to have of table t.
ShareStands(r) ==
    LET c == call[r]  v == VolumeId(c)  d == Vol(v) IN
    c.method = "CreateVolume" =>
      /\ \A t \in Used : pc[r] \in Got(t) => Belongs(t, mem[r].ids[t], v)
      /\ \A t \in Used \ {"port"} : pc[r] \in Kept(t) => ds[d].ids[t] # 0
      /\ pc[r] = "keep-target" => table["target"][mem[r].ids["target"]] = <<v, TRUE>>
      /\ pc[r] \in {"name"} \cup Shared /\ kind = "nvmeof" => \E i \in Ids : Belongs("port", i, v)

\* A volume that was acknowledged has all its rows, until its deletion is asked for, and
\* their ids are known for as long as they exist.
ShareIsKept(v) ==
    v \in DOMAIN promised /\ Vol(v) \in DOMAIN ds =>
      /\ \A t \in NamedTables : \A i \in Ids : Belongs(t, i, v) => ds[Vol(v)].ids[t] = i
      /\ ~ VolumeUnwanted(v) =>
           /\ \A t \in Used \ {"port"} : ds[Vol(v)].ids[t] # 0
           /\ kind = "nvmeof" => \E i \in Ids : Belongs("port", i, v)

\* The places at which DeleteVolume will still look at the id it read, and those at which
\* it takes the row for gone.
Ahead(t) ==
    CASE t = "nfs"       -> {"ask-nfs", "delete-nfs"}
      [] t = "smb"       -> {"ask-smb", "delete-smb"}
      [] t = "target"    -> {"ask-target", "delete-target"}
      [] t = "extent"    -> {"ask-target", "delete-target", "inherit-target", "ask-extent",
                             "delete-extent"}
      [] t = "namespace" -> {"delete-namespace"}
      [] t = "subsys"    -> {"delete-namespace", "inherit-namespace", "delete-subsys"}

Gone(t) ==
    CASE t = "nfs"       -> {"inherit-nfs"} \cup Unshared
      [] t = "smb"       -> {"inherit-smb"} \cup Unshared
      [] t = "target"    -> {"inherit-target", "ask-extent", "delete-extent", "inherit-extent"}
                              \cup Unshared
      [] t = "extent"    -> {"inherit-extent"} \cup Unshared
      [] t = "namespace" -> {"inherit-namespace", "delete-subsys", "inherit-subsys"} \cup Unshared
      [] t = "subsys"    -> {"inherit-subsys"} \cup Unshared

\* What DeleteVolume knows of table t: the id that is written, and that the row it is about
\* to delete is its volume's; that a row it has passed is gone or was taken for gone, and
\* the one whose id it is about to remove is gone.
ShareGoes(r) ==
    LET v == call[r].volume  d == Vol(v) IN
    Is(r, "DeleteVolume") =>
      /\ pc[r] \in Unsharing => d \in DOMAIN ds
      /\ \A t \in NamedTables :
           /\ t \in Used /\ pc[r] \in Ahead(t) => mem[r].ids[t] = ds[d].ids[t]
           /\ pc[r] = Remove(t) /\ reuse => Belongs(t, mem[r].ids[t], v)
           /\ t \in Used /\ pc[r] \in Gone(t) =>
                \A i \in Ids : Belongs(t, i, v) => Forgotten(t, v) /\ pc[r] # Inherit(t)

\* All that is said of shares.
SharesAreSound ==
    /\ RowsAreSound
    /\ \A v \in Volumes : IdsAreSound(v) /\ ShareIsKept(v)
    /\ \A r \in Requests : ShareStands(r) /\ ShareGoes(r)

----------------------------------------------------------------------------
(* The invariant: snapshots.                                               *)

\* A snapshot has its dataset, which is whole; a clone has its origin, and a snapshot that
\* is marked to go with its last clone has one.
PoolIsSound ==
    /\ \A k \in DOMAIN snap : k[1] \in DOMAIN ds /\ ds[k[1]].whole
    /\ \A d \in DOMAIN ds : ds[d].origin # NoOrigin => ds[d].origin \in DOMAIN snap
    /\ \A k \in DOMAIN snap : snap[k].defer => Clones(k) # {}

\* A volume is the clone of what the call that created it copies, or of nothing.
OriginIs(d) ==
    /\ d[1] # "vol" => ds[d].origin = NoOrigin
    /\ \A v \in Volumes : d = Vol(v) =>
         /\ \E r \in Requests : Creates(r, v) /\ Sent(r)
         /\ \A r \in Requests : Creates(r, v) =>
               ds[d].origin = IF ByCloning(call[r]) THEN CopyFrom(call[r]) ELSE NoOrigin

\* An attached snapshot was asked for, and is marked only when its deletion was.
AttachedIs(k) ==
    k[2][1] = "csi" =>
      /\ \E r \in Requests : /\ Is(r, "CreateSnapshot") /\ ~ call[r].detached
                             /\ k = SnapOf(IdOf(call[r])) /\ Sent(r)
      /\ snap[k].defer => \E r \in Requests : /\ Is(r, "DeleteSnapshot") /\ Sent(r)
                                              /\ call[r].source[1] = "snapshot"
                                              /\ k = SnapOf(call[r].source)

\* What CreateSnapshot has made stands.
SnapshotStands(r) ==
    LET c == call[r]  d == Dest(c)  k == SnapOf(IdOf(c)) IN
    c.method = "CreateSnapshot" /\ ~ SnapshotUnwanted(IdOf(c)) =>
      /\ c.detached =>
           /\ pc[r] \in {"success", "reply", "done"} => ~ Receiving(d)
           /\ pc[r] \in {"reply", "done"} => d \in DOMAIN ds
      /\ ~ c.detached /\ pc[r] \in {"success", "reply", "done"} => k \in DOMAIN snap

\* DeleteVolume has listed the attached snapshots, and goes on only without any.
SnapshotsAreListed(r) ==
    LET d == Vol(call[r].volume) IN
    Is(r, "DeleteVolume") =>
      /\ pc[r] \in {"find"} \cup Unsharing \cup Unshared =>
           \A k \in SnapsOf(d) : k[2][1] = "csi" => k \in mem[r].listed
      /\ pc[r] = "destroy" => mem[r].listed = {}

\* All that is said of snapshots.
SnapshotsAreSound ==
    /\ PoolIsSound
    /\ \A d \in DOMAIN ds : OriginIs(d)
    /\ \A k \in DOMAIN snap : AttachedIs(k)
    /\ \A r \in Requests : SnapshotStands(r) /\ SnapshotsAreListed(r)

----------------------------------------------------------------------------
(* The invariant: what is left over.                                       *)

\* A deletion has read the origin of its volume, and a temporary one is marked before the
\* volume is destroyed, so that it goes with it.
VolumeGoes(r) ==
    LET c == call[r]  d == Vol(c.volume) IN
    c.method = "DeleteVolume" =>
      /\ pc[r] = "read" => mem[r].origin = NoOrigin
      /\ pc[r] \in {"find", "origin"} \cup Unsharing =>
           mem[r].origin = IF d \in DOMAIN ds THEN ds[d].origin ELSE NoOrigin
      /\ pc[r] \in {"managed", "destroy"} /\ d \in DOMAIN ds =>
           LET o == ds[d].origin IN o # NoOrigin /\ o[2][1] = "for-volume" => snap[o].defer
      /\ pc[r] \in {"reply", "done"} => d \notin DOMAIN ds

\* A temporary snapshot has a clone, or is needed by a call that copies it.
TemporaryIsHeld(k) ==
    (\E r \in Requests : Copies(call[r]) /\ k = CopyFrom(call[r])) =>
       \/ Clones(k) # {}
       \/ \E r \in Requests : /\ Copies(call[r]) /\ k = CopyFrom(call[r])
                              /\ pc[r] \in Holding \cup {"clone"}

\* The parent of detached snapshots has one, or is in the hands of a request that makes or
\* destroys one.
ContainerIsUsed(v) ==
    Con(v) \in DOMAIN ds =>
      \/ Details(v) # {}
      \/ \E r \in Requests : /\ Is(r, "CreateSnapshot") /\ call[r].detached
                             /\ call[r].volume = v /\ Unfinished(r)
      \/ \E r \in Requests : /\ Is(r, "DeleteSnapshot") /\ call[r].source[1] = "detached"
                             /\ call[r].source[2] = v /\ Unfinished(r) /\ pc[r] # "reply"

\* All that is said of leftovers.
Leftovers ==
    /\ \A r \in Requests : VolumeGoes(r)
    /\ \A k \in DOMAIN snap : TemporaryIsHeld(k)
    /\ \A v \in Volumes : ContainerIsUsed(v)

\* The inductive invariant.
IInv ==
    Types /\ Control /\ VolumesAreSound /\ SharesAreSound /\ SnapshotsAreSound /\ Leftovers

----------------------------------------------------------------------------
(* What comes after each step.                                             *)

\* The steps of a creation up to its share; those of createShare() and deleteShare().
Making == {"check", "create", "clone", "tmp", "run", "poll", "props", "strip", "untmp", "size"}

MakingShare ==
    {"look", "nfs", "keep-nfs", "smb", "keep-smb", "target", "groups", "keep-target",
     "extent", "keep-extent", "lun", "keep-lun", "name", "subsys", "keep-subsys",
     "namespace", "keep-namespace", "port"}

RemovingShare ==
    {"find", "ask-nfs", "delete-nfs", "inherit-nfs", "ask-smb", "delete-smb", "inherit-smb",
     "ask-target", "delete-target", "inherit-target", "ask-extent", "delete-extent",
     "inherit-extent", "delete-namespace", "inherit-namespace", "delete-subsys",
     "inherit-subsys"}

\* A sequence in which no step is there twice; one sequence after another.
Simple(s) == \A i, j \in 1..Len(s) : s[i] = s[j] => i = j

Join(s, t) == s \o t

\* A step is one of a call's.
StepOf(c, step) == \E n \in DOMAIN Steps(c) : Steps(c)[n] = step

\* A call takes the steps of s one after the other, and then the given one.
Leads(c, s, next) ==
    \A i \in 1..Len(s) :
      /\ StepOf(c, s[i])
      /\ StepAfter(c, s[i]) = IF i = Len(s) THEN next ELSE s[i + 1]

\* What comes after the steps that concern a table.
AfterPost(t) ==
    CASE t = "target" -> "groups"
      [] t = "port"   -> "name"
      [] OTHER        -> Keep(t)

AfterKeep(t) ==
    CASE t \in {"nfs", "smb"} -> "context"
      [] t = "target"         -> "extent"
      [] t = "extent"         -> "lun"
      [] t = "subsys"         -> "namespace"
      [] t = "namespace"      -> "port"
      [] t = "lun"            -> "name"

AfterInherit(t) ==
    CASE t = "target"    -> Ask("extent")
      [] t = "namespace" -> Remove("subsys")
      [] OTHER           -> "origin"

----------------------------------------------------------------------------
(* What the steps do.                                                      *)

IsFunction(f) == f = [x \in DOMAIN f |-> f[x]]

\* Faults are used up, and nothing that was overlooked is found again.
Worsens ==
    /\ faults' \in 0 .. faults
    /\ overlooked \subseteq overlooked'
    /\ overlooked' \subseteq overlooked \cup (NamedTables \X Volumes)

\* r's handler goes on to p, or ends with an error.
Moves(r, p) ==
    /\ Running(r) /\ pc' = [pc EXCEPT ![r] = p] /\ Worsens
    /\ UNCHANGED <<call, kind, drops, reuse, answer, promised, captured>>

Stalls(r) ==
    /\ Running(r) /\ pc' = [pc EXCEPT ![r] = "pending"]
    /\ mem' = [mem EXCEPT ![r] = Blank]
    /\ \E code \in Codes : answer' = [answer EXCEPT ![r] = code]
    /\ Worsens /\ UNCHANGED <<call, kind, drops, reuse, promised, captured, ds, snap>>

\* What becomes of the datasets,
Adds(d, new) ==
    /\ d \notin DOMAIN ds /\ IsFunction(ds') /\ DOMAIN ds' = DOMAIN ds \cup {d}
    /\ ds'[d] = new /\ \A x \in DOMAIN ds : ds'[x] = ds[x]

Changes(d, new) ==
    /\ d \in DOMAIN ds /\ IsFunction(ds') /\ DOMAIN ds' = DOMAIN ds
    /\ ds'[d] = new /\ \A x \in DOMAIN ds \ {d} : ds'[x] = ds[x]

Removes(d) ==
    /\ IsFunction(ds') /\ DOMAIN ds' = DOMAIN ds \ {d}
    /\ \A x \in DOMAIN ds' : ds'[x] = ds[x]

\* of the snapshots,
Captures(k, new) ==
    /\ k \notin DOMAIN snap /\ IsFunction(snap') /\ DOMAIN snap' = DOMAIN snap \cup {k}
    /\ snap'[k] = new /\ \A x \in DOMAIN snap : snap'[x] = snap[x]

Discards(gone) ==
    /\ IsFunction(snap') /\ DOMAIN snap' = DOMAIN snap \ gone
    /\ \A k \in DOMAIN snap' : snap'[k] = snap[k]

Releases(some) ==
    /\ IsFunction(snap') /\ DOMAIN snap' = {k \in DOMAIN snap : k \in some => Clones(k) # {}}
    /\ \A k \in DOMAIN snap' :
         snap'[k] = IF k \in some THEN [snap[k] EXCEPT !.defer = TRUE] ELSE snap[k]

\* and of the rows.
IsTable(x) == x = [t \in Tables |-> [i \in Ids |-> x[t][i]]]

Inserts(t, i, row) ==
    /\ i \in Ids /\ IsTable(table')
    /\ \A u \in Tables, j \in Ids :
         table'[u][j] = IF u = t /\ j = i THEN row ELSE table[u][j]

Erases(t, i) ==
    /\ i \in Rows(t) /\ IsTable(table')
    /\ \A u \in Tables, j \in Ids :
         table'[u][j] = IF (u = t /\ j = i) \/ RefersTo(u, j, t, i)
                        THEN IF reuse THEN Free ELSE Spent
                        ELSE table[u][j]

\* What comes of the step of r's handler that is at hand.
Handles(r, here) ==
    /\ \A step : SkipPast(r, step) => Moves(r, StepAfter(call[r], step))
    /\ Proceed(r) => Moves(r, StepAfter(call[r], here)) /\ UNCHANGED mem
    /\ \A code \in {"UNKNOWN", "ALREADY_EXISTS", "NOT_FOUND", "FAILED_PRECONDITION"} :
         Throw(r, code) => Stalls(r) /\ UNCHANGED table
    /\ \A new : Set(r, new) =>
         \/ Stalls(r) /\ UNCHANGED table
         \/ /\ Moves(r, StepAfter(call[r], here)) /\ UNCHANGED <<mem, snap, table>>
            /\ Changes(Dest(call[r]), new)

----------------------------------------------------------------------------
(* The actions of the handlers, when they do not end with an error.        *)

\* Those of CreateVolume and of its copy,
DoesCheckSize(r) ==
    /\ pc[r] = "check"
    /\ Is(r, "CreateVolume")
    /\ Moves(r, IF call[r].source[1] = "none" THEN "create"
                ELSE IF call[r].source[1] = "snapshot" THEN "clone" ELSE "tmp")
    /\ Dest(call[r]) \in DOMAIN ds /\ Zvols => ~ Conflict(call[r], ds[Dest(call[r])].size)
    /\ UNCHANGED <<mem, ds, snap, table>>

DoesCreate(r) ==
    /\ pc[r] = "create"
    /\ Is(r, "CreateVolume") /\ call[r].source[1] = "none"
    /\ Moves(r, "size") /\ UNCHANGED <<mem, snap, table>>
    /\ LET d == Dest(call[r]) IN
         IF d \in DOMAIN ds THEN ds' = ds
         ELSE Adds(d, Dataset(NoOrigin, IF Zvols THEN call[r].size ELSE 0, {"managed"}, TRUE))

DoesTakeTemporary(r) ==
    /\ pc[r] = "tmp"
    /\ Copies(call[r]) /\ From(call[r]) \in DOMAIN ds
    /\ Moves(r, IF call[r].detached THEN "run" ELSE "clone") /\ UNCHANGED <<mem, ds, table>>
    /\ LET k == CopyFrom(call[r]) IN
         IF k \in DOMAIN snap THEN snap' = snap
         ELSE Captures(k, [size |-> ds[k[1]].size, managed |-> FALSE, defer |-> FALSE])

DoesClone(r) ==
    /\ pc[r] = "clone"
    /\ Is(r, "CreateVolume") /\ ByCloning(call[r]) /\ CopyFrom(call[r]) \in DOMAIN snap
    /\ Moves(r, IF call[r].source[1] = "detached" THEN "untmp" ELSE "size")
    /\ UNCHANGED <<mem, snap, table>>
    /\ LET d == Dest(call[r])  k == CopyFrom(call[r]) IN
         IF d \in DOMAIN ds THEN ds' = ds ELSE Adds(d, Dataset(k, snap[k].size, {"managed"}, TRUE))

DoesRunReplication(r) ==
    /\ pc[r] = "run"
    /\ Replicates(call[r]) /\ Moves(r, "poll") /\ UNCHANGED <<snap, table>>
    /\ LET d == Dest(call[r])  k == CopyFrom(call[r]) IN
         /\ mem' = [mem EXCEPT ![r].job = Rejection(k, d)]
         /\ IF Rejection(k, d) = "RUNNING" THEN Adds(d, Dataset(NoOrigin, snap[k].size, {}, FALSE))
                                           ELSE ds' = ds

DoesWaitForJob(r) ==
    /\ pc[r] = "poll"
    /\ Replicates(call[r]) /\ mem[r].job \notin {"RUNNING", "FAILED"}
    /\ Moves(r, "props") /\ UNCHANGED <<mem, ds, snap, table>>

DoesSetProperties(r) ==
    /\ pc[r] = "props"
    /\ Replicates(call[r]) /\ Moves(r, "strip") /\ UNCHANGED <<mem, snap, table>>
    /\ Changes(Dest(call[r]), [ds[Dest(call[r])] EXCEPT !.has = @ \cup {"managed"}])

DoesStripSnapshots(r) ==
    /\ pc[r] = "strip"
    /\ Replicates(call[r]) /\ Moves(r, "untmp") /\ UNCHANGED <<mem, ds, table>>
    /\ Releases(IF Is(r, "CreateSnapshot") THEN {<<Dest(call[r]), Tag(call[r])>>}
                                           ELSE SnapsOf(Dest(call[r])))

DoesDropTemporary(r) ==
    /\ pc[r] = "untmp"
    /\ Copies(call[r]) /\ ~ Receiving(Dest(call[r]))
    /\ Is(r, "CreateVolume") => call[r].source[1] = "detached" \/ call[r].detached
    /\ Moves(r, IF Is(r, "CreateSnapshot") THEN "success" ELSE "size")
    /\ UNCHANGED <<mem, ds, table>>
    /\ Releases({CopyFrom(call[r])})

DoesSetSize(r) ==
    /\ pc[r] = "size"
    /\ Is(r, "CreateVolume") /\ Moves(r, "look") /\ UNCHANGED <<mem, snap, table>>
    /\ IF Zvols THEN Changes(Dest(call[r]), [ds[Dest(call[r])] EXCEPT !.size = call[r].size])
                ELSE ds' = ds

DoesResize(r) ==
    /\ pc[r] = "resize"
    /\ Is(r, "ControllerExpandVolume") /\ Moves(r, "reply") /\ UNCHANGED <<mem, snap, table>>
    /\ IF Zvols THEN Changes(Dest(call[r]), [ds[Dest(call[r])] EXCEPT !.size = call[r].size])
                ELSE ds' = ds

DoesSetContext(r) ==
    /\ pc[r] = "context"
    /\ Is(r, "CreateVolume") /\ Moves(r, "success") /\ UNCHANGED <<mem, snap, table>>
    /\ Changes(Dest(call[r]), [ds[Dest(call[r])] EXCEPT !.has = @ \cup {"context"}])

DoesSetSuccess(r) ==
    /\ pc[r] = "success"
    /\ Moves(r, "reply") /\ UNCHANGED <<mem, snap, table>>
    /\ \/ /\ Is(r, "CreateVolume") \/ (Is(r, "CreateSnapshot") /\ call[r].detached)
          /\ Changes(Dest(call[r]), [ds[Dest(call[r])] EXCEPT !.has = @ \cup {"success"}])
       \/ /\ Is(r, "CreateSnapshot") /\ ~ call[r].detached /\ SnapOf(IdOf(call[r])) \in DOMAIN snap
          /\ ds' = ds

\* of createShare(),
DoesLookUp(r) ==
    /\ pc[r] = "look"
    /\ Is(r, "CreateVolume") /\ Dest(call[r]) \in DOMAIN ds /\ UNCHANGED <<mem, ds, snap, table>>
    /\ Moves(r, IF Complete(ds[Dest(call[r])].ids)
                THEN IF kind = "iscsi" THEN "name" ELSE "context"
                ELSE CASE kind = "nfs"   -> "nfs"
                       [] kind = "smb"   -> "smb"
                       [] kind = "iscsi" -> "target"
                       [] OTHER          -> "subsys")

DoesPost(r, t) ==
    /\ pc[r] = t
    /\ Is(r, "CreateVolume") /\ t \in Used /\ Moves(r, AfterPost(t)) /\ UNCHANGED <<ds, snap>>
    /\ \E i \in Ids :
         /\ mem' = [mem EXCEPT ![r].ids[t] = i]
         /\ \/ Absent(r, t) /\ table[t][i] = Free /\ Inserts(t, i, RowOf(r, t))
            \/ /\ i \in Conflicts(t, RowOf(r, t)) /\ Same(t, table[t][i], RowOf(r, t))
               /\ table' = table

DoesSetGroups(r) ==
    /\ pc[r] = "groups"
    /\ Is(r, "CreateVolume") /\ kind = "iscsi"
    /\ Moves(r, "keep-target") /\ UNCHANGED <<mem, ds, snap>>
    /\ LET i == mem[r].ids["target"] IN
         i \in Rows("target") /\ Inserts("target", i, <<table["target"][i][1], TRUE>>)

DoesKeepId(r, t) ==
    /\ pc[r] = Keep(t)
    /\ Is(r, "CreateVolume") /\ t \in Used \ {"port"} /\ Moves(r, AfterKeep(t))
    /\ UNCHANGED <<mem, snap, table>>
    /\ Changes(Dest(call[r]), [ds[Dest(call[r])] EXCEPT !.ids[t] = mem[r].ids[t]])

DoesSetName(r) ==
    /\ pc[r] = "name"
    /\ Is(r, "CreateVolume") /\ kind \in {"iscsi", "nvmeof"}
    /\ Moves(r, "context") /\ UNCHANGED <<mem, snap, table>>
    /\ Changes(Dest(call[r]), [ds[Dest(call[r])] EXCEPT !.has = @ \cup {"name"}])

\* of deleteShare(),
DoesFindShare(r) ==
    /\ pc[r] = "find"
    /\ Is(r, "DeleteVolume") /\ UNCHANGED <<ds, snap, table>>
    /\ IF Dest(call[r]) \in DOMAIN ds
       THEN /\ mem' = [mem EXCEPT ![r].ids = ds[Dest(call[r])].ids]
            /\ Moves(r, CASE kind = "nfs"   -> "ask-nfs"
                          [] kind = "smb"   -> "ask-smb"
                          [] kind = "iscsi" -> "ask-target"
                          [] OTHER          -> "delete-namespace")
       ELSE mem' = mem /\ Moves(r, "origin")

DoesAskFor(r, t) ==
    /\ pc[r] = Ask(t)
    /\ Is(r, "DeleteVolume") /\ t \in Used \ {"lun", "port", "subsys", "namespace"}
    /\ \/ Own(r, t, mem[r].ids[t]) /\ Moves(r, Remove(t))
       \/ /\ Own(r, t, mem[r].ids[t]) => <<t, call[r].volume>> \in overlooked'
          /\ Moves(r, AfterInherit(t))
    /\ UNCHANGED <<mem, ds, snap, table>>

DoesDeleteRow(r, t) ==
    /\ pc[r] = Remove(t)
    /\ Is(r, "DeleteVolume") /\ t \in Used \ {"lun", "port"} /\ UNCHANGED <<mem, ds, snap>>
    /\ LET i == mem[r].ids[t] IN
         \/ i = 0 /\ Moves(r, AfterInherit(t)) /\ table' = table
         \/ i \in Rows(t) /\ Moves(r, Inherit(t)) /\ Erases(t, i)
         \/ i \in Ids \ Rows(t) /\ Moves(r, Inherit(t)) /\ table' = table

DoesInheritId(r, t) ==
    /\ pc[r] = Inherit(t)
    /\ Is(r, "DeleteVolume") /\ t \in Used \ {"lun", "port"} /\ Moves(r, AfterInherit(t))
    /\ UNCHANGED <<mem, snap, table>>
    /\ Changes(Dest(call[r]), [ds[Dest(call[r])] EXCEPT !.ids[t] = 0])

\* of DeleteVolume,
DoesReadDataset(r) ==
    /\ pc[r] = "read"
    /\ Is(r, "DeleteVolume") /\ Moves(r, "find") /\ UNCHANGED <<ds, snap, table>>
    /\ LET d == Dest(call[r]) IN
         mem' = IF d \in DOMAIN ds
                THEN [mem EXCEPT ![r].origin = ds[d].origin, ![r].listed = SnapsOf(d)]
                ELSE mem

DoesDeferOrigin(r) ==
    /\ pc[r] = "origin"
    /\ Is(r, "DeleteVolume") /\ Moves(r, "managed") /\ UNCHANGED <<mem, ds, table>>
    /\ IF mem[r].origin # NoOrigin /\ mem[r].origin[2][1] = "for-volume"
       THEN Releases({mem[r].origin})
       ELSE snap' = snap

DoesCheckManaged(r) ==
    /\ pc[r] = "managed"
    /\ Is(r, "DeleteVolume") /\ Moves(r, "destroy") /\ mem[r].listed = {}
    /\ UNCHANGED <<mem, ds, snap, table>>

DoesDestroyVolume(r) ==
    /\ pc[r] = "destroy"
    /\ Is(r, "DeleteVolume") /\ Moves(r, "reply") /\ UNCHANGED <<mem, table>>
    /\ LET d == Dest(call[r]) IN
         /\ ~ HasClones(d) /\ ~ Receiving(d) /\ Removes(d)
         /\ Discards(SnapsOf(d) \cup {k \in DOMAIN snap : snap[k].defer /\ Clones(k) = {d}})

\* and of CreateSnapshot and DeleteSnapshot.
DoesCheckName(r) ==
    /\ pc[r] = "check"
    /\ Is(r, "CreateSnapshot") /\ ~ NameTaken(call[r])
    /\ Moves(r, IF call[r].detached THEN "container" ELSE "take")
    /\ UNCHANGED <<mem, ds, snap, table>>

DoesTakeSnapshot(r) ==
    /\ pc[r] = "take"
    /\ Is(r, "CreateSnapshot") /\ ~ call[r].detached /\ From(call[r]) \in DOMAIN ds
    /\ Moves(r, "success") /\ UNCHANGED <<mem, ds, table>>
    /\ LET k == SnapOf(IdOf(call[r])) IN
         IF k \in DOMAIN snap THEN snap' = snap
         ELSE Captures(k, [size |-> ds[k[1]].size, managed |-> TRUE, defer |-> FALSE])

DoesCreateContainer(r) ==
    /\ pc[r] = "container"
    /\ Is(r, "CreateSnapshot") /\ call[r].detached
    /\ Moves(r, "tmp") /\ UNCHANGED <<mem, snap, table>>
    /\ LET d == Con(call[r].volume) IN
         IF d \in DOMAIN ds THEN ds' = ds ELSE Adds(d, Dataset(NoOrigin, 0, {}, TRUE))

DoesReleaseSnapshot(r) ==
    /\ pc[r] = "release"
    /\ Is(r, "DeleteSnapshot") /\ call[r].source[1] # "detached"
    /\ Moves(r, "reply") /\ UNCHANGED <<mem, ds, table>>
    /\ Releases({SnapOf(call[r].source)})

DoesDestroyDetached(r) ==
    /\ pc[r] = "destroy"
    /\ Is(r, "DeleteSnapshot") /\ call[r].source[1] = "detached"
    /\ Moves(r, "uncontain") /\ UNCHANGED <<mem, table>>
    /\ LET d == Dest(call[r]) IN
         /\ ~ HasClones(d) /\ ~ Receiving(d) /\ Removes(d)
         /\ Discards(SnapsOf(d) \cup {k \in DOMAIN snap : snap[k].defer /\ Clones(k) = {d}})

DoesDestroyContainer(r) ==
    /\ pc[r] = "uncontain"
    /\ Is(r, "DeleteSnapshot") /\ call[r].source[1] = "detached"
    /\ Moves(r, "reply") /\ UNCHANGED <<mem, snap, table>>
    /\ IF Details(call[r].source[2]) # {} THEN ds' = ds ELSE Removes(Con(call[r].source[2]))

\* All of them.
Works(r) ==
    \/ DoesCheckSize(r) \/ DoesCreate(r) \/ DoesTakeTemporary(r) \/ DoesClone(r)
    \/ DoesRunReplication(r) \/ DoesWaitForJob(r) \/ DoesSetProperties(r) \/ DoesStripSnapshots(r)
    \/ DoesDropTemporary(r) \/ DoesSetSize(r) \/ DoesResize(r) \/ DoesSetContext(r)
    \/ DoesSetSuccess(r) \/ DoesLookUp(r) \/ DoesSetGroups(r) \/ DoesSetName(r)
    \/ DoesFindShare(r) \/ DoesReadDataset(r) \/ DoesDeferOrigin(r) \/ DoesCheckManaged(r)
    \/ DoesDestroyVolume(r) \/ DoesCheckName(r) \/ DoesTakeSnapshot(r) \/ DoesCreateContainer(r)
    \/ DoesReleaseSnapshot(r) \/ DoesDestroyDetached(r) \/ DoesDestroyContainer(r)
    \/ \E t \in Tables :
         \/ DoesPost(r, t) \/ DoesKeepId(r, t) \/ DoesAskFor(r, t) \/ DoesDeleteRow(r, t)
         \/ DoesInheritId(r, t)

----------------------------------------------------------------------------
(* The actions that are no handler's, and what the steps have in common.   *)

\* The steps that are no handler's: a target without its groups and an error; a call of the
\* driver that is repeated; the ends of a replication job.
HalfPosts(r) ==
    /\ pc[r] = "target" /\ Is(r, "CreateVolume") /\ kind = "iscsi" /\ Stalls(r)
    /\ Absent(r, "target")
    /\ \E i \in Ids : table["target"][i] = Free /\ Inserts("target", i, <<Mine(r), FALSE>>)

StaysPut ==
    /\ Worsens
    /\ UNCHANGED <<call, kind, drops, reuse, pc, answer, promised, captured, ds, snap, mem>>

Repeats(r, t) ==
    /\ drops /\ Running(r) /\ StaysPut
    /\ \/ /\ pc[r] = t /\ t \in {"nfs", "smb"} /\ t \in Used /\ Is(r, "CreateVolume")
          /\ Absent(r, t)
          /\ \E i \in Ids : table[t][i] = Free /\ Inserts(t, i, RowOf(r, t))
       \/ /\ pc[r] = Remove(t) /\ Is(r, "DeleteVolume") /\ t \in Used \ {"lun", "port"}
          /\ Erases(t, mem[r].ids[t])

JobIs(d, state) ==
    /\ IsFunction(mem') /\ DOMAIN mem' = Requests
    /\ \A q \in Requests : mem'[q] = IF mem[q].job = "RUNNING" /\ Dest(call[q]) = d
                                     THEN [mem[q] EXCEPT !.job = state] ELSE mem[q]

JobCloses(r) ==
    /\ Filling(r) /\ Worsens
    /\ UNCHANGED <<call, kind, drops, reuse, pc, answer, promised, captured, table>>
    /\ LET d == Dest(call[r])  k == <<d, Tag(call[r])>> IN
         \/ /\ Changes(d, [ds[d] EXCEPT !.whole = TRUE]) /\ JobIs(d, "SUCCESS")
            /\ IF k \in DOMAIN snap THEN snap' = snap
               ELSE Captures(k, [size |-> ds[d].size, managed |-> FALSE, defer |-> FALSE])
         \/ Removes(d) /\ snap' = snap /\ JobIs(d, "FAILED")

\* The step a handler starts with.
First(c) ==
    CASE c.method \in {"CreateVolume", "CreateSnapshot"} -> "check"
      [] c.method = "DeleteVolume"                       -> "read"
      [] c.method = "ControllerExpandVolume"             -> "resize"
      [] OTHER -> IF c.source[1] = "detached" THEN "destroy" ELSE "release"

\* The steps that set properties of a dataset.
Adjusts(r) ==
    \/ DoesSetProperties(r) \/ DoesSetSize(r) \/ DoesResize(r) \/ DoesSetContext(r)
    \/ DoesSetSuccess(r) \/ DoesSetName(r)
    \/ \E t \in Tables : DoesKeepId(r, t) \/ DoesInheritId(r, t)

\* What is sent stays sent, what is done stays done, and nothing that was answered OK is
\* forgotten.
Forward ==
    /\ UNCHANGED <<call, kind, drops, reuse>> /\ Worsens
    /\ \A q \in Requests : (Sent(q) => Sent(q)') /\ (pc[q] = "done" => pc'[q] = "done")
    /\ DOMAIN promised \subseteq DOMAIN promised' /\ DOMAIN captured \subseteq DOMAIN captured'

\* No request is begun or ended.
Onward ==
    /\ UNCHANGED <<call, kind, drops, reuse, promised, captured>> /\ Worsens
    /\ DOMAIN pc' = Requests /\ IsFunction(pc')
    /\ \A q \in Requests :
         \/ pc'[q] = pc[q]
         \/ Running(q) /\ pc'[q] \in Places(call[q]) \cup {"reply", "pending"}

\* The snapshots that a step lets go of: with defer, at once or with their last clone.
Frees(r, k) ==
    \/ /\ DoesStripSnapshots(r)
       /\ IF Is(r, "CreateSnapshot") THEN k = <<Dest(call[r]), Tag(call[r])>>
                                     ELSE k[1] = Dest(call[r])
    \/ DoesDropTemporary(r) /\ k = CopyFrom(call[r])
    \/ DoesDeferOrigin(r) /\ k = mem[r].origin /\ k # NoOrigin /\ k[2][1] = "for-volume"
    \/ DoesReleaseSnapshot(r) /\ k = SnapOf(call[r].source)

\* The steps that destroy a dataset with its snapshots.
Destroys(r) == DoesDestroyVolume(r) \/ DoesDestroyDetached(r)

\* The steps that make a row, and those that erase some.
Posting(r, t, i) ==
    /\ Running(r) /\ Is(r, "CreateVolume") /\ pc[r] = t /\ t \in Used /\ ds' = ds
    /\ i \in Ids /\ table[t][i] = Free /\ Absent(r, t)
    /\ Inserts(t, i, RowOf(r, t)) \/ (t = "target" /\ Inserts(t, i, <<Mine(r), FALSE>>))

Erasing(r, t) ==
    /\ Running(r) /\ Is(r, "DeleteVolume") /\ pc[r] = Remove(t) /\ t \in Used \ {"lun", "port"}
    /\ ds' = ds /\ Erases(t, mem[r].ids[t]) /\ (DoesDeleteRow(r, t) \/ drops)

\* What becomes of the rows: those of volume v in table t are joined by a row i, or row i
\* of v goes with what refers to it.
Posted(r, t, i, v) ==
    /\ Posting(r, t, i)
    /\ Creates(r, v) /\ Running(r) /\ pc[r] = t /\ t \in Used /\ ds' = ds
    /\ ~ VolumeUnwanted(v) /\ Vol(v) \in DOMAIN ds /\ ds[Vol(v)].whole
    /\ \A j : ~ Belongs(t, j, v)
    /\ \A u \in Tables : \A j, w :
         Belongs(u, j, w)' <=> (Belongs(u, j, w) \/ (u = t /\ j = i /\ w = v))
    /\ \A u \in Tables : \A j : j \in Rows(u)' <=> (j \in Rows(u) \/ (u = t /\ j = i))
    /\ \A u \in Tables : \A j \in Ids : u # t \/ j # i => table'[u][j] = table[u][j]

Erased(r, t, i, v) ==
    /\ Deletes(r, v) /\ Running(r) /\ VolumeUnwanted(v) /\ Vol(v) \in DOMAIN ds
    /\ pc[r] = Remove(t) /\ t \in Used /\ t \in NamedTables /\ i = mem[r].ids[t] /\ ds' = ds
    /\ Belongs(t, i, v) /\ Erases(t, i) /\ (DoesDeleteRow(r, t) \/ drops)
    /\ \A u \in Tables : \A j, w :
         /\ Belongs(u, j, w)' => Belongs(u, j, w) /\ (u # t \/ j # i)
         /\ Belongs(u, j, w) =>
              \/ Belongs(u, j, w)'
              \/ w = v /\ table'[u][j] = (IF reuse THEN Free ELSE Spent)
         /\ j \in Rows(u)' => j \in Rows(u) /\ table'[u][j] = table[u][j]

\* r makes a detached snapshot of v; r destroys one.
Makes(r, v) == Is(r, "CreateSnapshot") /\ call[r].detached /\ call[r].volume = v
Unmakes(r, v) ==
    Is(r, "DeleteSnapshot") /\ call[r].source[1] = "detached" /\ call[r].source[2] = v

=============================================================================
