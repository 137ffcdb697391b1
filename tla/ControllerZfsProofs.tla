------------------------- MODULE ControllerZfsProofs -------------------------
(***************************************************************************)
(* Theorems about ControllerZfs, for every plan of well-formed calls, set  *)
(* of volumes and names, kind of resource, and number of writes and        *)
(* failures.                                                               *)
(*                                                                         *)
(* The invariant has layers.  Control says who may be at what: the lock    *)
(* keeps the handlers of one volume apart, and the CO deletes nothing that *)
(* it still asks for.  PoolIsSound and Origins are what zfs keeps, and     *)
(* which call each clone comes from.  VolumesAreSound and                  *)
(* SnapshotsAreSound say what a call has done when it is at a step, and    *)
(* that nobody undoes it; Data follows what was written through snapshots, *)
(* clones and received streams; Leftovers says who will destroy what is    *)
(* temporary.                                                              *)
(*                                                                         *)
(* The proof first says once what each action does to the pool, and then   *)
(* which steps may create, change or destroy a given dataset or snapshot;  *)
(* the layers are proved from these lemmas and not from the actions.       *)
(***************************************************************************)
EXTENDS ControllerZfs, TLAPS

----------------------------------------------------------------------------
(* The vocabulary of the invariant.                                        *)

\* What request r is for: the volume v, the snapshot with the id sid.
Creates(r, v) == Is(r, "CreateVolume") /\ VolumeId(call[r]) = v
Deletes(r, v) == Is(r, "DeleteVolume") /\ call[r].volume = v
Expands(r, v) == Is(r, "ControllerExpandVolume") /\ call[r].volume = v
Takes(r, sid) == Is(r, "CreateSnapshot") /\ IdOf(call[r]) = sid
Drops(r, sid) == Is(r, "DeleteSnapshot") /\ call[r].source = sid

\* Their deletion has been asked for.
VolumeUnwanted(v) == \E r \in Requests : Deletes(r, v) /\ Sent(r)
SnapshotUnwanted(sid) == \E r \in Requests : Drops(r, sid) /\ Sent(r)

\* Whether a creation copies something, by zfs clone or by zfs send and receive.
Copies(c) == c.source[1] # "none"
Received(c) == Copies(c) /\ c.detached
Cloned(c) == Copies(c) /\ ~ c.detached

\* Where a handler can be.
StepNames ==
    {"check", "create", "clone", "receive", "props", "strip", "tmp", "untmp", "size",
     "share", "context", "success", "container", "take", "read", "unshare", "origin",
     "managed", "destroy", "uncontain", "release"}

Places == StepNames \cup {"idle", "pending", "reply", "done"}

\* A handler takes the steps of its call only.
InItsPlace(r) ==
    LET c == call[r] IN
    /\ pc[r] \in Places
    /\ pc[r] = "create" => c.method = "CreateVolume" /\ ~ Copies(c)
    /\ pc[r] = "clone" => c.method = "CreateVolume" /\ Cloned(c)
    /\ pc[r] \in {"receive", "props", "strip"} =>
         c.detached /\ (c.method = "CreateSnapshot" \/ (c.method = "CreateVolume" /\ Copies(c)))
    /\ pc[r] = "tmp" => \/ c.method = "CreateVolume" /\ c.source[1] \in {"volume", "detached"}
                        \/ c.method = "CreateSnapshot" /\ c.detached
    /\ pc[r] = "untmp" => \/ c.method = "CreateVolume" /\ c.source[1] = "detached"
                          \/ c.method = "CreateVolume" /\ c.source[1] = "volume" /\ c.detached
                          \/ c.method = "CreateSnapshot" /\ c.detached
    /\ pc[r] \in {"share", "context"} => c.method = "CreateVolume"
    /\ pc[r] = "size" => c.method \in {"CreateVolume", "ControllerExpandVolume"}
    /\ pc[r] \in {"check", "success"} => c.method \in {"CreateVolume", "CreateSnapshot"}
    /\ pc[r] = "container" => c.method = "CreateSnapshot" /\ c.detached
    /\ pc[r] = "take" => c.method = "CreateSnapshot" /\ ~ c.detached
    /\ pc[r] \in {"read", "unshare", "origin", "managed"} => c.method = "DeleteVolume"
    /\ pc[r] = "destroy" => \/ c.method = "DeleteVolume"
                            \/ c.method = "DeleteSnapshot" /\ c.source[1] = "detached"
    /\ pc[r] = "uncontain" => c.method = "DeleteSnapshot" /\ c.source[1] = "detached"
    /\ pc[r] = "release" => c.method = "DeleteSnapshot" /\ c.source[1] = "snapshot"

\* The names and the properties of what is in the pool.
Tags == ({"csi"} \X SnapshotNames) \cup ({"for-volume"} \X Volumes)
          \cup ({"for-snapshot"} \X SnapshotNames)
Vols == {Vol(v) : v \in Volumes}
Cons == {Con(v) : v \in Volumes}
Dets == {Det(v, s) : v \in Volumes, s \in SnapshotNames}
SnapNames == (Vols \cup Dets) \X Tags
Dataset == [content : 0..MaxWrites, origin : SnapNames \cup {NoOrigin}, size : Nat,
            managed : BOOLEAN, context : BOOLEAN, success : BOOLEAN]
Snapshotted == [content : 0..MaxWrites, size : Nat, managed : BOOLEAN, defer : BOOLEAN]

----------------------------------------------------------------------------
(* The invariant: types, and who may be at what.                           *)

\* The types of the variables.
Types ==
    /\ call \in Plans /\ resourceType \in ResourceTypes
    /\ pc \in [Requests -> Places]
    /\ \A r \in Requests : InItsPlace(r)
    /\ origin \in [Requests -> SnapNames \cup {NoOrigin}]
    /\ answer \in [Requests -> {"none", "OK", "UNKNOWN", "ALREADY_EXISTS", "NOT_FOUND",
                           "FAILED_PRECONDITION"}]
    /\ since \in [Requests -> 0..MaxWrites]
    /\ DOMAIN ds \subseteq Vols \cup Cons \cup Dets
    /\ ds = [d \in DOMAIN ds |-> ds[d]] 
    /\ \A d \in DOMAIN ds : ds[d] \in Dataset
    /\ DOMAIN snap \subseteq SnapNames
    /\ snap = [k \in DOMAIN snap |-> snap[k]]
    /\ \A k \in DOMAIN snap : snap[k] \in Snapshotted
    /\ shares \subseteq Vols
    /\ DOMAIN promised \subseteq Volumes /\ \A v \in DOMAIN promised : promised[v] \in Nat
    /\ DOMAIN captured \subseteq SnapshotIds
    /\ writes \in 0..MaxWrites /\ faults \in 0..MaxFaults

\* What the CO asks to delete is no longer being made, and of two expansions of a volume
\* one is finished.
UnwantedIsSettled ==
    \A q, r \in Requests : Sent(q) =>
      /\ \A v \in Volumes : Deletes(q, v) /\ Creates(r, v) => ~ Unfinished(r)
      /\ \A v \in Volumes : Expands(q, v) /\ Creates(r, v) => pc[r] = "done"
      /\ \A v \in Volumes : Expands(q, v) /\ Expands(r, v) /\ q # r
                               => ~ (Unfinished(q) /\ Unfinished(r))
      /\ \A sid \in SnapshotIds : Drops(q, sid) /\ Takes(r, sid) => ~ Unfinished(r)

\* The lock: no two handlers that run have a key in common.
Exclusive ==
    \A q, r \in Requests : q # r /\ Running(q) /\ Running(r)
        => Keys(call[q]) \cap Keys(call[r]) = {}

\* What was ever acknowledged was made by a request that is done, and a request that is
\* done asked for the size that is promised.
PromisesAreMade ==
    /\ \A v \in DOMAIN promised : \E r \in Requests : Creates(r, v) /\ pc[r] = "done"
    /\ \A sid \in DOMAIN captured : \E r \in Requests : Takes(r, sid) /\ pc[r] = "done"
    /\ \A v \in DOMAIN promised : \E r \in Requests :
         (Creates(r, v) \/ Expands(r, v)) /\ pc[r] = "done" /\ call[r].size = promised[v]

\* A request that has been sent names what has been acknowledged.
SourceWasMade(r) ==
    LET c == call[r] IN
    Sent(r) =>
      /\ c.method \in {"DeleteVolume", "ControllerExpandVolume", "CreateSnapshot"}
           => c.volume \in DOMAIN promised
      /\ c.method = "DeleteSnapshot" => c.source \in DOMAIN captured
      /\ c.method = "CreateVolume" =>
           /\ c.source[1] = "volume" => c.source[2] \in DOMAIN promised
           /\ c.source[1] \in {"snapshot", "detached"} => c.source \in DOMAIN captured

\* All of them.
Control ==
    /\ UnwantedIsSettled /\ Exclusive /\ PromisesAreMade
    /\ \A r \in Requests : SourceWasMade(r)

----------------------------------------------------------------------------
(* The invariant: the pool.                                                *)

\* A snapshot has its dataset, a clone its origin, a share its volume; a snapshot that is
\* marked to go with its last clone has one.
PoolIsSound ==
    /\ \A k \in DOMAIN snap : k[1] \in DOMAIN ds
    /\ \A d \in DOMAIN ds : ds[d].origin # NoOrigin => ds[d].origin \in DOMAIN snap
    /\ shares \subseteq DOMAIN ds
    /\ \A k \in DOMAIN snap : snap[k].defer => Clones(k) # {}

\* A volume is the clone of what the call that created it copies, or of nothing.
OriginIs(d) ==
    /\ d[1] # "vol" => ds[d].origin = NoOrigin
    /\ \A v \in Volumes : d = Vol(v) =>
         /\ \E r \in Requests : Creates(r, v) /\ Sent(r)
         /\ \A r \in Requests : Creates(r, v) =>
               ds[d].origin = IF Cloned(call[r]) THEN CopyFrom(call[r]) ELSE NoOrigin

\* Every dataset has the origin it should have.
Origins == \A d \in DOMAIN ds : OriginIs(d)

----------------------------------------------------------------------------
(* The invariant: volumes.                                                 *)

\* The places at which CreateVolume has made the dataset.
MadeSteps ==
    {"props", "strip", "untmp", "size", "share", "context", "success", "reply", "done"}

\* What CreateVolume has done stands, place by place, unless the deletion was asked for.
\* It got past its check with no less than what was promised before.
VolumeStands(r) ==
    LET c == call[r]  d == Vol(VolumeId(c)) IN
    c.method = "CreateVolume" =>
      /\ pc[r] \in MadeSteps /\ ~ VolumeUnwanted(VolumeId(c)) =>
           /\ d \in DOMAIN ds
           /\ pc[r] \in {"context", "success", "reply", "done"} => d \in shares
           /\ pc[r] \in {"success", "reply", "done"} => ds[d].context
           /\ pc[r] \in {"reply", "done"} => ds[d].success
           /\ pc[r] \in {"share", "context", "success", "reply"} /\ Sized => ds[d].size >= c.size
      /\ Running(r) /\ pc[r] # "check" /\ Sized /\ VolumeId(c) \in DOMAIN promised
           => c.size >= promised[VolumeId(c)]

\* An expansion is of no less than what was promised, and has set the size before it
\* answers.
VolumeExpands(r) ==
    LET c == call[r]  d == Vol(c.volume) IN
    c.method = "ControllerExpandVolume" =>
      /\ Unfinished(r) => c.size >= promised[c.volume]
      /\ pc[r] = "reply" /\ ~ VolumeUnwanted(c.volume) /\ Sized => ds[d].size >= c.size

\* A volume has the size that was promised.
SizesAreKept ==
    \A v \in DOMAIN promised : ~ VolumeUnwanted(v) /\ Sized => ds[Vol(v)].size >= promised[v]

\* What DeleteVolume has done stands too: the share is gone before the dataset, the origin
\* that it read is still the dataset's, and a temporary one is marked before the dataset
\* is destroyed, so that it goes with it.
VolumeGoes(r) ==
    LET c == call[r]  d == Vol(c.volume) IN
    c.method = "DeleteVolume" =>
      /\ pc[r] \in {"origin", "managed", "destroy"} => d \notin shares
      /\ pc[r] \in {"unshare", "origin"} =>
            origin[r] = IF d \in DOMAIN ds THEN ds[d].origin ELSE NoOrigin
      /\ pc[r] \in {"managed", "destroy"} /\ d \in DOMAIN ds
            => LET o == ds[d].origin IN
               o # NoOrigin /\ o[2][1] = "for-volume" => snap[o].defer
      /\ pc[r] = "destroy" => \A k \in SnapsOf(d) : ~ snap[k].managed
      /\ pc[r] \in {"reply", "done"} => d \notin DOMAIN ds

\* All that is said of volumes.
VolumesAreSound ==
    /\ \A r \in Requests : VolumeStands(r) /\ VolumeExpands(r) /\ VolumeGoes(r)
    /\ SizesAreKept

----------------------------------------------------------------------------
(* The invariant: snapshots.                                               *)

\* An attached snapshot was taken, with data of after the request, or came with a volume
\* that is still being received; it is marked only when its deletion was asked for.
CsiSnapshot(v, s) ==
    LET k == <<Vol(v), <<"csi", s>>>>  sid == <<"snapshot", v, s>> IN
    k \in DOMAIN snap =>
      /\ \/ snap[k].managed
         \/ \E r \in Requests : /\ Creates(r, v) /\ Received(call[r])
                                /\ call[r].source[1] = "snapshot"
                                /\ pc[r] \in {"pending", "check", "receive", "props", "strip"}
      /\ snap[k].defer => SnapshotUnwanted(sid)
      /\ snap[k].managed => \E r \in Requests : /\ Takes(r, sid) /\ Sent(r)
                                                /\ snap[k].content >= since[r]

\* What CreateSnapshot has done stands, and it got past its check when no other volume has
\* a snapshot of its name.
SnapshotStands(r) ==
    LET c == call[r]  d == Det(c.volume, c.name)  k == SnapOf(IdOf(c)) IN
    c.method = "CreateSnapshot" =>
      /\ c.detached /\ pc[r] \in {"props", "strip", "untmp", "success", "reply", "done"}
           /\ ~ SnapshotUnwanted(IdOf(c)) => d \in DOMAIN ds
      /\ ~ c.detached /\ pc[r] \in {"success", "reply", "done"}
           /\ ~ SnapshotUnwanted(IdOf(c)) => k \in DOMAIN snap /\ snap[k].managed
      /\ Running(r) /\ pc[r] # "check" =>
           \A sid \in DOMAIN captured :
              sid[1] = IdOf(c)[1] /\ sid[3] = c.name /\ sid[2] # c.volume => SnapshotUnwanted(sid)

\* An acknowledged snapshot has the data it had then, for as long as it exists.
CaptureIsKept ==
    \A sid \in DOMAIN captured : Exists(sid) => DataOf(sid) = captured[sid]

\* All that is said of snapshots; and only volumes have attached ones.
SnapshotsAreSound ==
    /\ \A v \in Volumes, s \in SnapshotNames : CsiSnapshot(v, s)
    /\ \A r \in Requests : SnapshotStands(r)
    /\ CaptureIsKept /\ OneVolumePerSnapshotName
    /\ \A k \in DOMAIN snap : k[2][1] = "csi" => k[1] \in Vols

----------------------------------------------------------------------------
(* The invariant: data.                                                    *)

\* There is no data of writes to come.
DataBounded ==
    /\ \A d \in DOMAIN ds : ds[d].content <= writes
    /\ \A k \in DOMAIN snap : snap[k].content <= writes

\* The volume that a call copies has the data it had when the call was sent, or later.
SourceGrows(r) ==
    Sent(r) /\ CopiesVolume(call[r]) /\ From(call[r]) \in DOMAIN ds
       => ds[From(call[r])].content >= since[r]

\* A detached snapshot has data of after a request for it.
DetachedData(v, s) ==
    Det(v, s) \in DOMAIN ds =>
       \E r \in Requests : /\ Takes(r, <<"detached", v, s>>) /\ Sent(r)
                           /\ ds[Det(v, s)].content >= since[r]

\* A volume that is not written has the data of the snapshot, or of the volume, it is of.
VolumeData(r) ==
    LET c == call[r]  d == Dest(c) IN
    c.method = "CreateVolume" /\ VolumeId(c) \notin Writable /\ d \in DOMAIN ds =>
      /\ c.source \in SnapshotIds =>
            c.source \in DOMAIN captured /\ ds[d].content = captured[c.source]
      /\ c.source[1] = "volume" =>
            \E q \in Requests : call[q] = c /\ Sent(q) /\ ds[d].content >= since[q]

\* A temporary snapshot has the data that its copy is to have.  (The one of a volume's own
\* creation came with the data it was received with, and is not copied.)
TemporaryData(k) ==
    /\ \A u, v \in Volumes : k = <<Vol(u), <<"for-volume", v>>>> /\ u # v =>
         \E q \in Requests : /\ Creates(q, v) /\ call[q].source = <<"volume", u>>
                             /\ Sent(q) /\ snap[k].content >= since[q]
    /\ \A u, v \in Volumes, s \in SnapshotNames : k = <<Det(u, s), <<"for-volume", v>>>> =>
         /\ <<"detached", u, s>> \in DOMAIN captured
         /\ snap[k].content = captured[<<"detached", u, s>>]
    /\ \A v \in Volumes, s \in SnapshotNames : k = <<Vol(v), <<"for-snapshot", s>>>> =>
         \E r \in Requests : /\ Takes(r, <<"detached", v, s>>) /\ Sent(r)
                             /\ snap[k].content >= since[r]

\* All that is said of data.
Data ==
    /\ DataBounded /\ SnapshotsAreFresh
    /\ \A r \in Requests : SourceGrows(r) /\ VolumeData(r)
    /\ \A v \in Volumes, s \in SnapshotNames : DetachedData(v, s)
    /\ \A k \in DOMAIN snap : TemporaryData(k)

----------------------------------------------------------------------------
(* The invariant: what is left over.                                       *)

\* The creation of v still needs the temporary snapshot k: of its source, or the one
\* that v was received with.
NeedsForVolume(r, v, k) ==
    LET c == call[r] IN
    /\ Creates(r, v) /\ Copies(c)
    /\ k = CopyFrom(c) \/ (c.detached /\ k = <<Vol(v), Tag(c)>>)
    /\ \/ pc[r] \in {"pending", "check", "tmp", "clone", "receive", "props", "strip"}
       \/ pc[r] = "untmp" /\ k[1] # Vol(v)

\* The same of a detached snapshot s of v.
NeedsForSnapshot(r, v, s, k) ==
    /\ Takes(r, <<"detached", v, s>>)
    /\ k[1] \in {Vol(v), Det(v, s)}
    /\ \/ pc[r] \in {"pending", "check", "container", "tmp", "receive", "props", "strip"}
       \/ pc[r] = "untmp" /\ k[1] = Vol(v)

\* A temporary snapshot has a clone, or is needed.
TemporaryIsHeld(k) ==
    /\ \A v \in Volumes : k[2] = <<"for-volume", v>> =>
         Clones(k) # {} \/ \E r \in Requests : NeedsForVolume(r, v, k)
    /\ \A s \in SnapshotNames : k[2] = <<"for-snapshot", s>> =>
         \E r \in Requests, v \in Volumes : NeedsForSnapshot(r, v, s, k)

\* The parent of detached snapshots has one, or is in the hands of a request that makes or
\* destroys one.
ContainerIsUsed(v) ==
    Con(v) \in DOMAIN ds =>
      \/ \E s \in SnapshotNames : Det(v, s) \in DOMAIN ds
      \/ \E r \in Requests : Is(r, "CreateSnapshot") /\ call[r].detached /\ call[r].volume = v
                             /\ Unfinished(r)
      \/ \E r \in Requests, s \in SnapshotNames :
           Drops(r, <<"detached", v, s>>) /\ pc[r] \in {"pending", "destroy", "uncontain"}

\* All that is said of leftovers.
Leftovers ==
    /\ \A k \in DOMAIN snap : TemporaryIsHeld(k)
    /\ \A v \in Volumes : ContainerIsUsed(v)

----------------------------------------------------------------------------
(* Names.                                                                  *)

\* The names of datasets tell what they are of.
LEMMA NamesAre ==
  /\ \A v : Vol(v)[1] = "vol" /\ Vol(v)[2] = v
  /\ \A v : Con(v)[1] = "con" /\ Con(v)[2] = v
  /\ \A v, s : Det(v, s)[1] = "det" /\ Det(v, s)[2] = v /\ Det(v, s)[3] = s
BY DEF Vol, Con, Det

\* So no two are the same.
LEMMA NamesDiffer ==
  /\ \A u, v : Vol(u) = Vol(v) => u = v
  /\ \A u, v : Con(u) = Con(v) => u = v
  /\ \A u, v, s, t : Det(u, s) = Det(v, t) => u = v /\ s = t
  /\ \A u, v : Vol(u) # Con(v)
  /\ \A u, v, s : Vol(u) # Det(v, s) /\ Con(u) # Det(v, s)
BY NamesAre

\* The snapshots' names.
LEMMA SnapNamesAre ==
  ASSUME NEW k \in SnapNames
  PROVE  /\ k = <<k[1], k[2]>> /\ k # NoOrigin
         /\ k[1] \in Vols \cup Dets /\ k[1][1] \in {"vol", "det"}
         /\ k[2] \in Tags
         /\ \/ \E s \in SnapshotNames : k[2] = <<"csi", s>>
            \/ \E v \in Volumes : k[2] = <<"for-volume", v>>
            \/ \E s \in SnapshotNames : k[2] = <<"for-snapshot", s>>
<1>1. k = <<k[1], k[2]>> /\ k[1] \in Vols \cup Dets /\ k[2] \in Tags
  BY DEF SnapNames
<1>2. k[1][1] \in {"vol", "det"}
  BY <1>1, NamesAre DEF Vols, Dets
<1>3. \/ \E s \in SnapshotNames : k[2] = <<"csi", s>>
      \/ \E v \in Volumes : k[2] = <<"for-volume", v>>
      \/ \E s \in SnapshotNames : k[2] = <<"for-snapshot", s>>
  BY <1>1 DEF Tags
<1>4. k # NoOrigin
  <2>1. Len(<<k[1], k[2]>>) = 2 /\ Len(NoOrigin) = 0
    BY DEF NoOrigin
  <2>2. QED
    BY <1>1, <2>1
<1>5. QED
  BY <1>1, <1>2, <1>3, <1>4

\* The calls of a plan.
LEMMA CallsAre ==
  ASSUME call \in Plans, NEW r \in Requests
  PROVE  /\ call[r] \in Call
         /\ call[r].method \in Methods /\ call[r].volume \in Volumes
         /\ call[r].name \in Names \cup SnapshotNames /\ call[r].source \in Sources
         /\ call[r].detached \in BOOLEAN /\ call[r].size \in Nat /\ call[r].limit \in Nat
         /\ call[r].method = "CreateVolume" => call[r].name \in Names
         /\ call[r].method = "CreateSnapshot" =>
              /\ call[r].name \in SnapshotNames /\ IdOf(call[r]) \in SnapshotIds
              /\ call[r].source = <<"none">>
         /\ call[r].method = "DeleteSnapshot" => call[r].source \in SnapshotIds
         /\ VolumeId(call[r]) \in Volumes
<1>1. call[r] \in Call /\ WellFormed(call)
  BY PlansAssumption
<1>2. /\ call[r].method \in Methods /\ call[r].volume \in Volumes
      /\ call[r].name \in Names \cup SnapshotNames /\ call[r].source \in Sources
      /\ call[r].detached \in BOOLEAN /\ call[r].size \in Nat /\ call[r].limit \in Nat
  BY <1>1 DEF Call
<1>3. /\ call[r].method = "CreateVolume" => call[r].name \in Names
      /\ call[r].method = "CreateSnapshot" =>
           call[r].name \in SnapshotNames /\ call[r].source = <<"none">>
      /\ call[r].method = "DeleteSnapshot" => call[r].source \in SnapshotIds
  BY <1>1 DEF WellFormed
<1>4. call[r].method = "CreateSnapshot" => IdOf(call[r]) \in SnapshotIds
  BY <1>2, <1>3 DEF IdOf, SnapshotIds
<1>5. VolumeId(call[r]) \in Volumes
  BY <1>2, <1>3, VolumeIdAssumption DEF VolumeId
<1>6. QED
  BY <1>1, <1>2, <1>3, <1>4, <1>5

\* What a call may copy.
LEMMA SourcesAre ==
  ASSUME call \in Plans, NEW r \in Requests
  PROVE  LET src == call[r].source IN
         \/ src = <<"none">> /\ src[1] = "none"
         \/ \E v \in Volumes : src = <<"volume", v>> /\ src[1] = "volume" /\ src[2] = v
         \/ \E v \in Volumes, s \in SnapshotNames :
              /\ src \in {<<"snapshot", v, s>>, <<"detached", v, s>>}
              /\ src \in SnapshotIds /\ src[2] = v /\ src[3] = s
<1>1. call[r].source \in Sources
  BY CallsAre
<1>2. QED
  BY <1>1 DEF Sources, SnapshotIds

\* Calls for one volume.
LEMMA CallsAreWellFormed ==
  ASSUME call \in Plans, NEW q \in Requests, NEW r \in Requests, NEW v \in Volumes,
         Creates(r, v)
  PROVE  /\ Copies(call[r]) => call[r].source[2] # v
         /\ Creates(q, v) /\ q # r =>
              /\ call[q].name = call[r].name
              /\ \/ call[q] = call[r]
                 \/ /\ ~ Copies(call[q]) /\ call[q].limit > 0 /\ call[q].limit = call[q].size
                    /\ ~ Copies(call[r]) /\ call[r].limit > 0 /\ call[r].limit = call[r].size
              /\ \A p \in Requests :
                   /\ ~ Expands(p, v)
                   /\ Is(p, "CreateSnapshot") /\ call[p].volume = v => ~ Received(call[r])
<1>1. WellFormed(call)
  BY PlansAssumption
<1>2. Copies(call[r]) => call[r].source[2] # v
  BY <1>1 DEF WellFormed, Creates, Is, Copies
<1>3. CASE Creates(q, v) /\ q # r
  <2>1. SameVolume(call, r, q) /\ SameVolume(call, q, r)
    BY <1>1, <1>3 DEF WellFormed, Creates, Is
  <2>2. QED
    BY <2>1, <1>2, <1>3 DEF SameVolume, Creates, Is, Copies, Received, Expands
<1>4. QED
  BY <1>2, <1>3

----------------------------------------------------------------------------
(* The steps of the handlers.                                              *)

\* The sequences, case by case.
LEMMA StepsAre ==
  ASSUME NEW c
  PROVE  /\ c.method = "CreateVolume" =>
              /\ c.source[1] = "none" =>
                   Steps(c) = <<"check", "create", "size", "share", "context", "success">>
              /\ c.source[1] = "snapshot" =>
                   IF c.detached
                     THEN Steps(c) = <<"check", "receive", "props", "strip",
                                       "size", "share", "context", "success">>
                     ELSE Steps(c) = <<"check", "clone", "size", "share", "context", "success">>
              /\ c.source[1] \in {"detached", "volume"} /\ c.detached =>
                   Steps(c) = <<"check", "tmp", "receive", "props", "strip", "untmp",
                                "size", "share", "context", "success">>
              /\ c.source[1] = "detached" /\ ~ c.detached =>
                   Steps(c) = <<"check", "tmp", "clone", "untmp",
                                "size", "share", "context", "success">>
              /\ c.source[1] = "volume" /\ ~ c.detached =>
                   Steps(c) = <<"check", "tmp", "clone", "size", "share", "context", "success">>
         /\ c.method = "DeleteVolume" =>
              Steps(c) = <<"read", "unshare", "origin", "managed", "destroy">>
         /\ c.method = "ControllerExpandVolume" => Steps(c) = <<"size">>
         /\ c.method = "CreateSnapshot" =>
              IF c.detached
                THEN Steps(c) = <<"check", "container", "tmp", "receive", "props", "strip",
                                  "untmp", "success">>
                ELSE Steps(c) = <<"check", "take", "success">>
         /\ c.method = "DeleteSnapshot" =>
              IF c.source[1] = "detached" THEN Steps(c) = <<"destroy", "uncontain">>
                                          ELSE Steps(c) = <<"release">>
<1>1. c.method = "CreateVolume" => Steps(c) = <<"check">> \o CopySteps(c) \o FinalSteps
  BY DEF Steps
<1>2. FinalSteps = <<"size", "share", "context", "success">>
  BY DEF FinalSteps
<1>3. CASE c.method = "CreateVolume" /\ c.source[1] = "none"
  <2>1. CopySteps(c) = <<"create">>
    BY <1>3 DEF CopySteps
  <2>2. QED
    BY <1>1, <1>2, <1>3, <2>1
<1>4. CASE c.method = "CreateVolume" /\ c.source[1] = "snapshot" /\ c.detached
  <2>1. CopySteps(c) = <<"receive", "props", "strip">>
    BY <1>4 DEF CopySteps
  <2>2. QED
    BY <1>1, <1>2, <1>4, <2>1
<1>5. CASE c.method = "CreateVolume" /\ c.source[1] = "snapshot" /\ ~ c.detached
  <2>1. CopySteps(c) = <<"clone">>
    BY <1>5 DEF CopySteps
  <2>2. QED
    BY <1>1, <1>2, <1>5, <2>1
<1>6. CASE c.method = "CreateVolume" /\ c.source[1] \in {"detached", "volume"} /\ c.detached
  <2>1. CopySteps(c) = <<"tmp", "receive", "props", "strip", "untmp">>
    BY <1>6 DEF CopySteps
  <2>2. QED
    BY <1>1, <1>2, <1>6, <2>1
<1>7. CASE c.method = "CreateVolume" /\ c.source[1] = "detached" /\ ~ c.detached
  <2>1. CopySteps(c) = <<"tmp", "clone", "untmp">>
    BY <1>7 DEF CopySteps
  <2>2. QED
    BY <1>1, <1>2, <1>7, <2>1
<1>8. CASE c.method = "CreateVolume" /\ c.source[1] = "volume" /\ ~ c.detached
  <2>1. CopySteps(c) = <<"tmp", "clone">>
    BY <1>8 DEF CopySteps
  <2>2. QED
    BY <1>1, <1>2, <1>8, <2>1
<1>9. c.method = "DeleteVolume" =>
        Steps(c) = <<"read", "unshare", "origin", "managed", "destroy">>
  BY DEF Steps, DeleteSteps
<1>10. c.method = "ControllerExpandVolume" => Steps(c) = <<"size">>
  BY DEF Steps
<1>11. c.method = "CreateSnapshot" =>
         IF c.detached
           THEN Steps(c) = <<"check", "container", "tmp", "receive", "props", "strip",
                             "untmp", "success">>
           ELSE Steps(c) = <<"check", "take", "success">>
  BY DEF Steps, SnapshotSteps
<1>12. c.method = "DeleteSnapshot" =>
         IF c.source[1] = "detached" THEN Steps(c) = <<"destroy", "uncontain">>
                                     ELSE Steps(c) = <<"release">>
  BY DEF Steps
<1>13. c.method = "CreateVolume" =>
              /\ c.source[1] = "none" =>
                   Steps(c) = <<"check", "create", "size", "share", "context", "success">>
              /\ c.source[1] = "snapshot" =>
                   IF c.detached
                     THEN Steps(c) = <<"check", "receive", "props", "strip",
                                       "size", "share", "context", "success">>
                     ELSE Steps(c) = <<"check", "clone", "size", "share", "context", "success">>
              /\ c.source[1] \in {"detached", "volume"} /\ c.detached =>
                   Steps(c) = <<"check", "tmp", "receive", "props", "strip", "untmp",
                                "size", "share", "context", "success">>
              /\ c.source[1] = "detached" /\ ~ c.detached =>
                   Steps(c) = <<"check", "tmp", "clone", "untmp",
                                "size", "share", "context", "success">>
              /\ c.source[1] = "volume" /\ ~ c.detached =>
                   Steps(c) = <<"check", "tmp", "clone", "size", "share", "context", "success">>
  BY <1>3, <1>4, <1>5, <1>6, <1>7, <1>8
<1>14. QED
  BY <1>9, <1>10, <1>11, <1>12, <1>13

\* What comes after a step of a sequence in which no step is there twice.
LEMMA AfterIs ==
  ASSUME NEW c, Steps(c) \in Seq(StepNames),
         \A i, j \in 1..Len(Steps(c)) : Steps(c)[i] = Steps(c)[j] => i = j
  PROVE  \A i \in 1..Len(Steps(c)) :
           StepAfter(c, Steps(c)[i]) = IF i = Len(Steps(c)) THEN "reply" ELSE Steps(c)[i + 1]
<1> DEFINE s == Steps(c)
           steps == Append(s, "reply")
<1> SUFFICES ASSUME NEW i \in 1..Len(s)
             PROVE  StepAfter(c, s[i]) = IF i = Len(s) THEN "reply" ELSE s[i + 1]
  OBVIOUS
<1> DEFINE j == CHOOSE n \in 1..Len(s) : steps[n] = s[i]
<1>1. \A n \in 1..Len(s) : steps[n] = s[n]
  OBVIOUS
<1>2. j \in 1..Len(s) /\ steps[j] = s[i]
  BY <1>1
<1>3. j = i
  BY <1>1, <1>2
<1>4. DOMAIN s = 1..Len(s)
  OBVIOUS
<1>5. StepAfter(c, s[i]) = steps[1 + j]
  BY <1>4 DEF StepAfter
<1> HIDE DEF j
<1>6. StepAfter(c, s[i]) = steps[1 + i]
  BY <1>3, <1>5
<1>7. steps[1 + i] = IF i = Len(s) THEN "reply" ELSE s[i + 1]
  OBVIOUS
<1>8. QED
  BY <1>6, <1>7

\* The step after each, and the places where a handler can be.
After(r, step) ==
    LET c == call[r]  from == c.source[1] IN
    CASE step = "check" ->
           IF c.method = "CreateSnapshot" THEN IF c.detached THEN "container" ELSE "take"
           ELSE IF from = "none" THEN "create"
           ELSE IF from # "snapshot" THEN "tmp"
           ELSE IF c.detached THEN "receive" ELSE "clone"
      [] step = "container" -> "tmp"
      [] step = "tmp" -> IF c.detached THEN "receive" ELSE "clone"
      [] step = "create" -> "size"
      [] step = "clone" -> IF from = "detached" THEN "untmp" ELSE "size"
      [] step = "receive" -> "props"
      [] step = "props" -> "strip"
      [] step = "strip" ->
           IF c.method = "CreateSnapshot" \/ from # "snapshot" THEN "untmp" ELSE "size"
      [] step = "untmp" -> IF c.method = "CreateSnapshot" THEN "success" ELSE "size"
      [] step = "take" -> "success"
      [] step = "size" -> IF c.method = "CreateVolume" THEN "share" ELSE "reply"
      [] step = "share" -> "context"
      [] step = "context" -> "success"
      [] step = "read" -> "unshare"
      [] step = "unshare" -> "origin"
      [] step = "origin" -> "managed"
      [] step = "managed" -> "destroy"
      [] step = "destroy" -> IF c.method = "DeleteVolume" THEN "reply" ELSE "uncontain"
      [] OTHER -> "reply"

\* The first step of a call.
First(c) ==
    CASE c.method \in {"CreateVolume", "CreateSnapshot"} -> "check"
      [] c.method = "DeleteVolume" -> "read"
      [] c.method = "ControllerExpandVolume" -> "size"
      [] c.method = "DeleteSnapshot" -> IF c.source[1] = "detached" THEN "destroy" ELSE "release"

\* What the sequences say of each step: where it is taken, and what comes after it.
LEMMA StepAfterIs ==
  ASSUME call \in Plans, NEW r \in Requests
  PROVE  /\ InItsPlace(r) /\ Running(r) /\ pc[r] # "reply" =>
              StepAfter(call[r], pc[r]) = After(r, pc[r])
         /\ InItsPlace(r) /\ Running(r) /\ pc[r] # "reply" =>
              \E i \in DOMAIN Steps(call[r]) : Steps(call[r])[i] = pc[r]
         /\ Head(Steps(call[r])) = First(call[r])
<1> DEFINE c == call[r]
           from == c.source[1]
           Follows(step, next) == /\ \E i \in DOMAIN Steps(c) : Steps(c)[i] = step
                                  /\ StepAfter(c, step) = next
<1>1. CASE c.method = "CreateVolume" /\ from = "none"
  <2> DEFINE s == <<"check", "create", "size", "share", "context", "success">>
  <2>1. Steps(c) = s
    BY <1>1, StepsAre
  <2>2. s \in Seq(StepNames) /\ Len(s) = 6
    BY DEF StepNames
  <2>3. /\ s[1] = "check" /\ s[2] = "create" /\ s[3] = "size" /\ s[4] = "share"
        /\ s[5] = "context" /\ s[6] = "success"
    OBVIOUS
  <2>4. Head(s) = "check"
    OBVIOUS
  <2> HIDE DEF s, c
  <2>5. DOMAIN s = 1..6
    BY <2>2
  <2>6. \A i, j \in 1..Len(s) : s[i] = s[j] => i = j
    BY <2>2, <2>3
  <2>7. \A i \in 1..Len(s) : StepAfter(c, s[i]) = IF i = Len(s) THEN "reply" ELSE s[i + 1]
    BY <2>1, <2>2, <2>6, AfterIs
  <2>8. /\ Follows("check", "create") /\ Follows("create", "size")
        /\ Follows("size", "share") /\ Follows("share", "context")
        /\ Follows("context", "success") /\ Follows("success", "reply")
    BY <2>1, <2>2, <2>3, <2>5, <2>7
  <2> HIDE DEF Follows
  <2> USE DEF c
  <2>9. InItsPlace(r) /\ Running(r) /\ pc[r] # "reply" =>
          pc[r] \in {"check", "create", "size", "share", "context", "success"}
    BY <1>1 DEF InItsPlace, Places, StepNames, Running, Copies, Received, Cloned
  <2>10. InItsPlace(r) /\ Running(r) /\ pc[r] # "reply" => Follows(pc[r], After(r, pc[r]))
    BY <1>1, <2>8, <2>9 DEF After
  <2>11. Head(Steps(c)) = First(c)
    BY <1>1, <2>1, <2>4 DEF First
  <2>12. QED
    BY <2>10, <2>11 DEF Follows
<1>2. CASE c.method = "CreateVolume" /\ from = "snapshot" /\ c.detached
  <2> DEFINE s == <<"check", "receive", "props", "strip", "size", "share", "context", "success">>
  <2>1. Steps(c) = s
    BY <1>2, StepsAre
  <2>2. s \in Seq(StepNames) /\ Len(s) = 8
    BY DEF StepNames
  <2>3. /\ s[1] = "check" /\ s[2] = "receive" /\ s[3] = "props" /\ s[4] = "strip"
        /\ s[5] = "size" /\ s[6] = "share" /\ s[7] = "context" /\ s[8] = "success"
    OBVIOUS
  <2>4. Head(s) = "check"
    OBVIOUS
  <2> HIDE DEF s, c
  <2>5. DOMAIN s = 1..8
    BY <2>2
  <2>6. \A i, j \in 1..Len(s) : s[i] = s[j] => i = j
    BY <2>2, <2>3
  <2>7. \A i \in 1..Len(s) : StepAfter(c, s[i]) = IF i = Len(s) THEN "reply" ELSE s[i + 1]
    BY <2>1, <2>2, <2>6, AfterIs
  <2>8. /\ Follows("check", "receive") /\ Follows("receive", "props")
        /\ Follows("props", "strip") /\ Follows("strip", "size")
        /\ Follows("size", "share") /\ Follows("share", "context")
        /\ Follows("context", "success") /\ Follows("success", "reply")
    BY <2>1, <2>2, <2>3, <2>5, <2>7
  <2> HIDE DEF Follows
  <2> USE DEF c
  <2>9. InItsPlace(r) /\ Running(r) /\ pc[r] # "reply" =>
          pc[r] \in {"check", "receive", "props", "strip", "size", "share", "context", "success"}
    BY <1>2 DEF InItsPlace, Places, StepNames, Running, Copies, Received, Cloned
  <2>10. InItsPlace(r) /\ Running(r) /\ pc[r] # "reply" => Follows(pc[r], After(r, pc[r]))
    BY <1>2, <2>8, <2>9 DEF After
  <2>11. Head(Steps(c)) = First(c)
    BY <1>2, <2>1, <2>4 DEF First
  <2>12. QED
    BY <2>10, <2>11 DEF Follows
<1>3. CASE c.method = "CreateVolume" /\ from = "snapshot" /\ ~ c.detached
  <2> DEFINE s == <<"check", "clone", "size", "share", "context", "success">>
  <2>1. Steps(c) = s
    BY <1>3, StepsAre
  <2>2. s \in Seq(StepNames) /\ Len(s) = 6
    BY DEF StepNames
  <2>3. /\ s[1] = "check" /\ s[2] = "clone" /\ s[3] = "size" /\ s[4] = "share"
        /\ s[5] = "context" /\ s[6] = "success"
    OBVIOUS
  <2>4. Head(s) = "check"
    OBVIOUS
  <2> HIDE DEF s, c
  <2>5. DOMAIN s = 1..6
    BY <2>2
  <2>6. \A i, j \in 1..Len(s) : s[i] = s[j] => i = j
    BY <2>2, <2>3
  <2>7. \A i \in 1..Len(s) : StepAfter(c, s[i]) = IF i = Len(s) THEN "reply" ELSE s[i + 1]
    BY <2>1, <2>2, <2>6, AfterIs
  <2>8. /\ Follows("check", "clone") /\ Follows("clone", "size")
        /\ Follows("size", "share") /\ Follows("share", "context")
        /\ Follows("context", "success") /\ Follows("success", "reply")
    BY <2>1, <2>2, <2>3, <2>5, <2>7
  <2> HIDE DEF Follows
  <2> USE DEF c
  <2>9. InItsPlace(r) /\ Running(r) /\ pc[r] # "reply" =>
          pc[r] \in {"check", "clone", "size", "share", "context", "success"}
    BY <1>3 DEF InItsPlace, Places, StepNames, Running, Copies, Received, Cloned
  <2>10. InItsPlace(r) /\ Running(r) /\ pc[r] # "reply" => Follows(pc[r], After(r, pc[r]))
    BY <1>3, <2>8, <2>9 DEF After
  <2>11. Head(Steps(c)) = First(c)
    BY <1>3, <2>1, <2>4 DEF First
  <2>12. QED
    BY <2>10, <2>11 DEF Follows
<1>4. CASE c.method = "CreateVolume" /\ from \in {"detached", "volume"} /\ c.detached
  <2> DEFINE s == <<"check", "tmp", "receive", "props", "strip", "untmp", "size", "share",
                    "context", "success">>
  <2>1. Steps(c) = s
    BY <1>4, StepsAre
  <2>2. s \in Seq(StepNames) /\ Len(s) = 10
    BY DEF StepNames
  <2>3. /\ s[1] = "check" /\ s[2] = "tmp" /\ s[3] = "receive" /\ s[4] = "props"
        /\ s[5] = "strip" /\ s[6] = "untmp" /\ s[7] = "size" /\ s[8] = "share"
        /\ s[9] = "context" /\ s[10] = "success"
    OBVIOUS
  <2>4. Head(s) = "check"
    OBVIOUS
  <2> HIDE DEF s, c
  <2>5. DOMAIN s = 1..10
    BY <2>2
  <2>6. \A i, j \in 1..Len(s) : s[i] = s[j] => i = j
    BY <2>2, <2>3
  <2>7. \A i \in 1..Len(s) : StepAfter(c, s[i]) = IF i = Len(s) THEN "reply" ELSE s[i + 1]
    BY <2>1, <2>2, <2>6, AfterIs
  <2>8. /\ Follows("check", "tmp") /\ Follows("tmp", "receive")
        /\ Follows("receive", "props") /\ Follows("props", "strip")
        /\ Follows("strip", "untmp") /\ Follows("untmp", "size")
        /\ Follows("size", "share") /\ Follows("share", "context")
        /\ Follows("context", "success") /\ Follows("success", "reply")
    BY <2>1, <2>2, <2>3, <2>5, <2>7
  <2> HIDE DEF Follows
  <2> USE DEF c
  <2>9. InItsPlace(r) /\ Running(r) /\ pc[r] # "reply" =>
          pc[r] \in {"check", "tmp", "receive", "props", "strip", "untmp", "size", "share",
                    "context", "success"}
    BY <1>4 DEF InItsPlace, Places, StepNames, Running, Copies, Received, Cloned
  <2>10. InItsPlace(r) /\ Running(r) /\ pc[r] # "reply" => Follows(pc[r], After(r, pc[r]))
    BY <1>4, <2>8, <2>9 DEF After
  <2>11. Head(Steps(c)) = First(c)
    BY <1>4, <2>1, <2>4 DEF First
  <2>12. QED
    BY <2>10, <2>11 DEF Follows
<1>5. CASE c.method = "CreateVolume" /\ from = "detached" /\ ~ c.detached
  <2> DEFINE s == <<"check", "tmp", "clone", "untmp", "size", "share", "context", "success">>
  <2>1. Steps(c) = s
    BY <1>5, StepsAre
  <2>2. s \in Seq(StepNames) /\ Len(s) = 8
    BY DEF StepNames
  <2>3. /\ s[1] = "check" /\ s[2] = "tmp" /\ s[3] = "clone" /\ s[4] = "untmp"
        /\ s[5] = "size" /\ s[6] = "share" /\ s[7] = "context" /\ s[8] = "success"
    OBVIOUS
  <2>4. Head(s) = "check"
    OBVIOUS
  <2> HIDE DEF s, c
  <2>5. DOMAIN s = 1..8
    BY <2>2
  <2>6. \A i, j \in 1..Len(s) : s[i] = s[j] => i = j
    BY <2>2, <2>3
  <2>7. \A i \in 1..Len(s) : StepAfter(c, s[i]) = IF i = Len(s) THEN "reply" ELSE s[i + 1]
    BY <2>1, <2>2, <2>6, AfterIs
  <2>8. /\ Follows("check", "tmp") /\ Follows("tmp", "clone")
        /\ Follows("clone", "untmp") /\ Follows("untmp", "size")
        /\ Follows("size", "share") /\ Follows("share", "context")
        /\ Follows("context", "success") /\ Follows("success", "reply")
    BY <2>1, <2>2, <2>3, <2>5, <2>7
  <2> HIDE DEF Follows
  <2> USE DEF c
  <2>9. InItsPlace(r) /\ Running(r) /\ pc[r] # "reply" =>
          pc[r] \in {"check", "tmp", "clone", "untmp", "size", "share", "context", "success"}
    BY <1>5 DEF InItsPlace, Places, StepNames, Running, Copies, Received, Cloned
  <2>10. InItsPlace(r) /\ Running(r) /\ pc[r] # "reply" => Follows(pc[r], After(r, pc[r]))
    BY <1>5, <2>8, <2>9 DEF After
  <2>11. Head(Steps(c)) = First(c)
    BY <1>5, <2>1, <2>4 DEF First
  <2>12. QED
    BY <2>10, <2>11 DEF Follows
<1>6. CASE c.method = "CreateVolume" /\ from = "volume" /\ ~ c.detached
  <2> DEFINE s == <<"check", "tmp", "clone", "size", "share", "context", "success">>
  <2>1. Steps(c) = s
    BY <1>6, StepsAre
  <2>2. s \in Seq(StepNames) /\ Len(s) = 7
    BY DEF StepNames
  <2>3. /\ s[1] = "check" /\ s[2] = "tmp" /\ s[3] = "clone" /\ s[4] = "size"
        /\ s[5] = "share" /\ s[6] = "context" /\ s[7] = "success"
    OBVIOUS
  <2>4. Head(s) = "check"
    OBVIOUS
  <2> HIDE DEF s, c
  <2>5. DOMAIN s = 1..7
    BY <2>2
  <2>6. \A i, j \in 1..Len(s) : s[i] = s[j] => i = j
    BY <2>2, <2>3
  <2>7. \A i \in 1..Len(s) : StepAfter(c, s[i]) = IF i = Len(s) THEN "reply" ELSE s[i + 1]
    BY <2>1, <2>2, <2>6, AfterIs
  <2>8. /\ Follows("check", "tmp") /\ Follows("tmp", "clone")
        /\ Follows("clone", "size") /\ Follows("size", "share")
        /\ Follows("share", "context") /\ Follows("context", "success")
        /\ Follows("success", "reply")
    BY <2>1, <2>2, <2>3, <2>5, <2>7
  <2> HIDE DEF Follows
  <2> USE DEF c
  <2>9. InItsPlace(r) /\ Running(r) /\ pc[r] # "reply" =>
          pc[r] \in {"check", "tmp", "clone", "size", "share", "context", "success"}
    BY <1>6 DEF InItsPlace, Places, StepNames, Running, Copies, Received, Cloned
  <2>10. InItsPlace(r) /\ Running(r) /\ pc[r] # "reply" => Follows(pc[r], After(r, pc[r]))
    BY <1>6, <2>8, <2>9 DEF After
  <2>11. Head(Steps(c)) = First(c)
    BY <1>6, <2>1, <2>4 DEF First
  <2>12. QED
    BY <2>10, <2>11 DEF Follows
<1>7. CASE c.method = "DeleteVolume"
  <2> DEFINE s == <<"read", "unshare", "origin", "managed", "destroy">>
  <2>1. Steps(c) = s
    BY <1>7, StepsAre
  <2>2. s \in Seq(StepNames) /\ Len(s) = 5
    BY DEF StepNames
  <2>3. /\ s[1] = "read" /\ s[2] = "unshare" /\ s[3] = "origin" /\ s[4] = "managed"
        /\ s[5] = "destroy"
    OBVIOUS
  <2>4. Head(s) = "read"
    OBVIOUS
  <2> HIDE DEF s, c
  <2>5. DOMAIN s = 1..5
    BY <2>2
  <2>6. \A i, j \in 1..Len(s) : s[i] = s[j] => i = j
    BY <2>2, <2>3
  <2>7. \A i \in 1..Len(s) : StepAfter(c, s[i]) = IF i = Len(s) THEN "reply" ELSE s[i + 1]
    BY <2>1, <2>2, <2>6, AfterIs
  <2>8. /\ Follows("read", "unshare") /\ Follows("unshare", "origin")
        /\ Follows("origin", "managed") /\ Follows("managed", "destroy")
        /\ Follows("destroy", "reply")
    BY <2>1, <2>2, <2>3, <2>5, <2>7
  <2> HIDE DEF Follows
  <2> USE DEF c
  <2>9. InItsPlace(r) /\ Running(r) /\ pc[r] # "reply" =>
          pc[r] \in {"read", "unshare", "origin", "managed", "destroy"}
    BY <1>7 DEF InItsPlace, Places, StepNames, Running, Copies, Received, Cloned
  <2>10. InItsPlace(r) /\ Running(r) /\ pc[r] # "reply" => Follows(pc[r], After(r, pc[r]))
    BY <1>7, <2>8, <2>9 DEF After
  <2>11. Head(Steps(c)) = First(c)
    BY <1>7, <2>1, <2>4 DEF First
  <2>12. QED
    BY <2>10, <2>11 DEF Follows
<1>8. CASE c.method = "ControllerExpandVolume"
  <2> DEFINE s == <<"size">>
  <2>1. Steps(c) = s
    BY <1>8, StepsAre
  <2>2. s \in Seq(StepNames) /\ Len(s) = 1
    BY DEF StepNames
  <2>3. /\ s[1] = "size"
    OBVIOUS
  <2>4. Head(s) = "size"
    OBVIOUS
  <2> HIDE DEF s, c
  <2>5. DOMAIN s = 1..1
    BY <2>2
  <2>6. \A i, j \in 1..Len(s) : s[i] = s[j] => i = j
    BY <2>2, <2>3
  <2>7. \A i \in 1..Len(s) : StepAfter(c, s[i]) = IF i = Len(s) THEN "reply" ELSE s[i + 1]
    BY <2>1, <2>2, <2>6, AfterIs
  <2>8. /\ Follows("size", "reply")
    BY <2>1, <2>2, <2>3, <2>5, <2>7
  <2> HIDE DEF Follows
  <2> USE DEF c
  <2>9. InItsPlace(r) /\ Running(r) /\ pc[r] # "reply" =>
          pc[r] \in {"size"}
    BY <1>8 DEF InItsPlace, Places, StepNames, Running, Copies, Received, Cloned
  <2>10. InItsPlace(r) /\ Running(r) /\ pc[r] # "reply" => Follows(pc[r], After(r, pc[r]))
    BY <1>8, <2>8, <2>9 DEF After
  <2>11. Head(Steps(c)) = First(c)
    BY <1>8, <2>1, <2>4 DEF First
  <2>12. QED
    BY <2>10, <2>11 DEF Follows
<1>9. CASE c.method = "CreateSnapshot" /\ c.detached
  <2> DEFINE s == <<"check", "container", "tmp", "receive", "props", "strip", "untmp", "success">>
  <2>1. Steps(c) = s
    BY <1>9, StepsAre
  <2>2. s \in Seq(StepNames) /\ Len(s) = 8
    BY DEF StepNames
  <2>3. /\ s[1] = "check" /\ s[2] = "container" /\ s[3] = "tmp" /\ s[4] = "receive"
        /\ s[5] = "props" /\ s[6] = "strip" /\ s[7] = "untmp" /\ s[8] = "success"
    OBVIOUS
  <2>4. Head(s) = "check"
    OBVIOUS
  <2> HIDE DEF s, c
  <2>5. DOMAIN s = 1..8
    BY <2>2
  <2>6. \A i, j \in 1..Len(s) : s[i] = s[j] => i = j
    BY <2>2, <2>3
  <2>7. \A i \in 1..Len(s) : StepAfter(c, s[i]) = IF i = Len(s) THEN "reply" ELSE s[i + 1]
    BY <2>1, <2>2, <2>6, AfterIs
  <2>8. /\ Follows("check", "container") /\ Follows("container", "tmp")
        /\ Follows("tmp", "receive") /\ Follows("receive", "props")
        /\ Follows("props", "strip") /\ Follows("strip", "untmp")
        /\ Follows("untmp", "success") /\ Follows("success", "reply")
    BY <2>1, <2>2, <2>3, <2>5, <2>7
  <2> HIDE DEF Follows
  <2> USE DEF c
  <2>9. InItsPlace(r) /\ Running(r) /\ pc[r] # "reply" =>
          pc[r] \in {"check", "container", "tmp", "receive", "props", "strip", "untmp", "success"}
    BY <1>9 DEF InItsPlace, Places, StepNames, Running, Copies, Received, Cloned
  <2>10. InItsPlace(r) /\ Running(r) /\ pc[r] # "reply" => Follows(pc[r], After(r, pc[r]))
    BY <1>9, <2>8, <2>9 DEF After
  <2>11. Head(Steps(c)) = First(c)
    BY <1>9, <2>1, <2>4 DEF First
  <2>12. QED
    BY <2>10, <2>11 DEF Follows
<1>10. CASE c.method = "CreateSnapshot" /\ ~ c.detached
  <2> DEFINE s == <<"check", "take", "success">>
  <2>1. Steps(c) = s
    BY <1>10, StepsAre
  <2>2. s \in Seq(StepNames) /\ Len(s) = 3
    BY DEF StepNames
  <2>3. /\ s[1] = "check" /\ s[2] = "take" /\ s[3] = "success"
    OBVIOUS
  <2>4. Head(s) = "check"
    OBVIOUS
  <2> HIDE DEF s, c
  <2>5. DOMAIN s = 1..3
    BY <2>2
  <2>6. \A i, j \in 1..Len(s) : s[i] = s[j] => i = j
    BY <2>2, <2>3
  <2>7. \A i \in 1..Len(s) : StepAfter(c, s[i]) = IF i = Len(s) THEN "reply" ELSE s[i + 1]
    BY <2>1, <2>2, <2>6, AfterIs
  <2>8. /\ Follows("check", "take") /\ Follows("take", "success")
        /\ Follows("success", "reply")
    BY <2>1, <2>2, <2>3, <2>5, <2>7
  <2> HIDE DEF Follows
  <2> USE DEF c
  <2>9. InItsPlace(r) /\ Running(r) /\ pc[r] # "reply" =>
          pc[r] \in {"check", "take", "success"}
    BY <1>10 DEF InItsPlace, Places, StepNames, Running, Copies, Received, Cloned
  <2>10. InItsPlace(r) /\ Running(r) /\ pc[r] # "reply" => Follows(pc[r], After(r, pc[r]))
    BY <1>10, <2>8, <2>9 DEF After
  <2>11. Head(Steps(c)) = First(c)
    BY <1>10, <2>1, <2>4 DEF First
  <2>12. QED
    BY <2>10, <2>11 DEF Follows
<1>11. CASE c.method = "DeleteSnapshot" /\ from = "detached"
  <2> DEFINE s == <<"destroy", "uncontain">>
  <2>1. Steps(c) = s
    BY <1>11, StepsAre
  <2>2. s \in Seq(StepNames) /\ Len(s) = 2
    BY DEF StepNames
  <2>3. /\ s[1] = "destroy" /\ s[2] = "uncontain"
    OBVIOUS
  <2>4. Head(s) = "destroy"
    OBVIOUS
  <2> HIDE DEF s, c
  <2>5. DOMAIN s = 1..2
    BY <2>2
  <2>6. \A i, j \in 1..Len(s) : s[i] = s[j] => i = j
    BY <2>2, <2>3
  <2>7. \A i \in 1..Len(s) : StepAfter(c, s[i]) = IF i = Len(s) THEN "reply" ELSE s[i + 1]
    BY <2>1, <2>2, <2>6, AfterIs
  <2>8. /\ Follows("destroy", "uncontain") /\ Follows("uncontain", "reply")
    BY <2>1, <2>2, <2>3, <2>5, <2>7
  <2> HIDE DEF Follows
  <2> USE DEF c
  <2>9. InItsPlace(r) /\ Running(r) /\ pc[r] # "reply" =>
          pc[r] \in {"destroy", "uncontain"}
    BY <1>11 DEF InItsPlace, Places, StepNames, Running, Copies, Received, Cloned
  <2>10. InItsPlace(r) /\ Running(r) /\ pc[r] # "reply" => Follows(pc[r], After(r, pc[r]))
    BY <1>11, <2>8, <2>9 DEF After
  <2>11. Head(Steps(c)) = First(c)
    BY <1>11, <2>1, <2>4 DEF First
  <2>12. QED
    BY <2>10, <2>11 DEF Follows
<1>12. CASE c.method = "DeleteSnapshot" /\ from # "detached"
  <2> DEFINE s == <<"release">>
  <2>1. Steps(c) = s
    BY <1>12, StepsAre
  <2>2. s \in Seq(StepNames) /\ Len(s) = 1
    BY DEF StepNames
  <2>3. /\ s[1] = "release"
    OBVIOUS
  <2>4. Head(s) = "release"
    OBVIOUS
  <2> HIDE DEF s, c
  <2>5. DOMAIN s = 1..1
    BY <2>2
  <2>6. \A i, j \in 1..Len(s) : s[i] = s[j] => i = j
    BY <2>2, <2>3
  <2>7. \A i \in 1..Len(s) : StepAfter(c, s[i]) = IF i = Len(s) THEN "reply" ELSE s[i + 1]
    BY <2>1, <2>2, <2>6, AfterIs
  <2>8. /\ Follows("release", "reply")
    BY <2>1, <2>2, <2>3, <2>5, <2>7
  <2> HIDE DEF Follows
  <2> USE DEF c
  <2>9. InItsPlace(r) /\ Running(r) /\ pc[r] # "reply" =>
          pc[r] \in {"release"}
    BY <1>12 DEF InItsPlace, Places, StepNames, Running, Copies, Received, Cloned
  <2>10. InItsPlace(r) /\ Running(r) /\ pc[r] # "reply" => Follows(pc[r], After(r, pc[r]))
    BY <1>12, <2>8, <2>9 DEF After
  <2>11. Head(Steps(c)) = First(c)
    BY <1>12, <2>1, <2>4 DEF First
  <2>12. QED
    BY <2>10, <2>11 DEF Follows
<1>13. c.method \in Methods
  BY CallsAre
<1>14. from \in {"none", "volume", "snapshot", "detached"}
  BY SourcesAre
<1>15. QED
  BY <1>1, <1>2, <1>3, <1>4, <1>5, <1>6, <1>7, <1>8, <1>9, <1>10, <1>11, <1>12, <1>13,
     <1>14 DEF Methods

----------------------------------------------------------------------------
(* What an action does, action by action.                                  *)

\* f is a function, and equal to what it maps.
IsFunction(f) == f = [x \in DOMAIN f |-> f[x]]

\* Request r goes on at p.
Moves(r, p) ==
    /\ pc' = [pc EXCEPT ![r] = p]
    /\ UNCHANGED <<call, resourceType, since, promised, captured, writes>>

\* It has failed, and leaves the pool as it is.
Stalls(r) == Moves(r, "pending") /\ Running(r) /\ UNCHANGED <<pool, origin>>

\* How the pool changes: by a dataset that is new, one that has other properties, one
\* that is gone; by a snapshot that is new, some that are gone, one that is marked.
Adds(d, props) ==
    /\ d \notin DOMAIN ds /\ DOMAIN ds' = DOMAIN ds \cup {d} /\ IsFunction(ds')
    /\ \A x \in DOMAIN ds : ds'[x] = ds[x]
    /\ ds'[d] = props

Changes(d, props) ==
    /\ d \in DOMAIN ds /\ DOMAIN ds' = DOMAIN ds /\ IsFunction(ds')
    /\ \A x \in DOMAIN ds \ {d} : ds'[x] = ds[x]
    /\ ds'[d] = props

Removes(d) ==
    /\ DOMAIN ds' = DOMAIN ds \ {d} /\ IsFunction(ds')
    /\ \A x \in DOMAIN ds \ {d} : ds'[x] = ds[x]

Captures(k, props) ==
    /\ k \notin DOMAIN snap /\ DOMAIN snap' = DOMAIN snap \cup {k} /\ IsFunction(snap')
    /\ \A x \in DOMAIN snap : snap'[x] = snap[x]
    /\ snap'[k] = props

Discards(gone) ==
    /\ DOMAIN snap' = DOMAIN snap \ gone /\ IsFunction(snap')
    /\ \A x \in DOMAIN snap \ gone : snap'[x] = snap[x]

Marks(k) ==
    /\ k \in DOMAIN snap /\ Clones(k) # {}
    /\ DOMAIN snap' = DOMAIN snap /\ IsFunction(snap')
    /\ \A x \in DOMAIN snap \ {k} : snap'[x] = snap[x]
    /\ snap'[k] = [snap[k] EXCEPT !.defer = TRUE]

\* The new dataset of a handler, and the snapshot that a copy is received with.
Fresh(content, org, size, managed) ==
    [content |-> content, origin |-> org, size |-> size, managed |-> managed,
     context |-> FALSE, success |-> FALSE]

Releases(k) == IF k \in DOMAIN snap /\ Clones(k) # {} THEN Marks(k) ELSE Discards({k})

\* The helpers of the model.
LEMMA HelpersAre ==
  ASSUME Types
  PROVE  /\ \A d, content, org, size, managed : Put(d, content, org, size, managed) =>
              IF d \in DOMAIN ds THEN ds' = ds ELSE Adds(d, Fresh(content, org, size, managed))
         /\ \A k, managed : Snapshot(k, managed) =>
              IF k \in DOMAIN snap THEN snap' = snap
              ELSE Captures(k, [content |-> ds[k[1]].content, size |-> ds[k[1]].size,
                                managed |-> managed, defer |-> FALSE])
         /\ \A k : Defer(k) => Releases(k)
         /\ \A d : Destroy(d) =>
              /\ Removes(d)
              /\ Discards(SnapsOf(d) \cup {k \in DOMAIN snap : snap[k].defer /\ Clones(k) = {d}})
<1>1. ASSUME NEW d, NEW content, NEW org, NEW size, NEW managed,
             Put(d, content, org, size, managed)
      PROVE  IF d \in DOMAIN ds THEN ds' = ds ELSE Adds(d, Fresh(content, org, size, managed))
  BY <1>1 DEF Put, Adds, Fresh, IsFunction
<1>2. ASSUME NEW k, NEW managed, Snapshot(k, managed)
      PROVE  IF k \in DOMAIN snap THEN snap' = snap
             ELSE Captures(k, [content |-> ds[k[1]].content, size |-> ds[k[1]].size,
                               managed |-> managed, defer |-> FALSE])
  BY <1>2 DEF Snapshot, Captures, IsFunction
<1>3. ASSUME NEW k, Defer(k) PROVE Releases(k)
  <2>1. CASE k \in DOMAIN snap /\ Clones(k) # {}
    BY <1>3, <2>1 DEF Defer, Releases, Marks, IsFunction, Types
  <2>2. CASE ~ (k \in DOMAIN snap /\ Clones(k) # {})
    BY <1>3, <2>2 DEF Defer, Releases, Discards, IsFunction
  <2>3. QED
    BY <2>1, <2>2
<1>4. ASSUME NEW d, Destroy(d)
      PROVE  /\ Removes(d)
             /\ Discards(SnapsOf(d) \cup {k \in DOMAIN snap : snap[k].defer /\ Clones(k) = {d}})
  <2>1. Removes(d)
    BY <1>4 DEF Destroy, Removes, IsFunction
  <2> DEFINE gone == SnapsOf(d) \cup {k \in DOMAIN snap : snap[k].defer /\ Clones(k) = {d}}
  <2>2. snap' = [k \in DOMAIN snap \ gone |-> snap[k]]
    BY <1>4 DEF Destroy
  <2> HIDE DEF gone
  <2>3. Discards(gone)
    BY <2>2 DEF Discards, IsFunction
  <2>4. QED
    BY <2>1, <2>3 DEF gone
<1>5. QED
  BY <1>1, <1>2, <1>3, <1>4

\* What calls make and copy.
LEMMA DestIs ==
  ASSUME call \in Plans, NEW r \in Requests
  PROVE  LET c == call[r] IN
         /\ \A v : Creates(r, v) => VolumeId(c) = v /\ Dest(c) = Vol(v)
         /\ c.method \in {"DeleteVolume", "ControllerExpandVolume"} =>
              VolumeId(c) = c.volume /\ Dest(c) = Vol(c.volume)
         /\ c.method = "CreateSnapshot" =>
              /\ Dest(c) = Det(c.volume, c.name) /\ From(c) = Vol(c.volume)
              /\ Tag(c) = <<"for-snapshot", c.name>>
              /\ IdOf(c) = <<IF c.detached THEN "detached" ELSE "snapshot", c.volume, c.name>>
              /\ SnapOf(IdOf(c)) = <<Vol(c.volume), <<"csi", c.name>>>>
         /\ c.method = "DeleteSnapshot" => Dest(c) = Det(c.source[2], c.source[3])
         /\ c.method = "CreateVolume" =>
              /\ Tag(c) = IF c.source[1] = "snapshot" THEN <<"csi", c.source[3]>>
                          ELSE <<"for-volume", VolumeId(c)>>
              /\ From(c) = IF c.source[1] = "detached" THEN Det(c.source[2], c.source[3])
                           ELSE Vol(c.source[2])
         /\ CopyFrom(c) = <<From(c), Tag(c)>>
<1> DEFINE c == call[r]
<1>1. c.method \in {"DeleteVolume", "ControllerExpandVolume", "CreateSnapshot"} =>
        VolumeId(c) = c.volume
  BY DEF VolumeId
<1>2. c.method \in {"CreateVolume", "DeleteVolume", "ControllerExpandVolume"} =>
        Dest(c) = Vol(VolumeId(c))
  BY DEF Dest
<1>3. c.method = "CreateSnapshot" =>
              /\ Dest(c) = Det(c.volume, c.name) /\ From(c) = Vol(c.volume)
              /\ Tag(c) = <<"for-snapshot", c.name>>
  <2>1. c.method = "CreateSnapshot" => c.source[1] = "none"
    BY CallsAre
  <2>2. QED
    BY <2>1 DEF Dest, From, Tag
<1>4. IdOf(c) = <<IF c.detached THEN "detached" ELSE "snapshot", c.volume, c.name>>
      /\ SnapOf(IdOf(c)) = <<Vol(c.volume), <<"csi", c.name>>>>
  <2>1. IdOf(c) = <<IF c.detached THEN "detached" ELSE "snapshot", c.volume, c.name>>
    BY DEF IdOf
  <2>2. IdOf(c)[2] = c.volume /\ IdOf(c)[3] = c.name
    BY <2>1
  <2>3. QED
    BY <2>1, <2>2 DEF SnapOf
<1>5. c.method = "DeleteSnapshot" => Dest(c) = Det(c.source[2], c.source[3])
  BY DEF Dest
<1>6. c.method = "CreateVolume" =>
              /\ Tag(c) = IF c.source[1] = "snapshot" THEN <<"csi", c.source[3]>>
                          ELSE <<"for-volume", VolumeId(c)>>
              /\ From(c) = IF c.source[1] = "detached" THEN Det(c.source[2], c.source[3])
                           ELSE Vol(c.source[2])
  BY DEF Tag, From
<1>7. CopyFrom(c) = <<From(c), Tag(c)>>
  BY DEF CopyFrom
<1>8. \A v : Creates(r, v) => c.method = "CreateVolume" /\ VolumeId(c) = v
  BY DEF Creates, Is
<1> HIDE DEF c
<1>9. QED
  BY <1>1, <1>2, <1>3, <1>4, <1>5, <1>6, <1>7, <1>8 DEF c

\* A step leads on, or the handler ends with an error.
LEMMA AdvanceIs ==
  ASSUME Types, NEW r \in Requests, Running(r), pc[r] # "reply"
  PROVE  /\ Advance(r) => Moves(r, After(r, pc[r])) /\ UNCHANGED origin
         /\ \A step : SkipTo(r, step) => Moves(r, step) /\ UNCHANGED origin
         /\ \A code : Throw(r, code) => Stalls(r)
         /\ \A d, props : Set(r, d, props) =>
              \/ Stalls(r)
              \/ /\ Moves(r, After(r, pc[r])) /\ UNCHANGED <<snap, shares, origin>>
                 /\ Changes(d, props)
<1>1. StepAfter(call[r], pc[r]) = After(r, pc[r])
  BY StepAfterIs DEF Types
<1>2. /\ Advance(r) => Moves(r, After(r, pc[r])) /\ UNCHANGED origin
      /\ \A step : SkipTo(r, step) => Moves(r, step) /\ UNCHANGED origin
      /\ \A code : Throw(r, code) => Stalls(r)
  BY <1>1 DEF Advance, SkipTo, Throw, Moves, Stalls, options
<1>3. ASSUME NEW d, NEW props, Set(r, d, props)
      PROVE  \/ Stalls(r)
             \/ /\ Moves(r, After(r, pc[r])) /\ UNCHANGED <<snap, shares, origin>>
                /\ Changes(d, props)
  <2>1. CASE d \in DOMAIN ds
    <3>1. ds' = [ds EXCEPT ![d] = props] /\ OnlyDs(r)
      BY <1>3, <2>1 DEF Set
    <3>2. Changes(d, props)
      BY <2>1, <3>1 DEF Changes, IsFunction, Types
    <3>3. QED
      BY <1>2, <3>1, <3>2 DEF OnlyDs
  <2>2. CASE d \notin DOMAIN ds
    BY <1>2, <1>3, <2>2 DEF Set
  <2>3. QED
    BY <2>1, <2>2
<1>4. QED
  BY <1>2, <1>3

\* Request r is at that step of its call, and takes the next one.
Goes(r, step) == pc[r] = step /\ Running(r) /\ Moves(r, After(r, step))

\* The size of a volume that exists is compared.
DoesCheckSize(r) ==
    /\ Goes(r, "check") /\ Is(r, "CreateVolume") /\ UNCHANGED <<pool, origin>>
    /\ Dest(call[r]) \in DOMAIN ds /\ Sized => ~ Conflict(call[r], ds[Dest(call[r])].size)

\* A volume is created, unless it is there.
DoesCreate(r) ==
    /\ Goes(r, "create") /\ Is(r, "CreateVolume") /\ ~ Copies(call[r])
    /\ UNCHANGED <<snap, shares, origin>>
    /\ IF Dest(call[r]) \in DOMAIN ds THEN ds' = ds
       ELSE \E size : /\ size \in {0, call[r].size}
                     /\ Adds(Dest(call[r]), Fresh(0, NoOrigin, size, TRUE))

\* A temporary snapshot of the source is taken, unless it is there.
DoesTakeTemporary(r) ==
    /\ Goes(r, "tmp") /\ UNCHANGED <<ds, shares, origin>>
    /\ From(call[r]) \in DOMAIN ds
    /\ LET k == CopyFrom(call[r]) IN
         IF k \in DOMAIN snap THEN snap' = snap
         ELSE Captures(k, [content |-> ds[k[1]].content, size |-> ds[k[1]].size,
                           managed |-> FALSE, defer |-> FALSE])

\* A snapshot is cloned, unless the volume is there.
DoesClone(r) ==
    /\ Goes(r, "clone") /\ Is(r, "CreateVolume") /\ Cloned(call[r])
    /\ UNCHANGED <<snap, shares, origin>>
    /\ LET k == CopyFrom(call[r]) IN
       /\ k \in DOMAIN snap
       /\ IF Dest(call[r]) \in DOMAIN ds THEN ds' = ds
          ELSE \E size : /\ size \in {0, snap[k].size}
                        /\ Adds(Dest(call[r]), Fresh(snap[k].content, k, size, TRUE))

\* A copy is received, with a snapshot, unless it is there.
DoesReceive(r) ==
    /\ pc[r] = "receive" /\ Running(r) /\ call[r].detached /\ UNCHANGED <<shares, origin>>
    /\ CopyFrom(call[r]) \in DOMAIN snap
    /\ \/ /\ Dest(call[r]) \in DOMAIN ds /\ UNCHANGED <<ds, snap>>
          /\ \E p : Moves(r, p) /\ p \in {"props", "strip"}
       \/ /\ Moves(r, "props")
          /\ LET k == CopyFrom(call[r])  got == <<Dest(call[r]), Tag(call[r])>> IN
             /\ \E size : /\ size \in {0, snap[k].size}
                         /\ Adds(Dest(call[r]), Fresh(snap[k].content, NoOrigin, size, FALSE))
             /\ IF got \in DOMAIN snap THEN snap' = snap
                ELSE Captures(got, [snap[k] EXCEPT !.managed = FALSE, !.defer = FALSE])

\* It gets its properties.
DoesSetProperties(r) ==
    /\ Goes(r, "props") /\ call[r].detached /\ UNCHANGED <<snap, shares, origin>>
    /\ Changes(Dest(call[r]), [ds[Dest(call[r])] EXCEPT !.managed = TRUE])

\* It loses its snapshots.
DoesStripSnapshots(r) ==
    /\ Goes(r, "strip") /\ call[r].detached /\ UNCHANGED <<ds, shares, origin>>
    /\ LET d == Dest(call[r]) IN
       IF Is(r, "CreateSnapshot") THEN Releases(<<d, Tag(call[r])>>)
       ELSE Is(r, "CreateVolume") /\ Copies(call[r]) /\ ~ HasClones(d) /\ Discards(SnapsOf(d))

\* The temporary snapshot is dropped.
DoesDropTemporary(r) ==
    /\ Goes(r, "untmp") /\ UNCHANGED <<ds, shares, origin>>
    /\ Releases(CopyFrom(call[r]))

\* A volume gets its size.
DoesSetSize(r) ==
    /\ Goes(r, "size") /\ UNCHANGED <<snap, shares, origin>>
    /\ \/ ~ Sized /\ ds' = ds
       \/ /\ Sized
          /\ Changes(Dest(call[r]), [ds[Dest(call[r])] EXCEPT !.size = call[r].size])

\* A volume gets its share.
DoesCreateShare(r) ==
    /\ Goes(r, "share") /\ Is(r, "CreateVolume") /\ UNCHANGED <<ds, snap, origin>>
    /\ Dest(call[r]) \in DOMAIN ds /\ shares' = shares \cup {Dest(call[r])}

\* A volume gets its context.
DoesSetContext(r) ==
    /\ Goes(r, "context") /\ Is(r, "CreateVolume") /\ UNCHANGED <<snap, shares, origin>>
    /\ Changes(Dest(call[r]), [ds[Dest(call[r])] EXCEPT !.context = TRUE])

\* The last property of what has been made.
DoesSetSuccess(r) ==
    /\ Goes(r, "success") /\ UNCHANGED <<snap, shares, origin>>
    /\ IF Is(r, "CreateVolume") \/ call[r].detached
         THEN Changes(Dest(call[r]), [ds[Dest(call[r])] EXCEPT !.success = TRUE])
         ELSE ds' = ds /\ SnapOf(IdOf(call[r])) \in DOMAIN snap

\* DeleteVolume reads the origin.
DoesReadOrigin(r) ==
    /\ Goes(r, "read") /\ Is(r, "DeleteVolume") /\ UNCHANGED pool
    /\ origin' = [origin EXCEPT ![r] = IF Dest(call[r]) \in DOMAIN ds
                                        THEN ds[Dest(call[r])].origin ELSE NoOrigin]

\* It deletes the share of a dataset that exists.
DoesDeleteShare(r) ==
    /\ Goes(r, "unshare") /\ Is(r, "DeleteVolume") /\ UNCHANGED <<ds, snap, origin>>
    /\ shares' = IF Dest(call[r]) \in DOMAIN ds THEN shares \ {Dest(call[r])} ELSE shares

\* It releases the origin that it has read.
DoesDeferOrigin(r) ==
    /\ Goes(r, "origin") /\ Is(r, "DeleteVolume") /\ UNCHANGED <<ds, shares, origin>>
    /\ IF origin[r] # NoOrigin /\ origin[r][2][1] = "for-volume" THEN Releases(origin[r])
       ELSE snap' = snap

\* It goes on when no snapshot is left that is managed.
DoesCheckManaged(r) ==
    /\ Goes(r, "managed") /\ Is(r, "DeleteVolume") /\ UNCHANGED <<pool, origin>>
    /\ \A k \in SnapsOf(Dest(call[r])) : ~ snap[k].managed

\* It destroys the dataset.
DoesDestroyVolume(r) ==
    /\ Goes(r, "destroy") /\ Is(r, "DeleteVolume") /\ UNCHANGED <<shares, origin>>
    /\ LET d == Dest(call[r]) IN
       /\ ~ HasClones(d) /\ Removes(d)
       /\ Discards(SnapsOf(d) \cup {k \in DOMAIN snap : snap[k].defer /\ Clones(k) = {d}})

\* CreateSnapshot goes on when the name is free on other volumes.
DoesCheckName(r) ==
    /\ Goes(r, "check") /\ Is(r, "CreateSnapshot") /\ UNCHANGED <<pool, origin>>
    /\ ~ NameTaken(call[r])

\* A snapshot is taken, unless it is there.
DoesTakeSnapshot(r) ==
    /\ Goes(r, "take") /\ Is(r, "CreateSnapshot") /\ ~ call[r].detached
    /\ UNCHANGED <<ds, shares, origin>>
    /\ From(call[r]) \in DOMAIN ds
    /\ LET k == SnapOf(IdOf(call[r])) IN
         IF k \in DOMAIN snap THEN snap' = snap
         ELSE Captures(k, [content |-> ds[k[1]].content, size |-> ds[k[1]].size,
                           managed |-> TRUE, defer |-> FALSE])

\* The parent of detached snapshots is created.
DoesCreateContainer(r) ==
    /\ Goes(r, "container") /\ Is(r, "CreateSnapshot") /\ call[r].detached
    /\ UNCHANGED <<snap, shares, origin>>
    /\ IF Con(call[r].volume) \in DOMAIN ds THEN ds' = ds
       ELSE Adds(Con(call[r].volume), Fresh(0, NoOrigin, 0, FALSE))

\* DeleteSnapshot releases an attached snapshot,
DoesReleaseSnapshot(r) ==
    /\ Goes(r, "release") /\ Is(r, "DeleteSnapshot") /\ call[r].source[1] = "snapshot"
    /\ UNCHANGED <<ds, shares, origin>>
    /\ Releases(SnapOf(call[r].source))

\* or destroys a detached one,
DoesDestroyDetached(r) ==
    /\ Goes(r, "destroy") /\ Is(r, "DeleteSnapshot") /\ call[r].source[1] = "detached"
    /\ UNCHANGED <<shares, origin>>
    /\ LET d == Dest(call[r]) IN
       /\ ~ HasClones(d) /\ Removes(d)
       /\ Discards(SnapsOf(d) \cup {k \in DOMAIN snap : snap[k].defer /\ Clones(k) = {d}})

\* and the container with the last.
DoesDestroyContainer(r) ==
    /\ Goes(r, "uncontain") /\ Is(r, "DeleteSnapshot") /\ call[r].source[1] = "detached"
    /\ UNCHANGED <<snap, shares, origin>>
    /\ LET v == call[r].source[2] IN
       IF \E d \in DOMAIN ds : d[1] = "det" /\ d[2] = v THEN ds' = ds ELSE Removes(Con(v))

\* The actions do no more.
LEMMA ActionsAre ==
  ASSUME Types, NEW r \in Requests
  PROVE  /\ CheckSize(r) => Stalls(r) \/ DoesCheckSize(r)
         /\ Create(r) => DoesCreate(r)
         /\ TakeTemporary(r) => Stalls(r) \/ DoesTakeTemporary(r)
         /\ Clone(r) => Stalls(r) \/ DoesClone(r)
         /\ Receive(r) => Stalls(r) \/ DoesReceive(r)
         /\ SetProperties(r) => Stalls(r) \/ DoesSetProperties(r)
         /\ StripSnapshots(r) => Stalls(r) \/ DoesStripSnapshots(r)
         /\ DropTemporary(r) => DoesDropTemporary(r)
         /\ SetSize(r) => Stalls(r) \/ DoesSetSize(r)
         /\ CreateShare(r) => Stalls(r) \/ DoesCreateShare(r)
         /\ SetContext(r) => Stalls(r) \/ DoesSetContext(r)
         /\ SetSuccess(r) => Stalls(r) \/ DoesSetSuccess(r)
         /\ ReadOrigin(r) => DoesReadOrigin(r)
         /\ DeleteShare(r) => DoesDeleteShare(r)
         /\ DeferOrigin(r) => DoesDeferOrigin(r)
         /\ CheckManaged(r) => Stalls(r) \/ DoesCheckManaged(r)
         /\ DestroyVolume(r) => Stalls(r) \/ DoesDestroyVolume(r)
         /\ CheckName(r) => Stalls(r) \/ DoesCheckName(r)
         /\ TakeSnapshot(r) => Stalls(r) \/ DoesTakeSnapshot(r)
         /\ CreateContainer(r) => DoesCreateContainer(r)
         /\ ReleaseSnapshot(r) => DoesReleaseSnapshot(r)
         /\ DestroyDetached(r) => Stalls(r) \/ DoesDestroyDetached(r)
         /\ DestroyContainer(r) => DoesDestroyContainer(r)
<1> USE DEF On, pool
<1>1. \A step : pc[r] = step /\ step \notin {"idle", "pending", "done"} => Running(r)
  BY DEF Running
<1>2. InItsPlace(r) /\ call \in Plans
  BY DEF Types
<1>3. ASSUME CheckSize(r) PROVE Stalls(r) \/ DoesCheckSize(r)
  <2>1. pc[r] = "check" /\ Running(r)
    BY <1>1, <1>3 DEF CheckSize
  <2>2. /\ Advance(r) => Goes(r, "check") /\ UNCHANGED origin
        /\ \A code : Throw(r, code) => Stalls(r)
        /\ \A step : SkipTo(r, step) => Moves(r, step) /\ UNCHANGED origin
        /\ \A d, props : Set(r, d, props) =>
             \/ Stalls(r)
             \/ /\ Goes(r, "check") /\ UNCHANGED <<snap, shares, origin>>
                /\ Changes(d, props)
    BY <2>1, AdvanceIs DEF Goes
  <2>3. QED
    BY <1>2, <1>3, <2>1, <2>2, DestIs
       DEF CheckSize, Nothing, DoesCheckSize, InItsPlace, Is
<1>4. ASSUME Create(r) PROVE DoesCreate(r)
  <2>1. pc[r] = "create" /\ Running(r)
    BY <1>1, <1>4 DEF Create
  <2>2. /\ Advance(r) => Goes(r, "create") /\ UNCHANGED origin
        /\ \A code : Throw(r, code) => Stalls(r)
        /\ \A step : SkipTo(r, step) => Moves(r, step) /\ UNCHANGED origin
        /\ \A d, props : Set(r, d, props) =>
             \/ Stalls(r)
             \/ /\ Goes(r, "create") /\ UNCHANGED <<snap, shares, origin>>
                /\ Changes(d, props)
    BY <2>1, AdvanceIs DEF Goes
  <2>3. QED
    BY <1>2, <1>4, <2>1, <2>2, HelpersAre, DestIs
       DEF Create, OnlyDs, DoesCreate, InItsPlace, Is
<1>5. ASSUME TakeTemporary(r) PROVE Stalls(r) \/ DoesTakeTemporary(r)
  <2>1. pc[r] = "tmp" /\ Running(r)
    BY <1>1, <1>5 DEF TakeTemporary
  <2>2. /\ Advance(r) => Goes(r, "tmp") /\ UNCHANGED origin
        /\ \A code : Throw(r, code) => Stalls(r)
        /\ \A step : SkipTo(r, step) => Moves(r, step) /\ UNCHANGED origin
        /\ \A d, props : Set(r, d, props) =>
             \/ Stalls(r)
             \/ /\ Goes(r, "tmp") /\ UNCHANGED <<snap, shares, origin>>
                /\ Changes(d, props)
    BY <2>1, AdvanceIs DEF Goes
  <2>3. QED
    BY <1>2, <1>5, <2>1, <2>2, HelpersAre, DestIs
       DEF TakeTemporary, OnlySnap, DoesTakeTemporary, InItsPlace, Is
<1>6. ASSUME Clone(r) PROVE Stalls(r) \/ DoesClone(r)
  <2>1. pc[r] = "clone" /\ Running(r)
    BY <1>1, <1>6 DEF Clone
  <2>2. /\ Advance(r) => Goes(r, "clone") /\ UNCHANGED origin
        /\ \A code : Throw(r, code) => Stalls(r)
        /\ \A step : SkipTo(r, step) => Moves(r, step) /\ UNCHANGED origin
        /\ \A d, props : Set(r, d, props) =>
             \/ Stalls(r)
             \/ /\ Goes(r, "clone") /\ UNCHANGED <<snap, shares, origin>>
                /\ Changes(d, props)
    BY <2>1, AdvanceIs DEF Goes
  <2>3. QED
    BY <1>2, <1>6, <2>1, <2>2, HelpersAre, DestIs
       DEF Clone, OnlyDs, CopiedSize, DoesClone, InItsPlace, Is
<1>7. ASSUME Receive(r) PROVE Stalls(r) \/ DoesReceive(r)
  <2>1. pc[r] = "receive" /\ Running(r)
    BY <1>1, <1>7 DEF Receive
  <2>2. /\ Advance(r) => Goes(r, "receive") /\ UNCHANGED origin
        /\ \A code : Throw(r, code) => Stalls(r)
        /\ \A step : SkipTo(r, step) => Moves(r, step) /\ UNCHANGED origin
        /\ \A d, props : Set(r, d, props) =>
             \/ Stalls(r)
             \/ /\ Goes(r, "receive") /\ UNCHANGED <<snap, shares, origin>>
                /\ Changes(d, props)
    BY <2>1, AdvanceIs DEF Goes
  <2> DEFINE c == call[r]
             k == CopyFrom(c)
             d == Dest(c)
             got == <<d, Tag(c)>>
             size == CopiedSize(k)
  <2>3. c.detached
    BY <1>2, <2>1 DEF InItsPlace
  <2>4. CASE k \notin DOMAIN snap
    BY <1>7, <2>2, <2>4 DEF Receive, DoesReceive
  <2>5. CASE k \in DOMAIN snap /\ d \in DOMAIN ds
    <3>1. (Advance(r) \/ SkipTo(r, "strip")) /\ UNCHANGED pool
      BY <1>7, <2>5 DEF Receive
    <3>2. \E p : Moves(r, p) /\ p \in {"props", "strip"} /\ UNCHANGED origin
      BY <2>2, <3>1 DEF Goes, After
    <3>3. QED
      BY <2>1, <2>3, <2>5, <3>1, <3>2 DEF DoesReceive
  <2>6. CASE k \in DOMAIN snap /\ d \notin DOMAIN ds
    <3>1. CASE c.method = "CreateSnapshot" /\ Con(c.volume) \notin DOMAIN ds
      BY <1>7, <2>2, <2>6, <3>1 DEF Receive, DoesReceive
    <3>2. CASE ~ (c.method = "CreateSnapshot" /\ Con(c.volume) \notin DOMAIN ds)
      <4>1. /\ Put(d, snap[k].content, NoOrigin, size, FALSE)
            /\ snap' = [x \in DOMAIN snap \cup {got} |->
                           IF x \in DOMAIN snap THEN snap[x]
                           ELSE [snap[k] EXCEPT !.managed = FALSE, !.defer = FALSE]]
            /\ Advance(r) /\ UNCHANGED shares
        BY <1>7, <2>6, <3>2 DEF Receive
      <4>2. Adds(d, Fresh(snap[k].content, NoOrigin, size, FALSE)) /\ size \in {0, snap[k].size}
        <5>1. size \in {0, snap[k].size}
          BY DEF CopiedSize
        <5>2. Adds(d, Fresh(snap[k].content, NoOrigin, size, FALSE))
          <6>1. Put(d, snap[k].content, NoOrigin, size, FALSE)
            BY <4>1
          <6> HIDE DEF d, k, size
          <6>2. IF d \in DOMAIN ds THEN ds' = ds
                ELSE Adds(d, Fresh(snap[k].content, NoOrigin, size, FALSE))
            BY <6>1, HelpersAre, Zenon
          <6>3. QED
            BY <2>6, <6>2
        <5>3. QED
          BY <5>1, <5>2
      <4>3. Moves(r, "props") /\ UNCHANGED origin
        BY <2>2, <4>1 DEF Goes, After
      <4>4. CASE got \in DOMAIN snap
        <5>1. snap' = snap
          BY <4>1, <4>4 DEF Types
        <5>2. QED
          BY <2>1, <2>3, <2>6, <4>1, <4>2, <4>3, <4>4, <5>1 DEF DoesReceive
      <4>5. CASE got \notin DOMAIN snap
        <5>1. Captures(got, [snap[k] EXCEPT !.managed = FALSE, !.defer = FALSE])
          BY <4>1, <4>5 DEF Captures, IsFunction
        <5>2. QED
          BY <2>1, <2>3, <2>6, <4>1, <4>2, <4>3, <4>5, <5>1 DEF DoesReceive
      <4>6. QED
        BY <4>4, <4>5
    <3>3. QED
      BY <3>1, <3>2
  <2>7. QED
    BY <2>4, <2>5, <2>6
<1>8. ASSUME SetProperties(r) PROVE Stalls(r) \/ DoesSetProperties(r)
  <2>1. pc[r] = "props" /\ Running(r)
    BY <1>1, <1>8 DEF SetProperties
  <2>2. /\ Advance(r) => Goes(r, "props") /\ UNCHANGED origin
        /\ \A code : Throw(r, code) => Stalls(r)
        /\ \A step : SkipTo(r, step) => Moves(r, step) /\ UNCHANGED origin
        /\ \A d, props : Set(r, d, props) =>
             \/ Stalls(r)
             \/ /\ Goes(r, "props") /\ UNCHANGED <<snap, shares, origin>>
                /\ Changes(d, props)
    BY <2>1, AdvanceIs DEF Goes
  <2>3. Stalls(r) \/ (Goes(r, "props") /\ UNCHANGED <<snap, shares, origin>>
                         /\ Changes(Dest(call[r]), [ds[Dest(call[r])] EXCEPT !.managed = TRUE]))
    BY <1>8, <2>2 DEF SetProperties
  <2>4. QED
    BY <1>2, <2>1, <2>3 DEF DoesSetProperties, InItsPlace
<1>9. ASSUME StripSnapshots(r) PROVE Stalls(r) \/ DoesStripSnapshots(r)
  <2>1. pc[r] = "strip" /\ Running(r)
    BY <1>1, <1>9 DEF StripSnapshots
  <2>2. /\ Advance(r) => Goes(r, "strip") /\ UNCHANGED origin
        /\ \A code : Throw(r, code) => Stalls(r)
        /\ \A step : SkipTo(r, step) => Moves(r, step) /\ UNCHANGED origin
        /\ \A d, props : Set(r, d, props) =>
             \/ Stalls(r)
             \/ /\ Goes(r, "strip") /\ UNCHANGED <<snap, shares, origin>>
                /\ Changes(d, props)
    BY <2>1, AdvanceIs DEF Goes
  <2> DEFINE d == Dest(call[r])
  <2>3. call[r].detached /\ (Is(r, "CreateSnapshot") \/ (Is(r, "CreateVolume") /\ Copies(call[r])))
    BY <1>2, <2>1 DEF InItsPlace, Is
  <2>4. CASE Is(r, "CreateSnapshot")
    BY <1>9, <2>2, <2>3, <2>4, HelpersAre DEF StripSnapshots, OnlySnap, DoesStripSnapshots
  <2>5. CASE ~ Is(r, "CreateSnapshot") /\ HasClones(d)
    BY <1>9, <2>2, <2>5 DEF StripSnapshots, DoesStripSnapshots
  <2>6. CASE ~ Is(r, "CreateSnapshot") /\ ~ HasClones(d)
    <3>1. snap' = [k \in DOMAIN snap \ SnapsOf(d) |-> snap[k]] /\ OnlySnap(r)
      BY <1>9, <2>6 DEF StripSnapshots
    <3> DEFINE gone == SnapsOf(d)
    <3> HIDE DEF gone, d
    <3>2. Discards(gone)
      BY <3>1 DEF Discards, IsFunction, gone
    <3> USE DEF d
    <3>3. QED
      BY <2>2, <2>3, <2>6, <3>1, <3>2 DEF OnlySnap, DoesStripSnapshots, gone
  <2>7. QED
    BY <2>4, <2>5, <2>6
<1>10. ASSUME DropTemporary(r) PROVE DoesDropTemporary(r)
  <2>1. pc[r] = "untmp" /\ Running(r)
    BY <1>1, <1>10 DEF DropTemporary
  <2>2. /\ Advance(r) => Goes(r, "untmp") /\ UNCHANGED origin
        /\ \A code : Throw(r, code) => Stalls(r)
        /\ \A step : SkipTo(r, step) => Moves(r, step) /\ UNCHANGED origin
        /\ \A d, props : Set(r, d, props) =>
             \/ Stalls(r)
             \/ /\ Goes(r, "untmp") /\ UNCHANGED <<snap, shares, origin>>
                /\ Changes(d, props)
    BY <2>1, AdvanceIs DEF Goes
  <2>3. QED
    BY <1>2, <1>10, <2>1, <2>2, HelpersAre, DestIs
       DEF DropTemporary, OnlySnap, DoesDropTemporary, InItsPlace, Is
<1>11. ASSUME SetSize(r) PROVE Stalls(r) \/ DoesSetSize(r)
  <2>1. pc[r] = "size" /\ Running(r)
    BY <1>1, <1>11 DEF SetSize
  <2>2. /\ Advance(r) => Goes(r, "size") /\ UNCHANGED origin
        /\ \A code : Throw(r, code) => Stalls(r)
        /\ \A step : SkipTo(r, step) => Moves(r, step) /\ UNCHANGED origin
        /\ \A d, props : Set(r, d, props) =>
             \/ Stalls(r)
             \/ /\ Goes(r, "size") /\ UNCHANGED <<snap, shares, origin>>
                /\ Changes(d, props)
    BY <2>1, AdvanceIs DEF Goes
  <2>3. CASE Sized
    <3>1. Stalls(r) \/ (Goes(r, "size") /\ UNCHANGED <<snap, shares, origin>>
              /\ Changes(Dest(call[r]), [ds[Dest(call[r])] EXCEPT !.size = call[r].size]))
      BY <1>11, <2>2, <2>3 DEF SetSize
    <3>2. QED
      BY <2>3, <3>1 DEF DoesSetSize
  <2>4. CASE ~ Sized
    <3>1. Nothing(r)
      BY <1>11, <2>4 DEF SetSize
    <3>2. QED
      BY <2>2, <2>4, <3>1 DEF DoesSetSize, Nothing
  <2>5. QED
    BY <2>3, <2>4
<1>12. ASSUME CreateShare(r) PROVE Stalls(r) \/ DoesCreateShare(r)
  <2>1. pc[r] = "share" /\ Running(r)
    BY <1>1, <1>12 DEF CreateShare
  <2>2. /\ Advance(r) => Goes(r, "share") /\ UNCHANGED origin
        /\ \A code : Throw(r, code) => Stalls(r)
        /\ \A step : SkipTo(r, step) => Moves(r, step) /\ UNCHANGED origin
        /\ \A d, props : Set(r, d, props) =>
             \/ Stalls(r)
             \/ /\ Goes(r, "share") /\ UNCHANGED <<snap, shares, origin>>
                /\ Changes(d, props)
    BY <2>1, AdvanceIs DEF Goes
  <2>3. QED
    BY <1>2, <1>12, <2>1, <2>2, DestIs
       DEF CreateShare, OnlyShares, DoesCreateShare, InItsPlace, Is
<1>13. ASSUME SetContext(r) PROVE Stalls(r) \/ DoesSetContext(r)
  <2>1. pc[r] = "context" /\ Running(r)
    BY <1>1, <1>13 DEF SetContext
  <2>2. /\ Advance(r) => Goes(r, "context") /\ UNCHANGED origin
        /\ \A code : Throw(r, code) => Stalls(r)
        /\ \A step : SkipTo(r, step) => Moves(r, step) /\ UNCHANGED origin
        /\ \A d, props : Set(r, d, props) =>
             \/ Stalls(r)
             \/ /\ Goes(r, "context") /\ UNCHANGED <<snap, shares, origin>>
                /\ Changes(d, props)
    BY <2>1, AdvanceIs DEF Goes
  <2>3. Stalls(r) \/ (Goes(r, "context") /\ UNCHANGED <<snap, shares, origin>>
                         /\ Changes(Dest(call[r]), [ds[Dest(call[r])] EXCEPT !.context = TRUE]))
    BY <1>13, <2>2 DEF SetContext
  <2>4. QED
    BY <1>2, <2>1, <2>3 DEF DoesSetContext, InItsPlace, Is
<1>14. ASSUME SetSuccess(r) PROVE Stalls(r) \/ DoesSetSuccess(r)
  <2>1. pc[r] = "success" /\ Running(r)
    BY <1>1, <1>14 DEF SetSuccess
  <2>2. /\ Advance(r) => Goes(r, "success") /\ UNCHANGED origin
        /\ \A code : Throw(r, code) => Stalls(r)
        /\ \A step : SkipTo(r, step) => Moves(r, step) /\ UNCHANGED origin
        /\ \A d, props : Set(r, d, props) =>
             \/ Stalls(r)
             \/ /\ Goes(r, "success") /\ UNCHANGED <<snap, shares, origin>>
                /\ Changes(d, props)
    BY <2>1, AdvanceIs DEF Goes
  <2>3. CASE Is(r, "CreateVolume") \/ call[r].detached
    <3>1. Stalls(r) \/ (Goes(r, "success") /\ UNCHANGED <<snap, shares, origin>>
              /\ Changes(Dest(call[r]), [ds[Dest(call[r])] EXCEPT !.success = TRUE]))
      BY <1>14, <2>2, <2>3 DEF SetSuccess, Is
    <3>2. QED
      BY <2>3, <3>1 DEF DoesSetSuccess
  <2>4. CASE ~ (Is(r, "CreateVolume") \/ call[r].detached)
    <3>1. (SnapOf(IdOf(call[r])) \in DOMAIN snap /\ Nothing(r)) \/ Throw(r, "UNKNOWN")
      BY <1>14, <2>4 DEF SetSuccess, Is
    <3>2. QED
      BY <2>2, <2>4, <3>1 DEF DoesSetSuccess, Nothing
  <2>5. QED
    BY <2>3, <2>4
<1>15. ASSUME ReadOrigin(r) PROVE DoesReadOrigin(r)
  <2>1. pc[r] = "read" /\ Running(r)
    BY <1>1, <1>15 DEF ReadOrigin
  <2>2. /\ Advance(r) => Goes(r, "read") /\ UNCHANGED origin
        /\ \A code : Throw(r, code) => Stalls(r)
        /\ \A step : SkipTo(r, step) => Moves(r, step) /\ UNCHANGED origin
        /\ \A d, props : Set(r, d, props) =>
             \/ Stalls(r)
             \/ /\ Goes(r, "read") /\ UNCHANGED <<snap, shares, origin>>
                /\ Changes(d, props)
    BY <2>1, AdvanceIs DEF Goes
  <2>3. StepAfter(call[r], "read") = After(r, "read")
    BY <1>2, <2>1, StepAfterIs
  <2>4. Goes(r, "read")
    BY <1>15, <2>1, <2>3 DEF ReadOrigin, Goes, Moves, options, ghosts, bounds
  <2>5. QED
    BY <1>2, <1>15, <2>1, <2>4 DEF ReadOrigin, DoesReadOrigin, InItsPlace, Is
<1>16. ASSUME DeleteShare(r) PROVE DoesDeleteShare(r)
  <2>1. pc[r] = "unshare" /\ Running(r)
    BY <1>1, <1>16 DEF DeleteShare
  <2>2. /\ Advance(r) => Goes(r, "unshare") /\ UNCHANGED origin
        /\ \A code : Throw(r, code) => Stalls(r)
        /\ \A step : SkipTo(r, step) => Moves(r, step) /\ UNCHANGED origin
        /\ \A d, props : Set(r, d, props) =>
             \/ Stalls(r)
             \/ /\ Goes(r, "unshare") /\ UNCHANGED <<snap, shares, origin>>
                /\ Changes(d, props)
    BY <2>1, AdvanceIs DEF Goes
  <2>3. QED
    BY <1>2, <1>16, <2>1, <2>2, DestIs
       DEF DeleteShare, OnlyShares, DoesDeleteShare, InItsPlace, Is
<1>17. ASSUME DeferOrigin(r) PROVE DoesDeferOrigin(r)
  <2>1. pc[r] = "origin" /\ Running(r)
    BY <1>1, <1>17 DEF DeferOrigin
  <2>2. /\ Advance(r) => Goes(r, "origin") /\ UNCHANGED origin
        /\ \A code : Throw(r, code) => Stalls(r)
        /\ \A step : SkipTo(r, step) => Moves(r, step) /\ UNCHANGED origin
        /\ \A d, props : Set(r, d, props) =>
             \/ Stalls(r)
             \/ /\ Goes(r, "origin") /\ UNCHANGED <<snap, shares, origin>>
                /\ Changes(d, props)
    BY <2>1, AdvanceIs DEF Goes
  <2>3. QED
    BY <1>2, <1>17, <2>1, <2>2, HelpersAre, DestIs
       DEF DeferOrigin, OnlySnap, DoesDeferOrigin, InItsPlace, Is
<1>18. ASSUME CheckManaged(r) PROVE Stalls(r) \/ DoesCheckManaged(r)
  <2>1. pc[r] = "managed" /\ Running(r)
    BY <1>1, <1>18 DEF CheckManaged
  <2>2. /\ Advance(r) => Goes(r, "managed") /\ UNCHANGED origin
        /\ \A code : Throw(r, code) => Stalls(r)
        /\ \A step : SkipTo(r, step) => Moves(r, step) /\ UNCHANGED origin
        /\ \A d, props : Set(r, d, props) =>
             \/ Stalls(r)
             \/ /\ Goes(r, "managed") /\ UNCHANGED <<snap, shares, origin>>
                /\ Changes(d, props)
    BY <2>1, AdvanceIs DEF Goes
  <2>3. QED
    BY <1>2, <1>18, <2>1, <2>2, DestIs
       DEF CheckManaged, Nothing, DoesCheckManaged, InItsPlace, Is
<1>19. ASSUME DestroyVolume(r) PROVE Stalls(r) \/ DoesDestroyVolume(r)
  <2>1. pc[r] = "destroy" /\ Running(r)
    BY <1>1, <1>19 DEF DestroyVolume
  <2>2. /\ Advance(r) => Goes(r, "destroy") /\ UNCHANGED origin
        /\ \A code : Throw(r, code) => Stalls(r)
        /\ \A step : SkipTo(r, step) => Moves(r, step) /\ UNCHANGED origin
        /\ \A d, props : Set(r, d, props) =>
             \/ Stalls(r)
             \/ /\ Goes(r, "destroy") /\ UNCHANGED <<snap, shares, origin>>
                /\ Changes(d, props)
    BY <2>1, AdvanceIs DEF Goes
  <2>3. QED
    BY <1>2, <1>19, <2>1, <2>2, HelpersAre, DestIs
       DEF DestroyVolume, DoesDestroyVolume, InItsPlace, Is
<1>20. ASSUME CheckName(r) PROVE Stalls(r) \/ DoesCheckName(r)
  <2>1. pc[r] = "check" /\ Running(r)
    BY <1>1, <1>20 DEF CheckName
  <2>2. /\ Advance(r) => Goes(r, "check") /\ UNCHANGED origin
        /\ \A code : Throw(r, code) => Stalls(r)
        /\ \A step : SkipTo(r, step) => Moves(r, step) /\ UNCHANGED origin
        /\ \A d, props : Set(r, d, props) =>
             \/ Stalls(r)
             \/ /\ Goes(r, "check") /\ UNCHANGED <<snap, shares, origin>>
                /\ Changes(d, props)
    BY <2>1, AdvanceIs DEF Goes
  <2>3. QED
    BY <1>2, <1>20, <2>1, <2>2, DestIs
       DEF CheckName, Nothing, DoesCheckName, InItsPlace, Is
<1>21. ASSUME TakeSnapshot(r) PROVE Stalls(r) \/ DoesTakeSnapshot(r)
  <2>1. pc[r] = "take" /\ Running(r)
    BY <1>1, <1>21 DEF TakeSnapshot
  <2>2. /\ Advance(r) => Goes(r, "take") /\ UNCHANGED origin
        /\ \A code : Throw(r, code) => Stalls(r)
        /\ \A step : SkipTo(r, step) => Moves(r, step) /\ UNCHANGED origin
        /\ \A d, props : Set(r, d, props) =>
             \/ Stalls(r)
             \/ /\ Goes(r, "take") /\ UNCHANGED <<snap, shares, origin>>
                /\ Changes(d, props)
    BY <2>1, AdvanceIs DEF Goes
  <2>3. QED
    BY <1>2, <1>21, <2>1, <2>2, HelpersAre, DestIs
       DEF TakeSnapshot, OnlySnap, DoesTakeSnapshot, InItsPlace, Is
<1>22. ASSUME CreateContainer(r) PROVE DoesCreateContainer(r)
  <2>1. pc[r] = "container" /\ Running(r)
    BY <1>1, <1>22 DEF CreateContainer
  <2>2. /\ Advance(r) => Goes(r, "container") /\ UNCHANGED origin
        /\ \A code : Throw(r, code) => Stalls(r)
        /\ \A step : SkipTo(r, step) => Moves(r, step) /\ UNCHANGED origin
        /\ \A d, props : Set(r, d, props) =>
             \/ Stalls(r)
             \/ /\ Goes(r, "container") /\ UNCHANGED <<snap, shares, origin>>
                /\ Changes(d, props)
    BY <2>1, AdvanceIs DEF Goes
  <2>3. QED
    BY <1>2, <1>22, <2>1, <2>2, HelpersAre, DestIs
       DEF CreateContainer, OnlyDs, DoesCreateContainer, InItsPlace, Is
<1>23. ASSUME ReleaseSnapshot(r) PROVE DoesReleaseSnapshot(r)
  <2>1. pc[r] = "release" /\ Running(r)
    BY <1>1, <1>23 DEF ReleaseSnapshot
  <2>2. /\ Advance(r) => Goes(r, "release") /\ UNCHANGED origin
        /\ \A code : Throw(r, code) => Stalls(r)
        /\ \A step : SkipTo(r, step) => Moves(r, step) /\ UNCHANGED origin
        /\ \A d, props : Set(r, d, props) =>
             \/ Stalls(r)
             \/ /\ Goes(r, "release") /\ UNCHANGED <<snap, shares, origin>>
                /\ Changes(d, props)
    BY <2>1, AdvanceIs DEF Goes
  <2>3. QED
    BY <1>2, <1>23, <2>1, <2>2, HelpersAre, DestIs
       DEF ReleaseSnapshot, OnlySnap, DoesReleaseSnapshot, InItsPlace, Is
<1>24. ASSUME DestroyDetached(r) PROVE Stalls(r) \/ DoesDestroyDetached(r)
  <2>1. pc[r] = "destroy" /\ Running(r)
    BY <1>1, <1>24 DEF DestroyDetached
  <2>2. /\ Advance(r) => Goes(r, "destroy") /\ UNCHANGED origin
        /\ \A code : Throw(r, code) => Stalls(r)
        /\ \A step : SkipTo(r, step) => Moves(r, step) /\ UNCHANGED origin
        /\ \A d, props : Set(r, d, props) =>
             \/ Stalls(r)
             \/ /\ Goes(r, "destroy") /\ UNCHANGED <<snap, shares, origin>>
                /\ Changes(d, props)
    BY <2>1, AdvanceIs DEF Goes
  <2>3. QED
    BY <1>2, <1>24, <2>1, <2>2, HelpersAre, DestIs
       DEF DestroyDetached, DoesDestroyDetached, InItsPlace, Is
<1>25. ASSUME DestroyContainer(r) PROVE DoesDestroyContainer(r)
  <2>1. pc[r] = "uncontain" /\ Running(r)
    BY <1>1, <1>25 DEF DestroyContainer
  <2>2. /\ Advance(r) => Goes(r, "uncontain") /\ UNCHANGED origin
        /\ \A code : Throw(r, code) => Stalls(r)
        /\ \A step : SkipTo(r, step) => Moves(r, step) /\ UNCHANGED origin
        /\ \A d, props : Set(r, d, props) =>
             \/ Stalls(r)
             \/ /\ Goes(r, "uncontain") /\ UNCHANGED <<snap, shares, origin>>
                /\ Changes(d, props)
    BY <2>1, AdvanceIs DEF Goes
  <2>3. Goes(r, "uncontain") /\ UNCHANGED <<snap, shares, origin>>
    BY <1>25, <2>2 DEF DestroyContainer, OnlyDs
  <2> DEFINE v == call[r].source[2]
  <2>4. IF \E d \in DOMAIN ds : d[1] = "det" /\ d[2] = v THEN ds' = ds ELSE Removes(Con(v))
    BY <1>25 DEF DestroyContainer, Removes, IsFunction
  <2>5. QED
    BY <1>2, <2>1, <2>3, <2>4 DEF DoesDestroyContainer, InItsPlace, Is
<1>26. QED
  BY <1>3, <1>4, <1>5, <1>6, <1>7, <1>8, <1>9, <1>10, <1>11, <1>12, <1>13, <1>14, <1>15, <1>16,
     <1>17, <1>18, <1>19, <1>20, <1>21, <1>22, <1>23, <1>24, <1>25

----------------------------------------------------------------------------
(* Steps.                                                                  *)

\* A step of a handler other than its last.
Works(r) ==
    \/ DoesCheckSize(r) \/ DoesCreate(r) \/ DoesTakeTemporary(r) \/ DoesClone(r)
    \/ DoesReceive(r) \/ DoesSetProperties(r) \/ DoesStripSnapshots(r)
    \/ DoesDropTemporary(r) \/ DoesSetSize(r) \/ DoesCreateShare(r)
    \/ DoesSetContext(r) \/ DoesSetSuccess(r) \/ DoesReadOrigin(r)
    \/ DoesDeleteShare(r) \/ DoesDeferOrigin(r) \/ DoesCheckManaged(r)
    \/ DoesDestroyVolume(r) \/ DoesCheckName(r) \/ DoesTakeSnapshot(r)
    \/ DoesCreateContainer(r) \/ DoesReleaseSnapshot(r) \/ DoesDestroyDetached(r)
    \/ DoesDestroyContainer(r)

\* Where it leads.
LEMMA WorksMoves ==
  ASSUME Types, NEW r \in Requests, Works(r)
  PROVE  /\ Running(r) /\ pc[r] # "reply"
         /\ \/ Moves(r, After(r, pc[r]))
            \/ Moves(r, "strip") /\ pc[r] = "receive"
<1>1. CASE DoesCheckSize(r)
  BY <1>1 DEF DoesCheckSize, Goes
<1>2. CASE DoesCreate(r)
  BY <1>2 DEF DoesCreate, Goes
<1>3. CASE DoesTakeTemporary(r)
  BY <1>3 DEF DoesTakeTemporary, Goes
<1>4. CASE DoesClone(r)
  BY <1>4 DEF DoesClone, Goes
<1>5. CASE DoesReceive(r)
  BY <1>5 DEF DoesReceive, Goes, After
<1>6. CASE DoesSetProperties(r)
  BY <1>6 DEF DoesSetProperties, Goes
<1>7. CASE DoesStripSnapshots(r)
  BY <1>7 DEF DoesStripSnapshots, Goes
<1>8. CASE DoesDropTemporary(r)
  BY <1>8 DEF DoesDropTemporary, Goes
<1>9. CASE DoesSetSize(r)
  BY <1>9 DEF DoesSetSize, Goes
<1>10. CASE DoesCreateShare(r)
  BY <1>10 DEF DoesCreateShare, Goes
<1>11. CASE DoesSetContext(r)
  BY <1>11 DEF DoesSetContext, Goes
<1>12. CASE DoesSetSuccess(r)
  BY <1>12 DEF DoesSetSuccess, Goes
<1>13. CASE DoesReadOrigin(r)
  BY <1>13 DEF DoesReadOrigin, Goes
<1>14. CASE DoesDeleteShare(r)
  BY <1>14 DEF DoesDeleteShare, Goes
<1>15. CASE DoesDeferOrigin(r)
  BY <1>15 DEF DoesDeferOrigin, Goes
<1>16. CASE DoesCheckManaged(r)
  BY <1>16 DEF DoesCheckManaged, Goes
<1>17. CASE DoesDestroyVolume(r)
  BY <1>17 DEF DoesDestroyVolume, Goes
<1>18. CASE DoesCheckName(r)
  BY <1>18 DEF DoesCheckName, Goes
<1>19. CASE DoesTakeSnapshot(r)
  BY <1>19 DEF DoesTakeSnapshot, Goes
<1>20. CASE DoesCreateContainer(r)
  BY <1>20 DEF DoesCreateContainer, Goes
<1>21. CASE DoesReleaseSnapshot(r)
  BY <1>21 DEF DoesReleaseSnapshot, Goes
<1>22. CASE DoesDestroyDetached(r)
  BY <1>22 DEF DoesDestroyDetached, Goes
<1>23. CASE DoesDestroyContainer(r)
  BY <1>23 DEF DoesDestroyContainer, Goes
<1>24. QED
  BY <1>1, <1>2, <1>3, <1>4, <1>5, <1>6, <1>7, <1>8, <1>9, <1>10, <1>11, <1>12, <1>13, <1>14,
     <1>15, <1>16, <1>17, <1>18, <1>19, <1>20, <1>21, <1>22, <1>23 DEF Works

\* The steps of the specification.
LEMMA StepsOfNext ==
  ASSUME Types, [Next]_vars
  PROVE  \/ UNCHANGED vars
         \/ Restart
         \/ \E v \in Writable : Write(v)
         \/ \E r \in Requests : Start(r) \/ Works(r) \/ Reply(r) \/ Stalls(r)
<1>1. ASSUME NEW r \in Requests, Handle(r)
      PROVE  Works(r) \/ Reply(r) \/ Stalls(r)
  BY <1>1, ActionsAre DEF Handle, VolumeStep, CopyStep, SnapshotStep, Works
<1>2. ASSUME NEW r \in Requests, Fail(r)
      PROVE  Stalls(r)
  BY <1>2 DEF Fail, Stalls, Moves, options, pool, ghosts
<1>3. QED
  BY <1>1, <1>2 DEF Next, Quiet

\* The two other steps of a request.
LEMMA StartIs ==
  ASSUME Types, NEW r \in Requests, Start(r)
  PROVE  /\ pc[r] \in {"idle", "pending"} /\ (pc[r] = "idle" => MaySend(r))
         /\ \A q \in Requests \ {r} :
              ~ (Running(q) /\ Keys(call[q]) \cap Keys(call[r]) # {})
         /\ pc' = [pc EXCEPT ![r] = First(call[r])]
         /\ since' = IF Sent(r) \/ ~ CopiesVolume(call[r]) THEN since
                     ELSE [since EXCEPT ![r] = ds[From(call[r])].content]
         /\ UNCHANGED <<call, resourceType, origin, pool, promised, captured, writes, faults>>
<1>1. Head(Steps(call[r])) = First(call[r])
  BY StepAfterIs DEF Types
<1>2. QED
  BY <1>1 DEF Start, Locked, options, bounds

\* A reply ends the call, and settles what was promised and captured.
LEMMA ReplyIs ==
  ASSUME Types, NEW r \in Requests, Reply(r)
  PROVE  /\ pc[r] = "reply" /\ Running(r)
         /\ pc' = [pc EXCEPT ![r] = "done"]
         /\ promised' = Promised(call[r])
         /\ captured' =
              IF call[r].method = "CreateSnapshot" /\ IdOf(call[r]) \notin DOMAIN captured
              THEN [x \in DOMAIN captured \cup {IdOf(call[r])} |->
                      IF x \in DOMAIN captured THEN captured[x]
                      ELSE IF call[r].detached THEN ds[Dest(call[r])].content
                                               ELSE snap[SnapOf(IdOf(call[r]))].content]
              ELSE captured
         /\ UNCHANGED <<call, resourceType, origin, pool, since, writes, faults>>
BY DEF Reply, On, options, bounds, Running

\* What every step leaves as it is, and what a step that neither sends nor answers a call
\* leaves too.
Forward ==
    /\ UNCHANGED <<call, resourceType>>
    /\ \A q \in Requests :
         /\ Sent(q) => Sent(q)' /\ since'[q] = since[q]
         /\ pc[q] = "done" => pc'[q] = "done"
    /\ DOMAIN promised \subseteq DOMAIN promised'
    /\ DOMAIN captured \subseteq DOMAIN captured'
    /\ \A sid \in DOMAIN captured : captured'[sid] = captured[sid]

\* What a step that acknowledges nothing does to requests: they stay where they are, or
\* go on.
Onward ==
    /\ UNCHANGED <<call, resourceType, since, promised, captured>>
    /\ \A q \in Requests :
         \/ pc'[q] = pc[q]
         \/ Running(q) /\ pc'[q] \in Places \ {"idle", "done"}

\* Where a step leads is a place of the call.
LEMMA AfterIsPlace ==
  ASSUME call \in Plans, NEW r \in Requests, InItsPlace(r), Running(r), pc[r] # "reply"
  PROVE  /\ After(r, pc[r]) \in Places \ {"idle", "done"}
         /\ call' = call /\ pc'[r] = After(r, pc[r]) => InItsPlace(r)'
         /\ call' = call /\ pc'[r] = "strip" /\ pc[r] = "receive" => InItsPlace(r)'
<1> DEFINE c == call[r]
<1>1. c.method \in Methods
  BY CallsAre
<1>2. c.source[1] \in {"none", "volume", "snapshot", "detached"}
  BY SourcesAre
<1>3. c.method = "DeleteSnapshot" => c.source[1] \in {"snapshot", "detached"}
  BY CallsAre DEF SnapshotIds
<1>4. After(r, pc[r]) \in Places \ {"idle", "done"}
  BY DEF After, Places, StepNames
<1>5. ASSUME call' = call, pc'[r] = After(r, pc[r]) PROVE InItsPlace(r)'
  <2> DEFINE p == pc'[r]
  <2>1. p \in Places /\ c' = c
    BY <1>4, <1>5
  <2>2. CASE pc[r] = "check"
    <3>1. p = After(r, "check")
      BY <1>5, <2>2
    <3>2. QED
      BY <1>1, <1>2, <1>3, <1>5, <2>1, <2>2, <3>1
         DEF After, InItsPlace, Methods, Copies, Received, Cloned
  <2>3. CASE pc[r] = "create"
    <3>1. p = After(r, "create")
      BY <1>5, <2>3
    <3>2. QED
      BY <1>1, <1>2, <1>3, <1>5, <2>1, <2>3, <3>1
         DEF After, InItsPlace, Methods, Copies, Received, Cloned
  <2>4. CASE pc[r] = "clone"
    <3>1. p = After(r, "clone")
      BY <1>5, <2>4
    <3>2. QED
      BY <1>1, <1>2, <1>3, <1>5, <2>1, <2>4, <3>1
         DEF After, InItsPlace, Methods, Copies, Received, Cloned
  <2>5. CASE pc[r] = "receive"
    <3>1. p = After(r, "receive")
      BY <1>5, <2>5
    <3>2. QED
      BY <1>1, <1>2, <1>3, <1>5, <2>1, <2>5, <3>1
         DEF After, InItsPlace, Methods, Copies, Received, Cloned
  <2>6. CASE pc[r] = "props"
    <3>1. p = After(r, "props")
      BY <1>5, <2>6
    <3>2. QED
      BY <1>1, <1>2, <1>3, <1>5, <2>1, <2>6, <3>1
         DEF After, InItsPlace, Methods, Copies, Received, Cloned
  <2>7. CASE pc[r] = "strip"
    <3>1. p = After(r, "strip")
      BY <1>5, <2>7
    <3>2. QED
      BY <1>1, <1>2, <1>3, <1>5, <2>1, <2>7, <3>1
         DEF After, InItsPlace, Methods, Copies, Received, Cloned
  <2>8. CASE pc[r] = "tmp"
    <3>1. p = After(r, "tmp")
      BY <1>5, <2>8
    <3>2. QED
      BY <1>1, <1>2, <1>3, <1>5, <2>1, <2>8, <3>1
         DEF After, InItsPlace, Methods, Copies, Received, Cloned
  <2>9. CASE pc[r] = "untmp"
    <3>1. p = After(r, "untmp")
      BY <1>5, <2>9
    <3>2. QED
      BY <1>1, <1>2, <1>3, <1>5, <2>1, <2>9, <3>1
         DEF After, InItsPlace, Methods, Copies, Received, Cloned
  <2>10. CASE pc[r] = "size"
    <3>1. p = After(r, "size")
      BY <1>5, <2>10
    <3>2. QED
      BY <1>1, <1>2, <1>3, <1>5, <2>1, <2>10, <3>1
         DEF After, InItsPlace, Methods, Copies, Received, Cloned
  <2>11. CASE pc[r] = "share"
    <3>1. p = After(r, "share")
      BY <1>5, <2>11
    <3>2. QED
      BY <1>1, <1>2, <1>3, <1>5, <2>1, <2>11, <3>1
         DEF After, InItsPlace, Methods, Copies, Received, Cloned
  <2>12. CASE pc[r] = "context"
    <3>1. p = After(r, "context")
      BY <1>5, <2>12
    <3>2. QED
      BY <1>1, <1>2, <1>3, <1>5, <2>1, <2>12, <3>1
         DEF After, InItsPlace, Methods, Copies, Received, Cloned
  <2>13. CASE pc[r] = "success"
    <3>1. p = After(r, "success")
      BY <1>5, <2>13
    <3>2. QED
      BY <1>1, <1>2, <1>3, <1>5, <2>1, <2>13, <3>1
         DEF After, InItsPlace, Methods, Copies, Received, Cloned
  <2>14. CASE pc[r] = "container"
    <3>1. p = After(r, "container")
      BY <1>5, <2>14
    <3>2. QED
      BY <1>1, <1>2, <1>3, <1>5, <2>1, <2>14, <3>1
         DEF After, InItsPlace, Methods, Copies, Received, Cloned
  <2>15. CASE pc[r] = "take"
    <3>1. p = After(r, "take")
      BY <1>5, <2>15
    <3>2. QED
      BY <1>1, <1>2, <1>3, <1>5, <2>1, <2>15, <3>1
         DEF After, InItsPlace, Methods, Copies, Received, Cloned
  <2>16. CASE pc[r] = "read"
    <3>1. p = After(r, "read")
      BY <1>5, <2>16
    <3>2. QED
      BY <1>1, <1>2, <1>3, <1>5, <2>1, <2>16, <3>1
         DEF After, InItsPlace, Methods, Copies, Received, Cloned
  <2>17. CASE pc[r] = "unshare"
    <3>1. p = After(r, "unshare")
      BY <1>5, <2>17
    <3>2. QED
      BY <1>1, <1>2, <1>3, <1>5, <2>1, <2>17, <3>1
         DEF After, InItsPlace, Methods, Copies, Received, Cloned
  <2>18. CASE pc[r] = "origin"
    <3>1. p = After(r, "origin")
      BY <1>5, <2>18
    <3>2. QED
      BY <1>1, <1>2, <1>3, <1>5, <2>1, <2>18, <3>1
         DEF After, InItsPlace, Methods, Copies, Received, Cloned
  <2>19. CASE pc[r] = "managed"
    <3>1. p = After(r, "managed")
      BY <1>5, <2>19
    <3>2. QED
      BY <1>1, <1>2, <1>3, <1>5, <2>1, <2>19, <3>1
         DEF After, InItsPlace, Methods, Copies, Received, Cloned
  <2>20. CASE pc[r] = "destroy"
    <3>1. p = After(r, "destroy")
      BY <1>5, <2>20
    <3>2. QED
      BY <1>1, <1>2, <1>3, <1>5, <2>1, <2>20, <3>1
         DEF After, InItsPlace, Methods, Copies, Received, Cloned
  <2>21. CASE pc[r] = "uncontain"
    <3>1. p = After(r, "uncontain")
      BY <1>5, <2>21
    <3>2. QED
      BY <1>1, <1>2, <1>3, <1>5, <2>1, <2>21, <3>1
         DEF After, InItsPlace, Methods, Copies, Received, Cloned
  <2>22. CASE pc[r] = "release"
    <3>1. p = After(r, "release")
      BY <1>5, <2>22
    <3>2. QED
      BY <1>1, <1>2, <1>3, <1>5, <2>1, <2>22, <3>1
         DEF After, InItsPlace, Methods, Copies, Received, Cloned
  <2>23. QED
    BY <2>2, <2>3, <2>4, <2>5, <2>6, <2>7, <2>8, <2>9, <2>10, <2>11, <2>12, <2>13, <2>14,
       <2>15, <2>16, <2>17, <2>18, <2>19, <2>20, <2>21, <2>22 DEF InItsPlace, Places,
       StepNames, Running
<1>6. ASSUME call' = call, pc'[r] = "strip", pc[r] = "receive" PROVE InItsPlace(r)'
  BY <1>6 DEF InItsPlace, Places, StepNames, Copies
<1>7. QED
  BY <1>4, <1>5, <1>6

\* Most steps go onward.
LEMMA OnwardIs ==
  ASSUME Types, [Next]_vars
  PROVE  Onward \/ \E r \in Requests : Start(r) \/ Reply(r)
<1>1. \A r \in Requests : pc[r] \in Places
  BY DEF Types
<1>2. ASSUME NEW r \in Requests, NEW p \in Places \ {"idle", "done"}, Running(r), Moves(r, p)
      PROVE  Onward
  BY <1>1, <1>2 DEF Onward, Moves, Types
<1>3. CASE UNCHANGED vars
  BY <1>3 DEF vars, options, ghosts, Onward
<1>4. CASE Restart
  BY <1>4 DEF Restart, options, ghosts, Onward, Places
<1>5. CASE \E v \in Writable : Write(v)
  BY <1>5 DEF Write, options, ghosts, Onward
<1>6. ASSUME NEW r \in Requests, Works(r) PROVE Onward
  <2>1. "strip" \in Places \ {"idle", "done"}
    BY DEF Places, StepNames
  <2>2. QED
    BY <1>2, <1>6, <2>1, WorksMoves, AfterIsPlace DEF Types
<1>7. ASSUME NEW r \in Requests, Stalls(r) PROVE Onward
  BY <1>2, <1>7 DEF Stalls, Places
<1>8. QED
  BY <1>3, <1>4, <1>5, <1>6, <1>7, StepsOfNext

\* What was sent stays sent.
LEMMA ForwardIs ==
  ASSUME Types, [Next]_vars
  PROVE  Forward
<1>1. CASE Onward
  BY <1>1 DEF Onward, Forward, Sent, Running
<1>2. ASSUME NEW r \in Requests, Start(r) PROVE Forward
  <2>1. First(call[r]) # "idle"
    BY CallsAre DEF First, Types, Methods
  <2>2. QED
    BY <1>2, <2>1, StartIs DEF Forward, Sent, Types
<1>3. ASSUME NEW r \in Requests, Reply(r) PROVE Forward
  <2>1. DOMAIN promised \subseteq DOMAIN promised'
    BY <1>3, ReplyIs DEF Promised
  <2>2. /\ DOMAIN captured \subseteq DOMAIN captured'
        /\ \A sid \in DOMAIN captured : captured'[sid] = captured[sid]
    BY <1>3, ReplyIs
  <2>3. QED
    BY <1>3, <2>1, <2>2, ReplyIs DEF Forward, Sent, Types
<1>4. QED
  BY <1>1, <1>2, <1>3, OnwardIs

----------------------------------------------------------------------------
(* Who may be at what.                                                     *)

\* Calls do not change, nor what they are for.
LEMMA CallsStay ==
  ASSUME call' = call
  PROVE  \A q \in Requests :
           /\ \A m : Is(q, m)' <=> Is(q, m)
           /\ \A v : /\ Creates(q, v)' <=> Creates(q, v)
                     /\ Deletes(q, v)' <=> Deletes(q, v)
                     /\ Expands(q, v)' <=> Expands(q, v)
           /\ \A sid : (Takes(q, sid)' <=> Takes(q, sid)) /\ (Drops(q, sid)' <=> Drops(q, sid))
BY DEF Is, Creates, Deletes, Expands, Takes, Drops

\* A call is first sent when it may be.
LEMMA SendingIsAllowed ==
  ASSUME Types, NEW r \in Requests, pc[r] = "idle", Start(r)
  PROVE  /\ \A v \in Volumes, q \in Requests :
              /\ Creates(r, v) /\ Deletes(q, v) => ~ Sent(q)
              /\ Deletes(r, v) /\ Creates(q, v) => ~ Unfinished(q)
              /\ Expands(r, v) /\ Creates(q, v) => pc[q] = "done"
              /\ Expands(r, v) /\ Expands(q, v) => ~ Unfinished(q)
         /\ \A sid \in SnapshotIds, q \in Requests :
              /\ Takes(r, sid) /\ Drops(q, sid) => ~ Sent(q)
              /\ Drops(r, sid) /\ Takes(q, sid) => ~ Unfinished(q)
         /\ call[r].method \in {"DeleteVolume", "ControllerExpandVolume", "CreateSnapshot"}
              => OwnsVolume(call[r].volume)
         /\ Is(r, "ControllerExpandVolume") => call[r].size >= promised[call[r].volume]
         /\ Is(r, "DeleteSnapshot") => OwnsSnapshot(call[r].source)
         /\ Is(r, "CreateVolume") =>
              \/ call[r].source[1] = "none"
              \/ call[r].source[1] = "volume" /\ OwnsVolume(call[r].source[2])
              \/ call[r].source \in SnapshotIds /\ OwnsSnapshot(call[r].source)
<1> DEFINE c == call[r]
<1>1. MaySend(r) /\ c.method \in Methods
  BY StartIs, CallsAre DEF Types
<1>2. CASE c.method = "CreateVolume"
  BY <1>1, <1>2 DEF MaySend, Creates, Deletes, Expands, Takes, Drops, Is
<1>3. CASE c.method = "DeleteVolume"
  BY <1>1, <1>3 DEF MaySend, Creates, Deletes, Expands, Takes, Drops, Is
<1>4. CASE c.method = "ControllerExpandVolume"
  BY <1>1, <1>4 DEF MaySend, Creates, Deletes, Expands, Takes, Drops, Is
<1>5. CASE c.method = "CreateSnapshot"
  BY <1>1, <1>5 DEF MaySend, Creates, Deletes, Expands, Takes, Drops, Is
<1>6. CASE c.method = "DeleteSnapshot"
  BY <1>1, <1>6 DEF MaySend, Creates, Deletes, Expands, Takes, Drops, Is
<1>7. QED
  BY <1>1, <1>2, <1>3, <1>4, <1>5, <1>6 DEF Methods

\* Nothing unwanted is being made.
LEMMA UnwantedStaysSettled ==
  ASSUME Types, UnwantedIsSettled, [Next]_vars
  PROVE  UnwantedIsSettled'
<1>1. call' = call
  BY ForwardIs DEF Forward
<1>2. SUFFICES ASSUME NEW q \in Requests, NEW r \in Requests, Sent(q)'
               PROVE  /\ \A v \in Volumes : Deletes(q, v) /\ Creates(r, v) => ~ Unfinished(r)'
                      /\ \A v \in Volumes : Expands(q, v) /\ Creates(r, v) => pc'[r] = "done"
                      /\ \A v \in Volumes : Expands(q, v) /\ Expands(r, v) /\ q # r
                                              => ~ (Unfinished(q)' /\ Unfinished(r)')
                      /\ \A sid \in SnapshotIds : Drops(q, sid) /\ Takes(r, sid)
                                              => ~ Unfinished(r)'
  BY <1>1, CallsStay DEF UnwantedIsSettled
<1>3. Sent(q) =>
      /\ \A v \in Volumes : Deletes(q, v) /\ Creates(r, v) => ~ Unfinished(r)
      /\ \A v \in Volumes : Expands(q, v) /\ Creates(r, v) => pc[r] = "done"
      /\ \A v \in Volumes : Expands(q, v) /\ Expands(r, v) /\ q # r
                               => ~ (Unfinished(q) /\ Unfinished(r))
      /\ \A sid \in SnapshotIds : Drops(q, sid) /\ Takes(r, sid) => ~ Unfinished(r)
  BY DEF UnwantedIsSettled
<1>4. CASE Sent(q) /\ (Unfinished(q)' => Unfinished(q)) /\ (Unfinished(r)' => Unfinished(r))
  <2>1. pc[r] = "done" => pc'[r] = "done"
    BY ForwardIs DEF Forward
  <2>2. QED
    BY <1>3, <1>4, <2>1
<1>5. CASE Onward \/ \E p \in Requests : Reply(p)
  <2>1. \A x \in Requests : (Unfinished(x)' => Unfinished(x)) /\ (Sent(x)' => Sent(x))
    <3>1. CASE Onward
      BY <3>1 DEF Onward, Unfinished, Sent, Running
    <3>2. ASSUME NEW p \in Requests, Reply(p)
          PROVE  \A x \in Requests : (Unfinished(x)' => Unfinished(x)) /\ (Sent(x)' => Sent(x))
      BY <3>2, ReplyIs DEF Unfinished, Sent, Types
    <3>3. QED
      BY <1>5, <3>1, <3>2
  <2>2. QED
    BY <1>2, <1>4, <2>1
<1>6. ASSUME NEW p \in Requests, Start(p)
      PROVE  /\ \A v \in Volumes : Deletes(q, v) /\ Creates(r, v) => ~ Unfinished(r)'
             /\ \A v \in Volumes : Expands(q, v) /\ Creates(r, v) => pc'[r] = "done"
             /\ \A v \in Volumes : Expands(q, v) /\ Expands(r, v) /\ q # r
                                     => ~ (Unfinished(q)' /\ Unfinished(r)')
             /\ \A sid \in SnapshotIds : Drops(q, sid) /\ Takes(r, sid) => ~ Unfinished(r)'
  <2>1. \A x \in Requests \ {p} : pc'[x] = pc[x]
    BY <1>6, StartIs DEF Types
  <2>2. CASE pc[p] = "pending"
    <3>1. \A x \in Requests : (Unfinished(x)' => Unfinished(x)) /\ (Sent(x)' => Sent(x))
      BY <2>1, <2>2 DEF Unfinished, Sent
    <3>2. QED
      BY <1>2, <1>4, <3>1
  <2>3. CASE pc[p] = "idle"
    <3>1. CASE q = p /\ r = p
      BY <3>1 DEF Deletes, Creates, Expands, Drops, Takes, Is
    <3>2. CASE q = p /\ r # p
      <4>1. pc'[r] = pc[r]
        BY <2>1, <3>2
      <4>2. QED
        BY <1>6, <2>3, <3>2, <4>1, SendingIsAllowed DEF Unfinished
    <3>3. CASE q # p /\ r = p
      <4>1. pc'[q] = pc[q] /\ Sent(q)
        BY <1>2, <2>1, <3>3 DEF Sent
      <4>2. QED
        BY <1>3, <1>6, <2>3, <3>3, <4>1, SendingIsAllowed DEF Unfinished
    <3>4. CASE q # p /\ r # p
      <4>1. pc'[q] = pc[q] /\ pc'[r] = pc[r]
        BY <2>1, <3>4
      <4>2. QED
        BY <1>2, <1>4, <4>1 DEF Sent, Unfinished
    <3>5. QED
      BY <3>1, <3>2, <3>3, <3>4
  <2>4. QED
    BY <1>6, <2>2, <2>3, StartIs
<1>7. QED
  BY <1>5, <1>6, OnwardIs

\* The keys of two handlers that run are different.
LEMMA ExclusiveStays ==
  ASSUME Types, Exclusive, [Next]_vars
  PROVE  Exclusive'
<1>1. call' = call
  BY ForwardIs DEF Forward
<1>2. CASE Onward \/ \E p \in Requests : Reply(p)
  <2>1. \A x \in Requests : Running(x)' => Running(x)
    <3>1. CASE Onward
      BY <3>1 DEF Onward, Running
    <3>2. ASSUME NEW p \in Requests, Reply(p)
          PROVE  \A x \in Requests : Running(x)' => Running(x)
      BY <3>2, ReplyIs DEF Running, Types
    <3>3. QED
      BY <1>2, <3>1, <3>2
  <2>2. QED
    BY <1>1, <2>1 DEF Exclusive
<1>3. ASSUME NEW p \in Requests, Start(p) PROVE Exclusive'
  <2>1. \A x \in Requests \ {p} : Running(x)' => Running(x)
    BY <1>3, StartIs DEF Running, Types
  <2>2. \A x \in Requests \ {p} : Running(x) => Keys(call[x]) \cap Keys(call[p]) = {}
    BY <1>3, StartIs
  <2>3. QED
    BY <1>1, <2>1, <2>2 DEF Exclusive
<1>4. QED
  BY <1>2, <1>3, OnwardIs

\* What a call names was answered OK.
LEMMA SourcesStayMade ==
  ASSUME Types, \A r \in Requests : SourceWasMade(r), [Next]_vars
  PROVE  \A r \in Requests : SourceWasMade(r)'
<1> SUFFICES ASSUME NEW r \in Requests
             PROVE  SourceWasMade(r)'
  OBVIOUS
<1>1. Forward
  BY ForwardIs
<1>2. CASE Sent(r)
  BY <1>1, <1>2 DEF Forward, SourceWasMade
<1>3. CASE ~ Sent(r) /\ Start(r)
  <2>1. pc[r] = "idle"
    BY <1>3 DEF Sent
  <2>2. /\ call[r].method \in {"DeleteVolume", "ControllerExpandVolume", "CreateSnapshot"}
              => call[r].volume \in DOMAIN promised
        /\ call[r].method = "DeleteSnapshot" => call[r].source \in DOMAIN captured
        /\ call[r].method = "CreateVolume" =>
             \/ call[r].source[1] = "none"
             \/ call[r].source[1] = "volume" /\ call[r].source[2] \in DOMAIN promised
             \/ call[r].source \in SnapshotIds /\ call[r].source \in DOMAIN captured
    BY <1>3, <2>1, SendingIsAllowed DEF Is, OwnsVolume, OwnsSnapshot
  <2>3. call[r].source \in SnapshotIds => call[r].source[1] \in {"snapshot", "detached"}
    BY DEF SnapshotIds
  <2>4. QED
    BY <1>1, <2>2, <2>3 DEF Forward, SourceWasMade
<1>4. CASE ~ Sent(r) /\ ~ Start(r)
  <2>1. ~ Sent(r)'
    <3>1. CASE Onward
      BY <1>4, <3>1 DEF Onward, Sent, Running
    <3>2. ASSUME NEW p \in Requests, Start(p) \/ Reply(p) PROVE ~ Sent(r)'
      BY <1>4, <3>2, StartIs, ReplyIs DEF Sent, Types
    <3>3. QED
      BY <3>1, <3>2, OnwardIs
  <2>2. QED
    BY <2>1 DEF SourceWasMade
<1>5. QED
  BY <1>2, <1>3, <1>4

\* What was promised has been made, and its size was asked for.
LEMMA PromisesStayMade ==
  ASSUME Types, PromisesAreMade, \A r \in Requests : SourceWasMade(r), [Next]_vars
  PROVE  /\ PromisesAreMade'
         /\ DOMAIN promised' \subseteq Volumes /\ \A v \in DOMAIN promised' : promised'[v] \in Nat
         /\ DOMAIN captured' \subseteq SnapshotIds
<1>1. Forward
  BY ForwardIs
<1>2. \A q \in Requests : pc[q] = "done" => pc'[q] = "done"
  BY <1>1 DEF Forward
<1>3. \A q \in Requests : \A v, sid :
        /\ Creates(q, v)' <=> Creates(q, v)
        /\ Expands(q, v)' <=> Expands(q, v)
        /\ Takes(q, sid)' <=> Takes(q, sid)
  BY <1>1, CallsStay DEF Forward
<1>4. CASE UNCHANGED <<promised, captured>>
  <2>1. \A v \in DOMAIN promised' : \E q \in Requests : Creates(q, v)' /\ pc'[q] = "done"
    BY <1>2, <1>3, <1>4 DEF PromisesAreMade
  <2>2. \A sid \in DOMAIN captured' : \E q \in Requests : Takes(q, sid)' /\ pc'[q] = "done"
    BY <1>2, <1>3, <1>4 DEF PromisesAreMade
  <2>3. \A v \in DOMAIN promised' : \E q \in Requests :
          (Creates(q, v)' \/ Expands(q, v)') /\ pc'[q] = "done" /\ call'[q].size = promised'[v]
    BY <1>1, <1>2, <1>3, <1>4 DEF PromisesAreMade, Forward
  <2>4. QED
    BY <1>4, <2>1, <2>2, <2>3 DEF PromisesAreMade, Types
<1>5. ASSUME NEW r \in Requests, Reply(r)
      PROVE  /\ PromisesAreMade'
             /\ DOMAIN promised' \subseteq Volumes
             /\ \A v \in DOMAIN promised' : promised'[v] \in Nat
             /\ DOMAIN captured' \subseteq SnapshotIds
  <2> DEFINE c == call[r]
             made == c.method \in {"CreateVolume", "ControllerExpandVolume"}
             w == VolumeId(c)
  <2>1. pc'[r] = "done" /\ Sent(r) /\ call' = call
    BY <1>5, ReplyIs DEF Types, Sent
  <2>2. c \in Call /\ w \in Volumes /\ c.size \in Nat
    BY CallsAre DEF Types
  <2>3. ~ made => promised' = promised
    BY <1>5, ReplyIs DEF Promised
  <2>4. made => /\ DOMAIN promised' = DOMAIN promised \cup {w}
                /\ \A v \in DOMAIN promised : v # w => promised'[v] = promised[v]
                /\ promised'[w] = c.size
                     \/ (w \in DOMAIN promised /\ promised'[w] = promised[w])
    <3>1. promised' = Promised(c)
      BY <1>5, ReplyIs
    <3>2. QED
      BY <3>1 DEF Promised, Larger
  <2>5. c.method = "ControllerExpandVolume" => w \in DOMAIN promised
    BY <2>1 DEF SourceWasMade, VolumeId
  <2>6. /\ c.method = "CreateVolume" => Creates(r, w)
        /\ c.method = "ControllerExpandVolume" => Expands(r, w)
    BY DEF Creates, Expands, Is, VolumeId
  <2>7. /\ DOMAIN promised' \subseteq Volumes
        /\ \A v \in DOMAIN promised' : promised'[v] \in Nat
    BY <2>2, <2>3, <2>4 DEF Types
  <2>8. \A v \in DOMAIN promised' : \E q \in Requests : Creates(q, v) /\ pc'[q] = "done"
    BY <1>2, <2>1, <2>3, <2>4, <2>5, <2>6 DEF PromisesAreMade
  <2>9. \A v \in DOMAIN promised' : \E q \in Requests :
          (Creates(q, v) \/ Expands(q, v)) /\ pc'[q] = "done" /\ call'[q].size = promised'[v]
    BY <1>2, <2>1, <2>3, <2>4, <2>5, <2>6 DEF PromisesAreMade
  <2>10. c.method = "CreateSnapshot" => IdOf(c) \in SnapshotIds /\ Takes(r, IdOf(c))
    BY CallsAre DEF Takes, Is, Types
  <2>11. \A sid \in DOMAIN captured' :
           \/ sid \in DOMAIN captured
           \/ c.method = "CreateSnapshot" /\ sid = IdOf(c)
    <3>1. CASE c.method = "CreateSnapshot" /\ IdOf(c) \notin DOMAIN captured
      <4> DEFINE dom == DOMAIN captured \cup {IdOf(c)}
      <4>1. \E data : captured' = [x \in dom |-> data[x]]
        <5> DEFINE data == [x \in dom |->
                      IF x \in DOMAIN captured THEN captured[x]
                      ELSE IF c.detached THEN ds[Dest(c)].content
                                         ELSE snap[SnapOf(IdOf(c))].content]
        <5>1. captured' = data
          BY <1>5, <3>1, ReplyIs
        <5>2. data = [x \in dom |-> data[x]]
          OBVIOUS
        <5>3. QED
          BY <5>1, <5>2
      <4>2. QED
        BY <3>1, <4>1
    <3>2. CASE ~ (c.method = "CreateSnapshot" /\ IdOf(c) \notin DOMAIN captured)
      BY <1>5, <3>2, ReplyIs
    <3>3. QED
      BY <3>1, <3>2
  <2>12. \A sid \in DOMAIN captured' : \E q \in Requests : Takes(q, sid) /\ pc'[q] = "done"
    <3>1. \A sid \in DOMAIN captured : \E q \in Requests : Takes(q, sid) /\ pc'[q] = "done"
      BY <1>2 DEF PromisesAreMade
    <3>2. QED
      BY <2>1, <2>10, <2>11, <3>1
  <2>13. DOMAIN captured' \subseteq SnapshotIds
    BY <2>10, <2>11 DEF Types
  <2>14. /\ \A v \in DOMAIN promised' : \E q \in Requests : Creates(q, v)' /\ pc'[q] = "done"
         /\ \A v \in DOMAIN promised' : \E q \in Requests :
              (Creates(q, v)' \/ Expands(q, v)') /\ pc'[q] = "done"
                /\ call'[q].size = promised'[v]
    BY <1>3, <2>8, <2>9
  <2>15. \A sid \in DOMAIN captured' : \E q \in Requests : Takes(q, sid)' /\ pc'[q] = "done"
    BY <1>3, <2>12
  <2>16. PromisesAreMade'
    BY <2>14, <2>15 DEF PromisesAreMade
  <2>17. QED
    BY <2>7, <2>13, <2>16
<1>6. UNCHANGED <<promised, captured>> \/ \E r \in Requests : Reply(r)
  BY OnwardIs, StartIs DEF Onward
<1>7. QED
  BY <1>4, <1>5, <1>6

\* The lock and the CO's order are kept by every step.
LEMMA ControlStays ==
  ASSUME Types, Control, [Next]_vars
  PROVE  Control'
BY UnwantedStaysSettled, ExclusiveStays, SourcesStayMade, PromisesStayMade DEF Control

----------------------------------------------------------------------------
(* What may change in the pool, and by which step.                         *)

\* The steps that change the datasets, the snapshots and the shares.
LEMMA PoolSteps ==
  ASSUME Types, [Next]_vars
  PROVE  /\ \/ ds' = ds
            \/ \E v \in Writable : Write(v)
            \/ \E r \in Requests :
                 \/ DoesCreate(r) \/ DoesClone(r) \/ DoesReceive(r) \/ DoesCreateContainer(r)
                 \/ DoesSetProperties(r) \/ DoesSetSize(r) \/ DoesSetContext(r)
                 \/ DoesSetSuccess(r)
                 \/ DoesDestroyVolume(r) \/ DoesDestroyDetached(r) \/ DoesDestroyContainer(r)
         /\ \/ snap' = snap
            \/ \E r \in Requests :
                 \/ DoesTakeTemporary(r) \/ DoesTakeSnapshot(r) \/ DoesReceive(r)
                 \/ DoesStripSnapshots(r) \/ DoesDropTemporary(r) \/ DoesDeferOrigin(r)
                 \/ DoesReleaseSnapshot(r) \/ DoesDestroyVolume(r) \/ DoesDestroyDetached(r)
         /\ \/ shares' = shares
            \/ \E r \in Requests : DoesCreateShare(r) \/ DoesDeleteShare(r)
<1>1. CASE UNCHANGED vars
  BY <1>1 DEF vars, pool
<1>2. CASE Restart
  BY <1>2 DEF Restart, pool
<1>3. ASSUME NEW v \in Writable, Write(v)
      PROVE  snap' = snap /\ shares' = shares
  BY <1>3 DEF Write
<1>4. ASSUME NEW r \in Requests, Start(r) \/ Reply(r) \/ Stalls(r)
      PROVE  UNCHANGED pool
  BY <1>4, StartIs, ReplyIs DEF Stalls
<1>5. ASSUME NEW r \in Requests, Works(r)
      PROVE  /\ \/ ds' = ds
                \/ DoesCreate(r) \/ DoesClone(r) \/ DoesReceive(r) \/ DoesCreateContainer(r)
                \/ DoesSetProperties(r) \/ DoesSetSize(r) \/ DoesSetContext(r)
                \/ DoesSetSuccess(r)
                \/ DoesDestroyVolume(r) \/ DoesDestroyDetached(r) \/ DoesDestroyContainer(r)
             /\ \/ snap' = snap
                \/ DoesTakeTemporary(r) \/ DoesTakeSnapshot(r) \/ DoesReceive(r)
                \/ DoesStripSnapshots(r) \/ DoesDropTemporary(r) \/ DoesDeferOrigin(r)
                \/ DoesReleaseSnapshot(r) \/ DoesDestroyVolume(r) \/ DoesDestroyDetached(r)
             /\ shares' = shares \/ DoesCreateShare(r) \/ DoesDeleteShare(r)
  <2>1. /\ DoesCheckSize(r) \/ DoesReadOrigin(r) \/ DoesCheckManaged(r) \/ DoesCheckName(r)
             => UNCHANGED pool
        /\ DoesCreateShare(r) \/ DoesDeleteShare(r) => UNCHANGED <<ds, snap>>
    BY DEF DoesCheckSize, DoesReadOrigin, DoesCheckManaged, DoesCheckName, DoesCreateShare,
           DoesDeleteShare, pool
  <2>2. /\ DoesCreate(r) \/ DoesClone(r) \/ DoesCreateContainer(r) \/ DoesSetProperties(r)
             \/ DoesSetSize(r) \/ DoesSetContext(r) \/ DoesSetSuccess(r)
             \/ DoesDestroyContainer(r)
             => UNCHANGED <<snap, shares>>
    BY DEF DoesCreate, DoesClone, DoesCreateContainer, DoesSetProperties, DoesSetSize,
           DoesSetContext, DoesSetSuccess, DoesDestroyContainer
  <2>3. DoesTakeTemporary(r) \/ DoesTakeSnapshot(r) \/ DoesStripSnapshots(r)
          \/ DoesDropTemporary(r) \/ DoesDeferOrigin(r) \/ DoesReleaseSnapshot(r)
          => UNCHANGED <<ds, shares>>
    BY DEF DoesTakeTemporary, DoesTakeSnapshot, DoesStripSnapshots, DoesDropTemporary,
           DoesDeferOrigin, DoesReleaseSnapshot
  <2>4. DoesReceive(r) \/ DoesDestroyVolume(r) \/ DoesDestroyDetached(r) => shares' = shares
    BY DEF DoesReceive, DoesDestroyVolume, DoesDestroyDetached
  <2>5. QED
    BY <1>5, <2>1, <2>2, <2>3, <2>4 DEF Works, pool
<1>6. QED
  BY <1>1, <1>2, <1>3, <1>4, <1>5, StepsOfNext DEF pool

\* A dataset that is new.
LEMMA NewDatasets ==
  ASSUME Types, [Next]_vars, NEW d \in DOMAIN ds', d \notin DOMAIN ds
  PROVE  \E r \in Requests :
           \/ /\ DoesCreate(r) /\ d = Dest(call[r])
              /\ \E size \in {0, call[r].size} : ds'[d] = Fresh(0, NoOrigin, size, TRUE)
           \/ /\ DoesClone(r) /\ d = Dest(call[r])
              /\ LET k == CopyFrom(call[r]) IN \E size \in {0, snap[k].size} :
                   ds'[d] = Fresh(snap[k].content, k, size, TRUE)
           \/ /\ DoesReceive(r) /\ d = Dest(call[r])
              /\ LET k == CopyFrom(call[r]) IN \E size \in {0, snap[k].size} :
                   ds'[d] = Fresh(snap[k].content, NoOrigin, size, FALSE)
           \/ /\ DoesCreateContainer(r) /\ d = Con(call[r].volume)
              /\ ds'[d] = Fresh(0, NoOrigin, 0, FALSE)
<1>1. ASSUME NEW v \in Writable, Write(v) PROVE DOMAIN ds' = DOMAIN ds
  BY <1>1 DEF Write
<1>2. ASSUME NEW r \in Requests,
             \/ DoesSetProperties(r) \/ DoesSetSize(r) \/ DoesSetContext(r)
             \/ DoesSetSuccess(r)
             \/ DoesDestroyVolume(r) \/ DoesDestroyDetached(r) \/ DoesDestroyContainer(r)
      PROVE  d \in DOMAIN ds
  BY <1>2 DEF DoesSetProperties, DoesSetSize, DoesSetContext, DoesSetSuccess,
     DoesDestroyVolume, DoesDestroyDetached, DoesDestroyContainer, Changes, Removes
<1>3. \E r \in Requests :
        DoesCreate(r) \/ DoesClone(r) \/ DoesReceive(r) \/ DoesCreateContainer(r)
  BY <1>1, <1>2, PoolSteps
<1>4. PICK r \in Requests :
        DoesCreate(r) \/ DoesClone(r) \/ DoesReceive(r) \/ DoesCreateContainer(r)
  BY <1>3
<1>5. CASE DoesCreate(r)
  BY <1>4, <1>5 DEF DoesCreate, Adds
<1>6. CASE DoesClone(r)
  BY <1>4, <1>6 DEF DoesClone, Adds
<1>7. CASE DoesReceive(r)
  BY <1>4, <1>7 DEF DoesReceive, Adds
<1>8. CASE DoesCreateContainer(r)
  BY <1>4, <1>8 DEF DoesCreateContainer, Adds
<1>9. QED
  BY <1>4, <1>5, <1>6, <1>7, <1>8

\* One that is gone.
LEMMA LostDatasets ==
  ASSUME Types, [Next]_vars, NEW d \in DOMAIN ds, d \notin DOMAIN ds'
  PROVE  \E r \in Requests :
           \/ (DoesDestroyVolume(r) \/ DoesDestroyDetached(r)) /\ d = Dest(call[r])
           \/ /\ DoesDestroyContainer(r) /\ d = Con(call[r].source[2])
              /\ \A x \in DOMAIN ds : ~ (x[1] = "det" /\ x[2] = call[r].source[2])
<1>1. ASSUME NEW v \in Writable, Write(v) PROVE DOMAIN ds' = DOMAIN ds
  BY <1>1 DEF Write
<1>2. ASSUME NEW r \in Requests,
             \/ DoesCreate(r) \/ DoesClone(r) \/ DoesReceive(r) \/ DoesCreateContainer(r)
             \/ DoesSetProperties(r) \/ DoesSetSize(r) \/ DoesSetContext(r)
             \/ DoesSetSuccess(r)
      PROVE  d \in DOMAIN ds'
  <2>1. ds' = ds \/ (\E x, p : Adds(x, p)) \/ (\E x, p : Changes(x, p))
    BY <1>2 DEF DoesCreate, DoesClone, DoesReceive, DoesCreateContainer, DoesSetProperties,
       DoesSetSize, DoesSetContext, DoesSetSuccess
  <2>2. QED
    BY <2>1 DEF Adds, Changes
<1>3. PICK r \in Requests :
        DoesDestroyVolume(r) \/ DoesDestroyDetached(r) \/ DoesDestroyContainer(r)
  BY <1>1, <1>2, PoolSteps
<1>4. CASE DoesDestroyVolume(r) \/ DoesDestroyDetached(r)
  BY <1>4 DEF DoesDestroyVolume, DoesDestroyDetached, Removes
<1>5. CASE DoesDestroyContainer(r)
  BY <1>5 DEF DoesDestroyContainer, Removes
<1>6. QED
  BY <1>3, <1>4, <1>5

\* One that stays keeps what it came from, its data but for a workload's writes, its size
\* but for a new one, and the properties it was given.
LEMMA KeptDatasets ==
  ASSUME Types, [Next]_vars, NEW d \in DOMAIN ds, d \in DOMAIN ds'
  PROVE  /\ ds'[d] \in Dataset \/ \E v \in Writable : Write(v)
         /\ ds'[d].origin = ds[d].origin
         /\ \/ ds'[d].content = ds[d].content
            \/ \E v \in Writable :
                 Write(v) /\ d = Vol(v) /\ ds'[d].content = writes + 1
         /\ \/ ds'[d].size = ds[d].size
            \/ \E r \in Requests :
                 DoesSetSize(r) /\ d = Dest(call[r]) /\ ds'[d].size = call[r].size
         /\ ds[d].context => ds'[d].context
         /\ ds[d].success => ds'[d].success
<1>1. ds[d] \in Dataset
  BY DEF Types
<1>2. CASE ds'[d] = ds[d]
  BY <1>1, <1>2
<1>3. ASSUME NEW v \in Writable, Write(v), d = Vol(v)
      PROVE  ds'[d] = [ds[d] EXCEPT !.content = writes + 1]
  BY <1>3 DEF Write
<1>4. ASSUME NEW v \in Writable, Write(v), d # Vol(v)
      PROVE  ds'[d] = ds[d]
  BY <1>4 DEF Write
<1>5. ASSUME NEW r \in Requests, DoesSetSize(r), ds'[d] # ds[d]
      PROVE  ds'[d] = [ds[d] EXCEPT !.size = call[r].size] /\ d = Dest(call[r])
  BY <1>5 DEF DoesSetSize, Changes
<1>6. ASSUME NEW r \in Requests,
             DoesSetProperties(r) \/ DoesSetContext(r) \/ DoesSetSuccess(r), ds'[d] # ds[d]
      PROVE  \/ ds'[d] = [ds[d] EXCEPT !.managed = TRUE]
             \/ ds'[d] = [ds[d] EXCEPT !.context = TRUE]
             \/ ds'[d] = [ds[d] EXCEPT !.success = TRUE]
  BY <1>6 DEF DoesSetProperties, DoesSetContext, DoesSetSuccess, Changes
<1>7. ASSUME NEW r \in Requests,
             \/ DoesCreate(r) \/ DoesClone(r) \/ DoesReceive(r) \/ DoesCreateContainer(r)
             \/ DoesDestroyVolume(r) \/ DoesDestroyDetached(r) \/ DoesDestroyContainer(r)
      PROVE  ds'[d] = ds[d]
  <2>1. ds' = ds \/ (\E x, p : Adds(x, p)) \/ (\E x : Removes(x))
    BY <1>7 DEF DoesCreate, DoesClone, DoesReceive, DoesCreateContainer,
       DoesDestroyVolume, DoesDestroyDetached, DoesDestroyContainer
  <2>2. QED
    BY <2>1 DEF Adds, Removes
<1>8. CASE \E v \in Writable : Write(v) /\ d = Vol(v)
  <2>1. ds'[d] = [ds[d] EXCEPT !.content = writes + 1]
    BY <1>3, <1>8
  <2>2. QED
    BY <1>1, <1>8, <2>1 DEF Dataset
<1>9. CASE \E r \in Requests : DoesSetSize(r) /\ ds'[d] # ds[d]
  <2>1. PICK r \in Requests : DoesSetSize(r) /\ ds'[d] # ds[d]
    BY <1>9
  <2>2. ds'[d] = [ds[d] EXCEPT !.size = call[r].size] /\ d = Dest(call[r])
    BY <1>5, <2>1
  <2>3. call[r].size \in Nat
    BY CallsAre DEF Types
  <2>4. QED
    BY <1>1, <2>1, <2>2, <2>3 DEF Dataset
<1>10. CASE \/ ds'[d] = [ds[d] EXCEPT !.managed = TRUE]
            \/ ds'[d] = [ds[d] EXCEPT !.context = TRUE]
            \/ ds'[d] = [ds[d] EXCEPT !.success = TRUE]
  BY <1>1, <1>10 DEF Dataset
<1>11. QED
  BY <1>2, <1>4, <1>6, <1>7, <1>8, <1>9, <1>10, PoolSteps

\* Request r asks that k be destroyed, at once or with its last clone.
Frees(r, k) ==
    \/ DoesStripSnapshots(r) /\ Is(r, "CreateSnapshot") /\ k = <<Dest(call[r]), Tag(call[r])>>
    \/ DoesDropTemporary(r) /\ k = CopyFrom(call[r])
    \/ DoesDeferOrigin(r) /\ k = origin[r] /\ k # NoOrigin /\ k[2][1] = "for-volume"
    \/ DoesReleaseSnapshot(r) /\ k = SnapOf(call[r].source)

\* A step that lets go of a snapshot leaves the datasets alone.
LEMMA FreesIs ==
  ASSUME NEW r \in Requests, NEW k, Frees(r, k)
  PROVE  Releases(k) /\ ds' = ds /\ Works(r)
BY DEF Frees, DoesStripSnapshots, DoesDropTemporary, DoesDeferOrigin, DoesReleaseSnapshot, Works

\* A step that changes the snapshots.
LEMMA WaysToChange ==
  ASSUME Types, [Next]_vars
  PROVE  \/ snap' = snap
         \/ \E r \in Requests : DoesTakeTemporary(r) \/ DoesTakeSnapshot(r) \/ DoesReceive(r)
         \/ \E r \in Requests : \E k : Frees(r, k)
         \/ \E r \in Requests :
              DoesStripSnapshots(r) /\ Is(r, "CreateVolume") /\ ~ HasClones(Dest(call[r]))
                /\ Discards(SnapsOf(Dest(call[r])))
         \/ \E r \in Requests : DoesDestroyVolume(r) \/ DoesDestroyDetached(r)
<1>1. ASSUME NEW r \in Requests, DoesStripSnapshots(r)
      PROVE  \/ \E k : Frees(r, k)
             \/ Is(r, "CreateVolume") /\ ~ HasClones(Dest(call[r]))
                /\ Discards(SnapsOf(Dest(call[r])))
  BY <1>1 DEF Frees, DoesStripSnapshots
<1>2. ASSUME NEW r \in Requests, DoesDropTemporary(r) \/ DoesReleaseSnapshot(r)
      PROVE  \E k : Frees(r, k)
  BY <1>2 DEF Frees
<1>3. ASSUME NEW r \in Requests, DoesDeferOrigin(r), snap' # snap
      PROVE  \E k : Frees(r, k)
  <2>1. origin[r] # NoOrigin /\ origin[r][2][1] = "for-volume"
    BY <1>3 DEF DoesDeferOrigin
  <2>2. Frees(r, origin[r])
    BY <1>3, <2>1 DEF Frees
  <2>3. QED
    BY <2>2
<1>4. QED
  BY <1>1, <1>2, <1>3, PoolSteps

\* A snapshot that is new.
LEMMA NewSnapshots ==
  ASSUME Types, [Next]_vars, NEW k \in DOMAIN snap', k \notin DOMAIN snap
  PROVE  \E r \in Requests :
           \/ /\ DoesTakeTemporary(r) /\ k = CopyFrom(call[r]) /\ k[1] \in DOMAIN ds
              /\ snap'[k] = [content |-> ds[k[1]].content, size |-> ds[k[1]].size,
                             managed |-> FALSE, defer |-> FALSE]
           \/ /\ DoesTakeSnapshot(r) /\ k = SnapOf(IdOf(call[r])) /\ From(call[r]) \in DOMAIN ds
              /\ snap'[k] = [content |-> ds[k[1]].content, size |-> ds[k[1]].size,
                             managed |-> TRUE, defer |-> FALSE]
           \/ /\ DoesReceive(r) /\ k = <<Dest(call[r]), Tag(call[r])>>
              /\ Dest(call[r]) \notin DOMAIN ds /\ Dest(call[r]) \in DOMAIN ds'
              /\ snap'[k] = [snap[CopyFrom(call[r])] EXCEPT !.managed = FALSE, !.defer = FALSE]
<1>1. ~ \E r \in Requests : \E x : Frees(r, x)
  BY FreesIs DEF Releases, Marks, Discards
<1>2. ~ \E r \in Requests : DoesDestroyVolume(r) \/ DoesDestroyDetached(r)
  BY DEF DoesDestroyVolume, DoesDestroyDetached, Discards
<1>3. ~ \E gone : Discards(gone)
  BY DEF Discards
<1>4. PICK r \in Requests : DoesTakeTemporary(r) \/ DoesTakeSnapshot(r) \/ DoesReceive(r)
  BY <1>1, <1>2, <1>3, WaysToChange
<1>5. CASE DoesTakeTemporary(r)
  <2>1. k = CopyFrom(call[r]) /\ From(call[r]) \in DOMAIN ds
        /\ snap'[k] = [content |-> ds[k[1]].content, size |-> ds[k[1]].size,
                      managed |-> FALSE, defer |-> FALSE]
    BY <1>5 DEF DoesTakeTemporary, Captures
  <2>2. k[1] = From(call[r])
    BY <2>1 DEF CopyFrom
  <2>3. QED
    BY <1>5, <2>1, <2>2
<1>6. CASE DoesTakeSnapshot(r)
  <2>1. /\ k = SnapOf(IdOf(call[r])) /\ From(call[r]) \in DOMAIN ds
        /\ snap'[k] = [content |-> ds[k[1]].content, size |-> ds[k[1]].size,
                      managed |-> TRUE, defer |-> FALSE]
    BY <1>6 DEF DoesTakeSnapshot, Captures
  <2>2. QED
    BY <1>6, <2>1
<1>7. CASE DoesReceive(r)
  <2>1. /\ \E props : Adds(Dest(call[r]), props)
        /\ Captures(<<Dest(call[r]), Tag(call[r])>>,
                    [snap[CopyFrom(call[r])] EXCEPT !.managed = FALSE, !.defer = FALSE])
    BY <1>7 DEF DoesReceive
  <2>2. Dest(call[r]) \notin DOMAIN ds /\ Dest(call[r]) \in DOMAIN ds'
    BY <2>1 DEF Adds
  <2>3. /\ k = <<Dest(call[r]), Tag(call[r])>>
        /\ snap'[k] = [snap[CopyFrom(call[r])] EXCEPT !.managed = FALSE, !.defer = FALSE]
    BY <2>1 DEF Captures
  <2>4. QED
    BY <1>7, <2>2, <2>3
<1>8. QED
  BY <1>4, <1>5, <1>6, <1>7

\* One that is gone.
LEMMA LostSnapshots ==
  ASSUME Types, [Next]_vars, NEW k \in DOMAIN snap, k \notin DOMAIN snap'
  PROVE  \E r \in Requests :
           \/ Frees(r, k) /\ Clones(k) = {}
           \/ /\ DoesStripSnapshots(r) /\ Is(r, "CreateVolume") /\ k[1] = Dest(call[r])
              /\ Clones(k) = {}
           \/ /\ DoesDestroyVolume(r) \/ DoesDestroyDetached(r)
              /\ \/ k[1] = Dest(call[r])
                 \/ snap[k].defer /\ Clones(k) = {Dest(call[r])}
<1>1. ~ \E r \in Requests : DoesTakeTemporary(r) \/ DoesTakeSnapshot(r) \/ DoesReceive(r)
  BY DEF DoesTakeTemporary, DoesTakeSnapshot, DoesReceive, Captures
<1>2. ASSUME NEW r \in Requests, NEW x, Frees(r, x)
      PROVE  Frees(r, k) /\ Clones(k) = {}
  <2>1. Releases(x)
    BY <1>2, FreesIs
  <2>2. x = k /\ Clones(k) = {}
    BY <2>1 DEF Releases, Marks, Discards
  <2>3. QED
    BY <1>2, <2>2
<1>3. ASSUME NEW r \in Requests, DoesStripSnapshots(r), Is(r, "CreateVolume"),
             ~ HasClones(Dest(call[r])), Discards(SnapsOf(Dest(call[r])))
      PROVE  k[1] = Dest(call[r]) /\ Clones(k) = {}
  <2>1. k \in SnapsOf(Dest(call[r]))
    BY <1>3 DEF Discards
  <2>2. QED
    BY <1>3, <2>1 DEF SnapsOf, HasClones
<1>4. ASSUME NEW r \in Requests, DoesDestroyVolume(r) \/ DoesDestroyDetached(r)
      PROVE  \/ k[1] = Dest(call[r])
             \/ snap[k].defer /\ Clones(k) = {Dest(call[r])}
  <2> DEFINE gone == SnapsOf(Dest(call[r])) \cup
                       {x \in DOMAIN snap : snap[x].defer /\ Clones(x) = {Dest(call[r])}}
  <2>1. Discards(gone)
    BY <1>4 DEF DoesDestroyVolume, DoesDestroyDetached
  <2> HIDE DEF gone
  <2>2. k \in gone
    BY <2>1 DEF Discards
  <2>3. QED
    BY <2>2 DEF gone, SnapsOf
<1>5. QED
  BY <1>1, <1>2, <1>3, <1>4, WaysToChange

\* One that stays is the same but for the mark.
LEMMA KeptSnapshots ==
  ASSUME Types, [Next]_vars, NEW k \in DOMAIN snap, k \in DOMAIN snap'
  PROVE  /\ snap'[k] \in Snapshotted
         /\ snap'[k].content = snap[k].content /\ snap'[k].size = snap[k].size
         /\ snap'[k].managed = snap[k].managed
         /\ \/ snap'[k] = snap[k]
            \/ \E r \in Requests : Frees(r, k) /\ Clones(k) # {} /\ snap'[k].defer
<1>1. snap[k] \in Snapshotted
  BY DEF Types
<1>2. CASE snap'[k] = snap[k]
  BY <1>1, <1>2
<1>3. ASSUME NEW r \in Requests, NEW x, Frees(r, x), snap'[k] # snap[k]
      PROVE  Frees(r, k) /\ Marks(k)
  <2>1. Releases(x)
    BY <1>3, FreesIs
  <2>2. x = k /\ Marks(k)
    BY <1>3, <2>1 DEF Releases, Marks, Discards
  <2>3. QED
    BY <1>3, <2>2
<1>4. ASSUME NEW r \in Requests, DoesTakeTemporary(r) \/ DoesTakeSnapshot(r) \/ DoesReceive(r)
      PROVE  snap'[k] = snap[k]
  BY <1>4 DEF DoesTakeTemporary, DoesTakeSnapshot, DoesReceive, Captures
<1>5. ASSUME NEW gone, Discards(gone)
      PROVE  snap'[k] = snap[k]
  BY <1>5 DEF Discards
<1>6. ASSUME NEW r \in Requests, DoesDestroyVolume(r) \/ DoesDestroyDetached(r)
      PROVE  \E gone : Discards(gone)
  BY <1>6 DEF DoesDestroyVolume, DoesDestroyDetached
<1>7. CASE \E r \in Requests : Frees(r, k) /\ Marks(k)
  <2>1. PICK r \in Requests : Frees(r, k) /\ Marks(k)
    BY <1>7
  <2>2. snap'[k] = [snap[k] EXCEPT !.defer = TRUE] /\ Clones(k) # {}
    BY <2>1 DEF Marks
  <2>3. QED
    BY <1>1, <2>1, <2>2 DEF Snapshotted
<1>8. QED
  BY <1>2, <1>3, <1>4, <1>5, <1>6, <1>7, WaysToChange

\* The shares.
LEMMA ShareSteps ==
  ASSUME Types, [Next]_vars
  PROVE  /\ \A d \in shares' \ shares : \E r \in Requests :
              DoesCreateShare(r) /\ d = Dest(call[r])
         /\ \A d \in shares \ shares' : \E r \in Requests :
              DoesDeleteShare(r) /\ d = Dest(call[r])
BY PoolSteps DEF DoesCreateShare, DoesDeleteShare

----------------------------------------------------------------------------
(* Where a request goes, and what it has done then.                        *)

\* The work that is done at a place.
LEMMA WorkIs ==
  ASSUME NEW r \in Requests, Works(r)
  PROVE  /\ pc[r] = "check" => DoesCheckSize(r) \/ DoesCheckName(r)
         /\ pc[r] = "create" => DoesCreate(r)
         /\ pc[r] = "tmp" => DoesTakeTemporary(r)
         /\ pc[r] = "clone" => DoesClone(r)
         /\ pc[r] = "receive" => DoesReceive(r)
         /\ pc[r] = "props" => DoesSetProperties(r)
         /\ pc[r] = "strip" => DoesStripSnapshots(r)
         /\ pc[r] = "untmp" => DoesDropTemporary(r)
         /\ pc[r] = "size" => DoesSetSize(r)
         /\ pc[r] = "share" => DoesCreateShare(r)
         /\ pc[r] = "context" => DoesSetContext(r)
         /\ pc[r] = "success" => DoesSetSuccess(r)
         /\ pc[r] = "read" => DoesReadOrigin(r)
         /\ pc[r] = "unshare" => DoesDeleteShare(r)
         /\ pc[r] = "origin" => DoesDeferOrigin(r)
         /\ pc[r] = "managed" => DoesCheckManaged(r)
         /\ pc[r] = "destroy" => DoesDestroyVolume(r) \/ DoesDestroyDetached(r)
         /\ pc[r] = "take" => DoesTakeSnapshot(r)
         /\ pc[r] = "container" => DoesCreateContainer(r)
         /\ pc[r] = "release" => DoesReleaseSnapshot(r)
         /\ pc[r] = "uncontain" => DoesDestroyContainer(r)
<1>1. /\ DoesCheckSize(r) => pc[r] = "check"
      /\ DoesCreate(r) => pc[r] = "create"
      /\ DoesTakeTemporary(r) => pc[r] = "tmp"
      /\ DoesClone(r) => pc[r] = "clone"
      /\ DoesReceive(r) => pc[r] = "receive"
      /\ DoesSetProperties(r) => pc[r] = "props"
      /\ DoesStripSnapshots(r) => pc[r] = "strip"
      /\ DoesDropTemporary(r) => pc[r] = "untmp"
      /\ DoesSetSize(r) => pc[r] = "size"
      /\ DoesCreateShare(r) => pc[r] = "share"
      /\ DoesSetContext(r) => pc[r] = "context"
      /\ DoesSetSuccess(r) => pc[r] = "success"
      /\ DoesReadOrigin(r) => pc[r] = "read"
      /\ DoesDeleteShare(r) => pc[r] = "unshare"
      /\ DoesDeferOrigin(r) => pc[r] = "origin"
      /\ DoesCheckManaged(r) => pc[r] = "managed"
      /\ DoesDestroyVolume(r) => pc[r] = "destroy"
      /\ DoesCheckName(r) => pc[r] = "check"
      /\ DoesTakeSnapshot(r) => pc[r] = "take"
      /\ DoesCreateContainer(r) => pc[r] = "container"
      /\ DoesReleaseSnapshot(r) => pc[r] = "release"
      /\ DoesDestroyDetached(r) => pc[r] = "destroy"
      /\ DoesDestroyContainer(r) => pc[r] = "uncontain"
  BY DEF Goes, DoesCheckSize, DoesCreate, DoesTakeTemporary, DoesClone, DoesReceive,
     DoesSetProperties, DoesStripSnapshots, DoesDropTemporary, DoesSetSize, DoesCreateShare,
     DoesSetContext, DoesSetSuccess, DoesReadOrigin, DoesDeleteShare, DoesDeferOrigin,
     DoesCheckManaged, DoesDestroyVolume, DoesCheckName, DoesTakeSnapshot, DoesCreateContainer,
     DoesReleaseSnapshot, DoesDestroyDetached, DoesDestroyContainer
<1>2. QED
  BY <1>1 DEF Works

\* How a request gets from one place to the next.
LEMMA PlacesOfNext ==
  ASSUME Types, [Next]_vars, NEW r \in Requests
  PROVE  \/ pc'[r] = pc[r]
         \/ pc'[r] = "pending" /\ Running(r)
         \/ Start(r) /\ pc[r] \in {"idle", "pending"} /\ pc'[r] = First(call[r])
         \/ Reply(r) /\ pc[r] = "reply" /\ pc'[r] = "done"
         \/ Works(r) /\ Running(r) /\ pc[r] # "reply" /\ pc'[r] = After(r, pc[r])
         \/ Works(r) /\ Running(r) /\ pc[r] = "receive" /\ pc'[r] = "strip"
<1>1. CASE UNCHANGED vars
  BY <1>1 DEF vars
<1>2. CASE Restart
  BY <1>2 DEF Restart
<1>3. CASE \E v \in Writable : Write(v)
  BY <1>3 DEF Write
<1>4. ASSUME NEW q \in Requests, Start(q)
      PROVE  pc'[r] = pc[r] \/ (q = r /\ pc[r] \in {"idle", "pending"} /\ pc'[r] = First(call[r]))
  BY <1>4, StartIs DEF Types
<1>5. ASSUME NEW q \in Requests, Reply(q)
      PROVE  pc'[r] = pc[r] \/ (q = r /\ pc[r] = "reply" /\ pc'[r] = "done")
  BY <1>5, ReplyIs DEF Types
<1>6. ASSUME NEW q \in Requests, Stalls(q)
      PROVE  pc'[r] = pc[r] \/ (pc'[r] = "pending" /\ Running(r))
  BY <1>6 DEF Stalls, Moves, Types
<1>7. ASSUME NEW q \in Requests, Works(q)
      PROVE  \/ pc'[r] = pc[r]
             \/ /\ q = r /\ Running(r) /\ pc[r] # "reply"
                /\ pc'[r] = After(r, pc[r]) \/ (pc'[r] = "strip" /\ pc[r] = "receive")
  BY <1>7, WorksMoves DEF Moves, Types
<1>8. QED
  BY <1>1, <1>2, <1>3, <1>4, <1>5, <1>6, <1>7, StepsOfNext

----------------------------------------------------------------------------
(* Types.                                                                  *)

\* A volume that the CO may name is usable.
LEMMA OwnedVolumesAreUsable ==
  ASSUME Types, Control, VolumesAreSound
  PROVE  AckedVolumesAreUsable
<1> SUFFICES ASSUME NEW v \in Volumes, OwnsVolume(v)
             PROVE  /\ Vol(v) \in DOMAIN ds /\ Vol(v) \in shares
                    /\ ds[Vol(v)].context /\ ds[Vol(v)].success
                    /\ Sized => ds[Vol(v)].size >= promised[v]
  BY DEF AckedVolumesAreUsable
<1>1. v \in DOMAIN promised /\ ~ VolumeUnwanted(v)
  BY DEF OwnsVolume, VolumeUnwanted, Deletes
<1>2. PICK r \in Requests : Creates(r, v) /\ pc[r] = "done"
  BY <1>1 DEF Control, PromisesAreMade
<1>3. VolumeStands(r) /\ call[r].method = "CreateVolume" /\ VolumeId(call[r]) = v
  BY <1>2 DEF VolumesAreSound, Creates, Is
<1>4. Vol(v) \in DOMAIN ds /\ Vol(v) \in shares /\ ds[Vol(v)].context /\ ds[Vol(v)].success
  BY <1>1, <1>2, <1>3 DEF VolumeStands, MadeSteps
<1>5. Sized => ds[Vol(v)].size >= promised[v]
  BY <1>1 DEF VolumesAreSound, SizesAreKept
<1>6. QED
  BY <1>4, <1>5

\* A handler leaves the count of faults, and answers with a code or not at all.
Codes == {"none", "OK", "UNKNOWN", "ALREADY_EXISTS", "NOT_FOUND", "FAILED_PRECONDITION"}

\* The answer of a handler that takes a step.
Answers(r) ==
    \/ UNCHANGED <<answer, faults>>
    \/ \E code \in Codes : answer' = [answer EXCEPT ![r] = code] /\ faults' = faults

\* Every step of a handler is such a step.
LEMMA AnswersAre ==
  ASSUME NEW r \in Requests, Handle(r)
  PROVE  Answers(r)
<1>1. /\ Advance(r) => Answers(r)
      /\ \A step : SkipTo(r, step) => Answers(r)
      /\ \A code \in Codes : Throw(r, code) => Answers(r)
  BY DEF Advance, SkipTo, Throw, Answers
<1>2. /\ OnlyDs(r) \/ OnlySnap(r) \/ OnlyShares(r) \/ Nothing(r) => Answers(r)
      /\ \A d, props : Set(r, d, props) => Answers(r)
  BY <1>1 DEF OnlyDs, OnlySnap, OnlyShares, Nothing, Set, Codes
<1>3. CheckSize(r) \/ Create(r) \/ Clone(r) \/ SetSize(r) \/ CreateShare(r) \/ SetContext(r)
        => Answers(r)
  BY <1>1, <1>2 DEF CheckSize, Create, Clone, SetSize, CreateShare, SetContext, Codes
<1>4. ReadOrigin(r) \/ DeleteShare(r) \/ DeferOrigin(r) \/ CheckManaged(r) \/ DestroyVolume(r)
        => Answers(r)
  BY <1>1, <1>2 DEF ReadOrigin, DeleteShare, DeferOrigin, CheckManaged, DestroyVolume, Codes,
     Answers, bounds
<1>5. TakeTemporary(r) \/ SetProperties(r) \/ StripSnapshots(r) \/ DropTemporary(r)
        => Answers(r)
  BY <1>1, <1>2 DEF TakeTemporary, SetProperties, StripSnapshots, DropTemporary, Codes
<1>6. Receive(r) => Answers(r)
  BY <1>1, <1>2 DEF Receive, Codes
<1>7. CheckName(r) \/ TakeSnapshot(r) \/ CreateContainer(r) \/ ReleaseSnapshot(r)
        \/ DestroyDetached(r) \/ DestroyContainer(r) \/ SetSuccess(r) => Answers(r)
  BY <1>1, <1>2 DEF CheckName, TakeSnapshot, CreateContainer, ReleaseSnapshot,
     DestroyDetached, DestroyContainer, SetSuccess, Codes
<1>8. Reply(r) => Answers(r)
  BY DEF Reply, Answers, Codes, bounds
<1>9. QED
  BY <1>3, <1>4, <1>5, <1>6, <1>7, <1>8 DEF Handle, VolumeStep, CopyStep, SnapshotStep

\* Answers and the count of failures stay in their types.
LEMMA AnswersStayTyped ==
  ASSUME Types, [Next]_vars
  PROVE  answer' \in [Requests -> Codes] /\ faults' \in 0..MaxFaults
<1>1. answer \in [Requests -> Codes] /\ faults \in 0..MaxFaults /\ MaxFaults \in Nat
  BY OptionsAssumption DEF Types, Codes
<1>2. ASSUME NEW r \in Requests, Start(r)
      PROVE  UNCHANGED faults /\ answer' = [answer EXCEPT ![r] = "none"]
  BY <1>2 DEF Start, bounds
<1>3. ASSUME NEW r \in Requests, Fail(r)
      PROVE  /\ answer' = [answer EXCEPT ![r] = "UNKNOWN"]
             /\ faults < MaxFaults /\ faults' = faults + 1
  BY <1>3 DEF Fail
<1>4. CASE \E r \in Requests : Handle(r)
  BY <1>1, <1>4, AnswersAre DEF Answers
<1>5. CASE \E r \in Requests : Start(r)
  BY <1>1, <1>2, <1>5 DEF Codes
<1>6. CASE \E r \in Requests : Fail(r)
  BY <1>1, <1>3, <1>6 DEF Codes
<1>7. CASE Restart
  BY <1>1, <1>7 DEF Restart
<1>8. CASE \E v \in Writable : Write(v)
  BY <1>1, <1>8 DEF Write
<1>9. CASE UNCHANGED vars
  BY <1>1, <1>9 DEF vars, bounds
<1>10. QED
  BY <1>4, <1>5, <1>6, <1>7, <1>8, <1>9 DEF Next, Quiet

\* A handler stays at the steps of its call.
LEMMA PlacesStayTyped ==
  ASSUME Types, [Next]_vars
  PROVE  pc' \in [Requests -> Places] /\ \A r \in Requests : InItsPlace(r)'
<1>1. call' = call /\ call \in Plans
  BY ForwardIs DEF Forward, Types
<1>2. ASSUME NEW r \in Requests PROVE InItsPlace(r)'
  <2>1. InItsPlace(r)
    BY DEF Types
  <2>2. CASE pc'[r] = pc[r]
    BY <1>1, <2>1, <2>2 DEF InItsPlace
  <2>3. CASE pc'[r] \in {"pending", "done"}
    BY <2>3 DEF InItsPlace, Places
  <2>4. CASE pc'[r] = First(call[r])
    <3>1. call[r].method \in Methods
      BY CallsAre, <1>1
    <3>2. call[r].method = "DeleteSnapshot" => call[r].source[1] \in {"snapshot", "detached"}
      BY CallsAre, <1>1 DEF SnapshotIds
    <3>3. QED
      BY <1>1, <2>4, <3>1, <3>2 DEF InItsPlace, First, Places, StepNames, Methods
  <2>5. CASE Running(r) /\ pc[r] # "reply"
             /\ (pc'[r] = After(r, pc[r]) \/ (pc[r] = "receive" /\ pc'[r] = "strip"))
    BY <1>1, <2>1, <2>5, AfterIsPlace
  <2>6. QED
    BY <2>2, <2>3, <2>4, <2>5, PlacesOfNext
<1>3. \A r \in Requests : pc'[r] \in Places
  BY <1>2 DEF InItsPlace
<1>4. pc' = [r \in Requests |-> pc'[r]]
  <2>1. pc = [r \in Requests |-> pc[r]]
    BY DEF Types
  <2>2. ASSUME NEW r \in Requests, NEW p, pc' = [pc EXCEPT ![r] = p]
        PROVE  pc' = [q \in Requests |-> pc'[q]]
    BY <2>1, <2>2
  <2>3. ASSUME NEW r \in Requests, Start(r) \/ Reply(r) \/ Stalls(r) \/ Works(r)
        PROVE  \E p : pc' = [pc EXCEPT ![r] = p]
    BY <2>3, StartIs, ReplyIs, WorksMoves DEF Stalls, Moves
  <2>4. CASE UNCHANGED vars \/ \E v \in Writable : Write(v)
    BY <2>1, <2>4 DEF vars, Write
  <2>5. CASE Restart
    BY <2>5 DEF Restart
  <2>6. QED
    BY <2>2, <2>3, <2>4, <2>5, StepsOfNext
<1>5. QED
  BY <1>2, <1>3, <1>4

\* What a call copies exists when it is sent.
LEMMA SourceExists ==
  ASSUME Types, Control, VolumesAreSound, NEW r \in Requests, Start(r), pc[r] = "idle",
         CopiesVolume(call[r])
  PROVE  From(call[r]) \in DOMAIN ds
<1>1. MaySend(r)
  BY StartIs
<1>2. call \in Plans
  BY DEF Types
<1>3. CASE Is(r, "CreateSnapshot")
  <2>1. OwnsVolume(call[r].volume) /\ call[r].volume \in Volumes
    BY <1>1, <1>2, <1>3, CallsAre DEF MaySend, Is
  <2>2. From(call[r]) = Vol(call[r].volume)
    BY <1>2, <1>3, DestIs DEF Is
  <2>3. QED
    BY <2>1, <2>2, OwnedVolumesAreUsable DEF AckedVolumesAreUsable
<1>4. CASE Is(r, "CreateVolume") /\ call[r].source[1] = "volume"
  <2>1. OwnsVolume(call[r].source[2])
    BY <1>1, <1>4 DEF MaySend, Is, SnapshotIds
  <2>2. From(call[r]) = Vol(call[r].source[2])
    BY <1>2, <1>4, DestIs DEF Is
  <2>3. call[r].source[2] \in Volumes
    BY <2>1 DEF OwnsVolume, Types
  <2>4. QED
    BY <2>1, <2>2, <2>3, OwnedVolumesAreUsable DEF AckedVolumesAreUsable
<1>5. QED
  BY <1>3, <1>4 DEF CopiesVolume, Is

\* What a request sees of its source when it is sent is data of writes there were.
LEMMA SinceStaysTyped ==
  ASSUME Types, Control, VolumesAreSound, [Next]_vars
  PROVE  since' \in [Requests -> 0..MaxWrites]
<1>1. since \in [Requests -> 0..MaxWrites]
  BY DEF Types
<1>2. CASE Onward
  BY <1>1, <1>2 DEF Onward
<1>3. ASSUME NEW r \in Requests, Reply(r) PROVE since' = since
  BY <1>3, ReplyIs
<1>4. ASSUME NEW r \in Requests, Start(r) PROVE since' \in [Requests -> 0..MaxWrites]
  <2>1. CASE Sent(r) \/ ~ CopiesVolume(call[r])
    BY <1>1, <1>4, <2>1, StartIs
  <2>2. CASE ~ Sent(r) /\ CopiesVolume(call[r])
    <3>1. From(call[r]) \in DOMAIN ds
      BY <1>4, <2>2, SourceExists DEF Sent
    <3>2. ds[From(call[r])].content \in 0..MaxWrites
      BY <3>1 DEF Types, Dataset
    <3>3. since' = [since EXCEPT ![r] = ds[From(call[r])].content]
      BY <1>4, <2>2, StartIs
    <3>4. QED
      BY <1>1, <3>2, <3>3
  <2>3. QED
    BY <2>1, <2>2
<1>5. QED
  BY <1>1, <1>2, <1>3, <1>4, OnwardIs

\* What a request makes has a name in the pool.
LEMMA DestIsNamed ==
  ASSUME call \in Plans, NEW r \in Requests
  PROVE  /\ Dest(call[r]) \in Vols \cup Dets
         /\ Is(r, "CreateVolume") => Dest(call[r]) = Vol(VolumeId(call[r]))
                                     /\ Dest(call[r]) \in Vols
         /\ Is(r, "CreateVolume") \/ Is(r, "CreateSnapshot") => Tag(call[r]) \in Tags
         /\ Copies(call[r]) \/ Is(r, "CreateSnapshot") => From(call[r]) \in Vols \cup Dets
<1> DEFINE c == call[r]
<1>1. /\ c.method \in Methods /\ c.volume \in Volumes /\ VolumeId(c) \in Volumes
      /\ c.method = "CreateSnapshot" => c.name \in SnapshotNames
      /\ c.method = "DeleteSnapshot" => c.source \in SnapshotIds
  BY CallsAre
<1>2. \A sid \in SnapshotIds : sid[2] \in Volumes /\ sid[3] \in SnapshotNames
  BY DEF SnapshotIds
<1>3. \/ c.source[1] = "none"
      \/ c.source[1] = "volume" /\ c.source[2] \in Volumes
      \/ c.source \in SnapshotIds /\ c.source[2] \in Volumes /\ c.source[3] \in SnapshotNames
         /\ c.source[1] \in {"snapshot", "detached"}
  BY SourcesAre
<1>4. /\ \A v \in Volumes : Vol(v) \in Vols
      /\ \A v \in Volumes, s \in SnapshotNames : Det(v, s) \in Dets
  BY DEF Vols, Dets
<1>5. Dest(c) \in Vols \cup Dets /\ (c.method = "CreateVolume" => Dest(c) = Vol(VolumeId(c)))
  BY <1>1, <1>2, <1>4 DEF Dest, Methods
<1>6. c.method \in {"CreateVolume", "CreateSnapshot"} => Tag(c) \in Tags
  <2>1. CASE c.method = "CreateSnapshot"
    <3>1. Tag(c) = <<"for-snapshot", c.name>>
      BY <2>1, DestIs
    <3>2. QED
      BY <1>1, <2>1, <3>1 DEF Tags
  <2>2. CASE c.method = "CreateVolume"
    <3>1. Tag(c) = IF c.source[1] = "snapshot" THEN <<"csi", c.source[3]>>
                   ELSE <<"for-volume", VolumeId(c)>>
      BY <2>2, DestIs
    <3>2. QED
      BY <1>1, <1>3, <3>1 DEF Tags
  <2>3. QED
    BY <2>1, <2>2
<1>7. Copies(c) \/ c.method = "CreateSnapshot" => From(c) \in Vols \cup Dets
  BY <1>1, <1>3, <1>4 DEF From, Copies
<1>8. c.method = "CreateVolume" => Dest(c) \in Vols
  BY <1>1, <1>4, <1>5
<1>9. QED
  BY <1>5, <1>6, <1>7, <1>8 DEF Is

\* A handler that copies is one of a call that does.
LEMMA CopyIsNamed ==
  ASSUME Types, NEW r \in Requests
  PROVE  /\ pc[r] \in {"tmp", "receive", "clone"} =>
              /\ CopyFrom(call[r]) \in SnapNames
              /\ (Is(r, "CreateVolume") /\ Copies(call[r])) \/ Is(r, "CreateSnapshot")
         /\ pc[r] = "receive" => <<Dest(call[r]), Tag(call[r])>> \in SnapNames
         /\ pc[r] = "take" => SnapOf(IdOf(call[r])) \in SnapNames
<1>1. call \in Plans /\ InItsPlace(r)
  BY DEF Types
<1>2. pc[r] \in {"tmp", "receive", "clone"} =>
        (Is(r, "CreateVolume") /\ Copies(call[r])) \/ Is(r, "CreateSnapshot")
  BY <1>1 DEF InItsPlace, Is, Copies, Cloned
<1>3. /\ Dest(call[r]) \in Vols \cup Dets
      /\ Is(r, "CreateVolume") \/ Is(r, "CreateSnapshot") => Tag(call[r]) \in Tags
      /\ Copies(call[r]) \/ Is(r, "CreateSnapshot") => From(call[r]) \in Vols \cup Dets
  BY <1>1, DestIsNamed
<1>4. pc[r] = "take" => call[r].method = "CreateSnapshot"
  BY <1>1 DEF InItsPlace
<1>5. call[r].method = "CreateSnapshot" =>
        /\ SnapOf(IdOf(call[r])) = <<Vol(call[r].volume), <<"csi", call[r].name>>>>
        /\ call[r].volume \in Volumes /\ call[r].name \in SnapshotNames
  BY <1>1, DestIs, CallsAre
<1>6. pc[r] = "take" => SnapOf(IdOf(call[r])) \in SnapNames
  BY <1>4, <1>5 DEF SnapNames, Vols, Tags
<1>7. QED
  BY <1>2, <1>3, <1>6 DEF SnapNames, CopyFrom

\* The pool's functions stay functions.
LEMMA FunctionsStay ==
  ASSUME Types, [Next]_vars
  PROVE  IsFunction(ds') /\ IsFunction(snap')
<1>1. IsFunction(ds) /\ IsFunction(snap)
  BY DEF Types, IsFunction
<1>2. IsFunction(ds')
  <2>1. ASSUME NEW v \in Writable, Write(v) PROVE IsFunction(ds')
    BY <1>1, <2>1 DEF Write, IsFunction
  <2>2. (\E d, props : Adds(d, props) \/ Changes(d, props)) \/ (\E d : Removes(d))
           => IsFunction(ds')
    BY DEF Adds, Changes, Removes
  <2>3. ASSUME NEW r \in Requests,
             \/ DoesCreate(r) \/ DoesClone(r) \/ DoesReceive(r) \/ DoesCreateContainer(r)
             \/ DoesSetProperties(r) \/ DoesSetSize(r) \/ DoesSetContext(r)
             \/ DoesSetSuccess(r)
             \/ DoesDestroyVolume(r) \/ DoesDestroyDetached(r) \/ DoesDestroyContainer(r)
        PROVE  \/ ds' = ds
               \/ \E d, props : Adds(d, props) \/ Changes(d, props)
               \/ \E d : Removes(d)
    BY <2>3 DEF DoesCreate, DoesClone, DoesReceive, DoesCreateContainer, DoesSetProperties,
       DoesSetSize, DoesSetContext, DoesSetSuccess, DoesDestroyVolume, DoesDestroyDetached,
       DoesDestroyContainer
  <2>4. QED
    BY <1>1, <2>1, <2>2, <2>3, PoolSteps
<1>3. IsFunction(snap')
  <2>1. /\ \A k, props : Captures(k, props) => IsFunction(snap')
        /\ \A k : Releases(k) => IsFunction(snap')
        /\ \A gone : Discards(gone) => IsFunction(snap')
    BY DEF Captures, Releases, Marks, Discards
  <2>2. ASSUME NEW r \in Requests, DoesTakeTemporary(r) \/ DoesTakeSnapshot(r) \/ DoesReceive(r)
        PROVE  snap' = snap \/ \E k, props : Captures(k, props)
    BY <2>2 DEF DoesTakeTemporary, DoesTakeSnapshot, DoesReceive
  <2>3. ASSUME NEW r \in Requests, DoesDestroyVolume(r) \/ DoesDestroyDetached(r)
        PROVE  \E gone : Discards(gone)
    BY <2>3 DEF DoesDestroyVolume, DoesDestroyDetached
  <2>4. QED
    BY <1>1, <2>1, <2>2, <2>3, WaysToChange, FreesIs
<1>4. QED
  BY <1>2, <1>3

\* Datasets stay named and typed.
LEMMA DatasetsStayTyped ==
  ASSUME Types, Control, [Next]_vars
  PROVE  DOMAIN ds' \subseteq Vols \cup Cons \cup Dets /\ \A d \in DOMAIN ds' : ds'[d] \in Dataset
<1> SUFFICES ASSUME NEW d \in DOMAIN ds'
             PROVE  d \in Vols \cup Cons \cup Dets /\ ds'[d] \in Dataset
  OBVIOUS
<1>1. call \in Plans /\ MaxWrites \in Nat
  BY OptionsAssumption DEF Types
<1>2. \A k \in DOMAIN snap : k \in SnapNames /\ snap[k] \in Snapshotted
  BY DEF Types
<1>3. CASE d \in DOMAIN ds
  <2>1. d \in Vols \cup Cons \cup Dets /\ ds[d] \in Dataset
    BY <1>3 DEF Types
  <2>2. CASE \E v \in Writable : Write(v)
    <3>1. PICK v \in Writable : Write(v)
      BY <2>2
    <3>2. ds' = [ds EXCEPT ![Vol(v)].content = writes + 1] /\ writes + 1 \in 0..MaxWrites
      BY <1>1, <3>1 DEF Write, Types
    <3>3. ds'[d] = ds[d] \/ ds'[d] = [ds[d] EXCEPT !.content = writes + 1]
      BY <1>3, <3>2
    <3>4. QED
      BY <2>1, <3>2, <3>3 DEF Dataset
  <2>3. QED
    BY <1>3, <2>1, <2>2, KeptDatasets
<1>4. CASE d \notin DOMAIN ds
  <2>1. PICK r \in Requests :
           \/ /\ DoesCreate(r) /\ d = Dest(call[r])
              /\ \E size \in {0, call[r].size} : ds'[d] = Fresh(0, NoOrigin, size, TRUE)
           \/ /\ DoesClone(r) /\ d = Dest(call[r])
              /\ LET k == CopyFrom(call[r]) IN \E size \in {0, snap[k].size} :
                   ds'[d] = Fresh(snap[k].content, k, size, TRUE)
           \/ /\ DoesReceive(r) /\ d = Dest(call[r])
              /\ LET k == CopyFrom(call[r]) IN \E size \in {0, snap[k].size} :
                   ds'[d] = Fresh(snap[k].content, NoOrigin, size, FALSE)
           \/ /\ DoesCreateContainer(r) /\ d = Con(call[r].volume)
              /\ ds'[d] = Fresh(0, NoOrigin, 0, FALSE)
    BY <1>4, NewDatasets
  <2>2. call[r].size \in Nat /\ call[r].volume \in Volumes
    BY <1>1, CallsAre
  <2>3. d \in Vols \cup Cons \cup Dets
    BY <1>1, <2>1, <2>2, DestIsNamed DEF Cons
  <2>4. \A k \in DOMAIN snap : snap[k].size \in Nat /\ snap[k].content \in 0..MaxWrites
    BY <1>2 DEF Snapshotted
  <2>5. DoesClone(r) \/ DoesReceive(r) => CopyFrom(call[r]) \in DOMAIN snap
    BY DEF DoesClone, DoesReceive
  <2>6. 0 \in 0..MaxWrites /\ 0 \in Nat
    BY <1>1
  <2>7. \A content \in 0..MaxWrites, org \in SnapNames \cup {NoOrigin}, size \in Nat,
           managed \in BOOLEAN : Fresh(content, org, size, managed) \in Dataset
    BY DEF Fresh, Dataset
  <2>8. ds'[d] \in Dataset
    BY <1>2, <2>1, <2>2, <2>4, <2>5, <2>6, <2>7
  <2>9. QED
    BY <2>3, <2>8
<1>5. QED
  BY <1>3, <1>4

\* Snapshots stay named and typed.
LEMMA SnapshotsStayTyped ==
  ASSUME Types, [Next]_vars
  PROVE  DOMAIN snap' \subseteq SnapNames /\ \A k \in DOMAIN snap' : snap'[k] \in Snapshotted
<1> SUFFICES ASSUME NEW k \in DOMAIN snap'
             PROVE  k \in SnapNames /\ snap'[k] \in Snapshotted
  OBVIOUS
<1>1. CASE k \in DOMAIN snap
  BY <1>1, KeptSnapshots DEF Types
<1>2. CASE k \notin DOMAIN snap
  <2>1. PICK r \in Requests :
           \/ /\ DoesTakeTemporary(r) /\ k = CopyFrom(call[r]) /\ k[1] \in DOMAIN ds
              /\ snap'[k] = [content |-> ds[k[1]].content, size |-> ds[k[1]].size,
                             managed |-> FALSE, defer |-> FALSE]
           \/ /\ DoesTakeSnapshot(r) /\ k = SnapOf(IdOf(call[r])) /\ From(call[r]) \in DOMAIN ds
              /\ snap'[k] = [content |-> ds[k[1]].content, size |-> ds[k[1]].size,
                             managed |-> TRUE, defer |-> FALSE]
           \/ /\ DoesReceive(r) /\ k = <<Dest(call[r]), Tag(call[r])>>
              /\ snap'[k] = [snap[CopyFrom(call[r])] EXCEPT !.managed = FALSE, !.defer = FALSE]
    BY <1>2, NewSnapshots
  <2>2. CASE DoesTakeTemporary(r) /\ k = CopyFrom(call[r]) /\ k[1] \in DOMAIN ds
              /\ snap'[k] = [content |-> ds[k[1]].content, size |-> ds[k[1]].size,
                             managed |-> FALSE, defer |-> FALSE]
    <3>1. pc[r] = "tmp" /\ ds[k[1]] \in Dataset
      BY <2>2 DEF DoesTakeTemporary, Goes, Types
    <3>2. ds[k[1]].content \in 0..MaxWrites /\ ds[k[1]].size \in Nat
      BY <3>1 DEF Dataset
    <3>3. k \in SnapNames
      BY <2>2, <3>1, CopyIsNamed
    <3>4. snap'[k] \in Snapshotted
      BY <2>2, <3>2 DEF Snapshotted
    <3>5. QED
      BY <3>3, <3>4
  <2>3. CASE DoesTakeSnapshot(r) /\ k = SnapOf(IdOf(call[r])) /\ From(call[r]) \in DOMAIN ds
              /\ snap'[k] = [content |-> ds[k[1]].content, size |-> ds[k[1]].size,
                             managed |-> TRUE, defer |-> FALSE]
    <3>1. pc[r] = "take" /\ call[r].method = "CreateSnapshot" /\ call \in Plans
      BY <2>3 DEF DoesTakeSnapshot, Goes, Types, Is
    <3>2. k[1] = From(call[r])
      <4>1. /\ SnapOf(IdOf(call[r])) = <<Vol(call[r].volume), <<"csi", call[r].name>>>>
            /\ From(call[r]) = Vol(call[r].volume)
        BY <3>1, DestIs
      <4>2. QED
        BY <2>3, <4>1
    <3>3. ds[k[1]].content \in 0..MaxWrites /\ ds[k[1]].size \in Nat
      BY <2>3, <3>2 DEF Types, Dataset
    <3>4. k \in SnapNames
      BY <2>3, <3>1, CopyIsNamed
    <3>5. snap'[k] \in Snapshotted
      BY <2>3, <3>3 DEF Snapshotted
    <3>6. QED
      BY <3>4, <3>5
  <2>4. CASE DoesReceive(r) /\ k = <<Dest(call[r]), Tag(call[r])>>
              /\ snap'[k] = [snap[CopyFrom(call[r])] EXCEPT !.managed = FALSE, !.defer = FALSE]
    <3>1. pc[r] = "receive" /\ snap[CopyFrom(call[r])] \in Snapshotted
      BY <2>4 DEF DoesReceive, Types
    <3>2. QED
      BY <2>4, <3>1, CopyIsNamed DEF Snapshotted
  <2>5. QED
    BY <2>1, <2>2, <2>3, <2>4
<1>3. QED
  BY <1>1, <1>2

\* All the types are kept by every step.
LEMMA TypesStay ==
  ASSUME Types, Control, VolumesAreSound, [Next]_vars
  PROVE  Types'
<1>1. call' \in Plans /\ resourceType' \in ResourceTypes
  BY ForwardIs DEF Forward, Types
<1>2. origin' \in [Requests -> SnapNames \cup {NoOrigin}]
  <2>1. origin \in [Requests -> SnapNames \cup {NoOrigin}]
    BY DEF Types
  <2>2. ASSUME NEW r \in Requests, DoesReadOrigin(r)
        PROVE  origin' \in [Requests -> SnapNames \cup {NoOrigin}]
    BY <2>1, <2>2 DEF DoesReadOrigin, Types, Dataset
  <2>3. ASSUME NEW r \in Requests, Works(r), ~ DoesReadOrigin(r)
        PROVE  origin' = origin
    BY <2>3 DEF Works, DoesCheckSize, DoesCreate, DoesTakeTemporary, DoesClone, DoesReceive,
       DoesSetProperties, DoesStripSnapshots, DoesDropTemporary, DoesSetSize, DoesCreateShare,
       DoesSetContext, DoesSetSuccess, DoesDeleteShare, DoesDeferOrigin,
       DoesCheckManaged, DoesDestroyVolume, DoesCheckName, DoesTakeSnapshot,
       DoesCreateContainer, DoesReleaseSnapshot, DoesDestroyDetached, DoesDestroyContainer
  <2>4. ASSUME NEW r \in Requests, Start(r) \/ Reply(r) \/ Stalls(r) PROVE origin' = origin
    BY <2>4, StartIs, ReplyIs DEF Stalls
  <2>5. QED
    BY <2>1, <2>2, <2>3, <2>4, StepsOfNext DEF vars, Restart, Write
<1>3. shares' \subseteq Vols
  <2>1. shares \subseteq Vols /\ call \in Plans
    BY DEF Types
  <2>2. \A r \in Requests : DoesCreateShare(r) => Dest(call[r]) \in Vols
    BY <2>1, DestIsNamed DEF DoesCreateShare
  <2>3. QED
    BY <2>1, <2>2, ShareSteps
<1>4. writes' \in 0..MaxWrites
  <2>1. writes \in 0..MaxWrites /\ MaxWrites \in Nat
    BY OptionsAssumption DEF Types
  <2>2. ASSUME NEW v \in Writable, Write(v) PROVE writes' \in 0..MaxWrites
    BY <2>1, <2>2 DEF Write
  <2>3. ASSUME NEW r \in Requests, Start(r) \/ Works(r) \/ Reply(r) \/ Stalls(r)
        PROVE  writes' = writes
    BY <2>3, StartIs, ReplyIs, WorksMoves DEF Stalls, Moves
  <2>4. QED
    BY <2>1, <2>2, <2>3, StepsOfNext DEF vars, Restart, bounds
<1>5. /\ DOMAIN promised' \subseteq Volumes /\ \A v \in DOMAIN promised' : promised'[v] \in Nat
      /\ DOMAIN captured' \subseteq SnapshotIds
  BY PromisesStayMade DEF Control
<1>6. /\ ds' = [d \in DOMAIN ds' |-> ds'[d]] /\ snap' = [k \in DOMAIN snap' |-> snap'[k]]
  BY FunctionsStay DEF IsFunction
<1>7. pc' \in [Requests -> Places] /\ \A r \in Requests : InItsPlace(r)'
  BY PlacesStayTyped
<1>8. answer' \in [Requests -> Codes] /\ faults' \in 0..MaxFaults
  BY AnswersStayTyped
<1>9. since' \in [Requests -> 0..MaxWrites]
  BY SinceStaysTyped
<1>10. DOMAIN ds' \subseteq Vols \cup Cons \cup Dets /\ \A d \in DOMAIN ds' : ds'[d] \in Dataset
  BY DatasetsStayTyped
<1>11. DOMAIN snap' \subseteq SnapNames /\ \A k \in DOMAIN snap' : snap'[k] \in Snapshotted
  BY SnapshotsStayTyped
<1>12. QED
  BY <1>1, <1>2, <1>3, <1>4, <1>5, <1>6, <1>7, <1>8, <1>9, <1>10, <1>11 DEF Types, Codes

----------------------------------------------------------------------------
(* Datasets, their snapshots and their origins.                            *)

\* A dataset that goes takes its snapshots along, and has no clones.
LEMMA DestroyIs ==
  ASSUME Types, [Next]_vars, NEW r \in Requests, DoesDestroyVolume(r) \/ DoesDestroyDetached(r)
  PROVE  LET d == Dest(call[r]) IN
         /\ \A k \in DOMAIN snap' : k \in DOMAIN snap /\ k[1] # d
                                    /\ ~ (snap[k].defer /\ Clones(k) = {d})
         /\ \A k \in DOMAIN snap : k[1] = d => Clones(k) = {}
         /\ Removes(d) /\ shares' = shares
<1> DEFINE d == Dest(call[r])
           gone == SnapsOf(d) \cup {k \in DOMAIN snap : snap[k].defer /\ Clones(k) = {d}}
<1>1. ~ HasClones(d) /\ Removes(d) /\ Discards(gone) /\ shares' = shares
  BY DEF DoesDestroyVolume, DoesDestroyDetached
<1>2. \A k \in DOMAIN snap : k[1] = d => Clones(k) = {}
  BY <1>1 DEF HasClones, SnapsOf
<1>3. \A k \in gone : k \notin DOMAIN snap'
  <2> HIDE DEF gone
  <2>1. QED
    BY <1>1 DEF Discards
<1>4. \A k \in DOMAIN snap' : k \in DOMAIN snap
  <2> HIDE DEF gone
  <2>1. QED
    BY <1>1 DEF Discards
<1>5. \A k \in DOMAIN snap : k[1] = d => k \in gone
  BY DEF SnapsOf
<1>6. \A k \in DOMAIN snap : snap[k].defer /\ Clones(k) = {d} => k \in gone
  OBVIOUS
<1> HIDE DEF d, gone
<1>7. QED
  BY <1>1, <1>2, <1>3, <1>4, <1>5, <1>6 DEF d

\* A snapshot with a clone goes only with its last clone.
LEMMA ClonedSnapshotsStay ==
  ASSUME Types, [Next]_vars, NEW k \in DOMAIN snap, NEW d \in Clones(k), d \in DOMAIN ds'
  PROVE  k \in DOMAIN snap' /\ d \in Clones(k)'
<1>1. d \in DOMAIN ds /\ ds[d].origin = k
  BY DEF Clones
<1>2. ds'[d].origin = k
  BY <1>1, KeptDatasets
<1>3. d \in Clones(k)'
  BY <1>2 DEF Clones
<1>4. SUFFICES ASSUME k \notin DOMAIN snap' PROVE FALSE
  BY <1>3
<1>5. PICK r \in Requests :
        /\ DoesDestroyVolume(r) \/ DoesDestroyDetached(r)
        /\ k[1] = Dest(call[r]) \/ Clones(k) = {Dest(call[r])}
  BY <1>4, LostSnapshots
<1>6. Removes(Dest(call[r])) /\ (k[1] = Dest(call[r]) => Clones(k) = {})
  BY <1>5, DestroyIs
<1>7. d # Dest(call[r])
  BY <1>6 DEF Removes
<1>8. QED
  BY <1>5, <1>6, <1>7

\* No step destroys a dataset under its snapshots, or the origin under its clone, and
\* none leaves a marked snapshot without a clone.
LEMMA PoolStaysSound ==
  ASSUME Types, PoolIsSound, Origins, \A r \in Requests : VolumeGoes(r), [Next]_vars
  PROVE  PoolIsSound'
<1>1. ASSUME NEW k \in DOMAIN snap' PROVE k[1] \in DOMAIN ds'
  <2>1. CASE k \in DOMAIN snap
    <3>1. k[1] \in DOMAIN ds /\ k \in SnapNames
      BY <2>1 DEF PoolIsSound, Types
    <3>2. SUFFICES ASSUME k[1] \notin DOMAIN ds' PROVE FALSE
      OBVIOUS
    <3>3. PICK r \in Requests :
            \/ (DoesDestroyVolume(r) \/ DoesDestroyDetached(r)) /\ k[1] = Dest(call[r])
            \/ k[1] = Con(call[r].source[2])
      BY <3>1, <3>2, LostDatasets
    <3>4. k[1] # Con(call[r].source[2])
      BY <3>1, SnapNamesAre, NamesAre
    <3>5. QED
      BY <3>3, <3>4, DestroyIs
  <2>2. CASE k \notin DOMAIN snap
    <3>1. PICK r \in Requests :
           \/ DoesTakeTemporary(r) /\ k[1] \in DOMAIN ds
           \/ DoesTakeSnapshot(r) /\ k = SnapOf(IdOf(call[r])) /\ From(call[r]) \in DOMAIN ds
           \/ k = <<Dest(call[r]), Tag(call[r])>> /\ Dest(call[r]) \in DOMAIN ds'
      BY <2>2, NewSnapshots
    <3>2. CASE DoesTakeTemporary(r) /\ k[1] \in DOMAIN ds
      BY <3>2 DEF DoesTakeTemporary
    <3>3. CASE DoesTakeSnapshot(r) /\ k = SnapOf(IdOf(call[r])) /\ From(call[r]) \in DOMAIN ds
      <4>1. ds' = ds /\ call[r].method = "CreateSnapshot" /\ call \in Plans
        BY <3>3 DEF DoesTakeSnapshot, Is, Types
      <4>2. /\ SnapOf(IdOf(call[r])) = <<Vol(call[r].volume), <<"csi", call[r].name>>>>
            /\ From(call[r]) = Vol(call[r].volume)
        BY <4>1, DestIs
      <4>3. QED
        BY <3>3, <4>1, <4>2
    <3>4. QED
      BY <3>1, <3>2, <3>3
  <2>3. QED
    BY <2>1, <2>2
<1>2. ASSUME NEW d \in DOMAIN ds', ds'[d].origin # NoOrigin
      PROVE  ds'[d].origin \in DOMAIN snap'
  <2>1. CASE d \in DOMAIN ds
    <3>1. ds'[d].origin = ds[d].origin
      BY <2>1, KeptDatasets
    <3>2. ds[d].origin \in DOMAIN snap /\ d \in Clones(ds[d].origin)
      BY <1>2, <2>1, <3>1 DEF PoolIsSound, Clones
    <3>3. QED
      BY <3>1, <3>2, ClonedSnapshotsStay
  <2>2. CASE d \notin DOMAIN ds
    <3>1. PICK r \in Requests : DoesClone(r) /\ ds'[d].origin = CopyFrom(call[r])
      BY <1>2, <2>2, NewDatasets DEF Fresh
    <3>2. QED
      BY <3>1 DEF DoesClone
  <2>3. QED
    BY <2>1, <2>2
<1>3. shares' \subseteq DOMAIN ds'
  <2> SUFFICES ASSUME NEW d \in shares' PROVE d \in DOMAIN ds'
    OBVIOUS
  <2>1. CASE d \notin shares
    BY <2>1, ShareSteps DEF DoesCreateShare
  <2>2. CASE d \in shares
    <3>1. d \in DOMAIN ds /\ d \in Vols /\ call \in Plans
      BY <2>2 DEF PoolIsSound, Types
    <3>2. SUFFICES ASSUME d \notin DOMAIN ds' PROVE FALSE
      OBVIOUS
    <3>3. PICK r \in Requests :
            \/ (DoesDestroyVolume(r) \/ DoesDestroyDetached(r)) /\ d = Dest(call[r])
            \/ d = Con(call[r].source[2])
      BY <3>1, <3>2, LostDatasets
    <3>4. \A v : d # Con(v)
      BY <3>1, NamesDiffer DEF Vols
    <3>5. ~ DoesDestroyDetached(r) \/ d # Dest(call[r])
      <4>1. call[r].method = "DeleteSnapshot"
              => Dest(call[r]) = Det(call[r].source[2], call[r].source[3])
        BY <3>1, DestIs
      <4>2. \A v, s : d # Det(v, s)
        BY <3>1, NamesDiffer DEF Vols
      <4>3. QED
        BY <4>1, <4>2 DEF DoesDestroyDetached, Is
    <3>6. DoesDestroyVolume(r) /\ d = Dest(call[r])
      BY <3>3, <3>4, <3>5
    <3>7. call[r].method = "DeleteVolume" /\ pc[r] = "destroy"
      BY <3>6 DEF DoesDestroyVolume, Goes, Is
    <3>8. Dest(call[r]) = Vol(call[r].volume)
      BY <3>1, <3>7, DestIs
    <3>9. QED
      BY <2>2, <3>6, <3>7, <3>8 DEF VolumeGoes
  <2>3. QED
    BY <2>1, <2>2
<1>4. ASSUME NEW k \in DOMAIN snap', snap'[k].defer PROVE Clones(k)' # {}
  <2>1. CASE k \notin DOMAIN snap
    <3>1. PICK r \in Requests :
            \/ snap'[k] = [content |-> ds[k[1]].content, size |-> ds[k[1]].size,
                           managed |-> FALSE, defer |-> FALSE]
            \/ snap'[k] = [content |-> ds[k[1]].content, size |-> ds[k[1]].size,
                           managed |-> TRUE, defer |-> FALSE]
            \/ DoesReceive(r)
               /\ snap'[k] = [snap[CopyFrom(call[r])] EXCEPT !.managed = FALSE, !.defer = FALSE]
      BY <2>1, NewSnapshots
    <3>2. DoesReceive(r) => snap[CopyFrom(call[r])] \in Snapshotted
      BY DEF DoesReceive, Types
    <3>3. ~ snap'[k].defer
      <4>1. ASSUME NEW s \in Snapshotted, snap'[k] = [s EXCEPT !.managed = FALSE, !.defer = FALSE]
            PROVE  ~ snap'[k].defer
        BY <4>1 DEF Snapshotted
      <4>2. CASE DoesReceive(r)
                 /\ snap'[k] = [snap[CopyFrom(call[r])] EXCEPT !.managed = FALSE, !.defer = FALSE]
        BY <3>2, <4>1, <4>2
      <4>3. CASE \/ snap'[k] = [content |-> ds[k[1]].content, size |-> ds[k[1]].size,
                                managed |-> FALSE, defer |-> FALSE]
                 \/ snap'[k] = [content |-> ds[k[1]].content, size |-> ds[k[1]].size,
                                managed |-> TRUE, defer |-> FALSE]
        BY <4>3
      <4>4. QED
        BY <3>1, <4>2, <4>3
    <3>4. QED
      BY <1>4, <3>3
  <2>2. CASE k \in DOMAIN snap /\ snap'[k] # snap[k]
    <3>1. PICK r \in Requests : Frees(r, k) /\ Clones(k) # {}
      BY <2>2, KeptSnapshots
    <3>2. ds' = ds
      BY <3>1, FreesIs
    <3>3. QED
      BY <3>1, <3>2 DEF Clones
  <2>3. CASE k \in DOMAIN snap /\ snap'[k] = snap[k]
    <3>1. PICK d \in Clones(k) : TRUE
      BY <1>4, <2>3 DEF PoolIsSound
    <3>2. CASE d \in DOMAIN ds'
      BY <2>3, <3>2, ClonedSnapshotsStay
    <3>3. CASE d \notin DOMAIN ds'
      <4>1. d \in DOMAIN ds /\ ds[d].origin = k
        BY <3>1 DEF Clones
      <4>2. PICK r \in Requests :
              \/ (DoesDestroyVolume(r) \/ DoesDestroyDetached(r)) /\ d = Dest(call[r])
              \/ DoesDestroyContainer(r) /\ d = Con(call[r].source[2])
        BY <3>3, <4>1, LostDatasets
      <4>3. Removes(d)
        <5>1. DoesDestroyContainer(r) /\ d = Con(call[r].source[2]) => Removes(d)
          BY <3>3, <4>1 DEF DoesDestroyContainer
        <5>2. QED
          BY <4>2, <5>1, DestroyIs
      <4>4. CASE Clones(k) = {d}
        <5>1. ~ (DoesDestroyVolume(r) \/ DoesDestroyDetached(r)) \/ d # Dest(call[r])
          BY <1>4, <2>3, <4>4, DestroyIs
        <5>2. d # Con(call[r].source[2])
          <6>1. OriginIs(d) /\ k # NoOrigin
            BY <2>3, <4>1, SnapNamesAre DEF Origins, Types
          <6>2. d[1] = "vol"
            BY <4>1, <6>1 DEF OriginIs
          <6>3. QED
            BY <6>2, NamesAre
        <5>3. QED
          BY <4>2, <5>1, <5>2
      <4>5. CASE Clones(k) # {d}
        <5>1. PICK x \in Clones(k) : x # d
          BY <3>1, <4>5
        <5>2. x \in DOMAIN ds'
          BY <4>3, <5>1 DEF Removes, Clones
        <5>3. QED
          BY <2>3, <5>1, <5>2, ClonedSnapshotsStay
      <4>6. QED
        BY <4>4, <4>5
    <3>4. QED
      BY <3>2, <3>3
  <2>4. QED
    BY <2>1, <2>2, <2>3
<1>5. QED
  BY <1>1, <1>2, <1>3, <1>4 DEF PoolIsSound

\* Calls for one volume copy the same, if they copy.
LEMMA CreatorsAgree ==
  ASSUME call \in Plans, NEW q \in Requests, NEW r \in Requests, NEW v \in Volumes,
         Creates(q, v), Creates(r, v)
  PROVE  /\ Copies(call[q]) <=> Copies(call[r])
         /\ Copies(call[r]) => call[q] = call[r]
         /\ Cloned(call[q]) <=> Cloned(call[r])
         /\ Received(call[q]) <=> Received(call[r])
BY CallsAreWellFormed DEF Cloned, Received

\* A volume's origin is what its creation cloned, whichever step made or changed it.
LEMMA OriginsStay ==
  ASSUME Types, Origins, [Next]_vars
  PROVE  Origins'
<1> SUFFICES ASSUME NEW d \in DOMAIN ds'
             PROVE  /\ d[1] # "vol" => ds'[d].origin = NoOrigin
                    /\ \A v \in Volumes : d = Vol(v) =>
                         /\ \E r \in Requests : Creates(r, v)' /\ Sent(r)'
                         /\ \A r \in Requests : Creates(r, v)' =>
                              ds'[d].origin = IF Cloned(call[r]') THEN CopyFrom(call[r]')
                                              ELSE NoOrigin
  BY DEF Origins, OriginIs
<1>1. /\ call' = call /\ call \in Plans
      /\ \A r \in Requests : Sent(r) => Sent(r)'
      /\ \A r \in Requests : \A v : Creates(r, v)' <=> Creates(r, v)
  BY ForwardIs, CallsStay DEF Forward, Types
<1>2. CASE d \in DOMAIN ds
  <2>1. ds'[d].origin = ds[d].origin
    BY <1>2, KeptDatasets
  <2>2. OriginIs(d)
    BY <1>2 DEF Origins
  <2>3. QED
    BY <1>1, <2>1, <2>2 DEF OriginIs
<1>3. CASE d \notin DOMAIN ds
  <2>1. PICK r \in Requests :
           \/ /\ DoesCreate(r) /\ d = Dest(call[r])
              /\ \E size \in {0, call[r].size} : ds'[d] = Fresh(0, NoOrigin, size, TRUE)
           \/ /\ DoesClone(r) /\ d = Dest(call[r])
              /\ LET k == CopyFrom(call[r]) IN \E size \in {0, snap[k].size} :
                   ds'[d] = Fresh(snap[k].content, k, size, TRUE)
           \/ /\ DoesReceive(r) /\ d = Dest(call[r])
              /\ LET k == CopyFrom(call[r]) IN \E size \in {0, snap[k].size} :
                   ds'[d] = Fresh(snap[k].content, NoOrigin, size, FALSE)
           \/ /\ DoesCreateContainer(r) /\ d = Con(call[r].volume)
              /\ ds'[d] = Fresh(0, NoOrigin, 0, FALSE)
    BY <1>3, NewDatasets
  <2>2. CASE d = Con(call[r].volume)
    <3>1. d[1] = "con" /\ \A v : d # Vol(v)
      BY <2>2, NamesAre, NamesDiffer
    <3>3. ds'[d].origin = NoOrigin
      <4>1. d # Dest(call[r])
        <5>1. Dest(call[r]) \in Vols \cup Dets
          BY <1>1, DestIsNamed
        <5>2. QED
          BY <2>2, <5>1, NamesDiffer DEF Vols, Dets
      <4>2. QED
        BY <2>1, <4>1 DEF Fresh
    <3>4. QED
      BY <3>1, <3>3
  <2>3. CASE d = Dest(call[r]) /\ Is(r, "CreateSnapshot")
    <3>1. d = Det(call[r].volume, call[r].name)
      BY <1>1, <2>3, DestIs DEF Is
    <3>2. d[1] = "det" /\ \A v : d # Vol(v)
      BY <3>1, NamesAre, NamesDiffer
    <3>3. ~ DoesCreate(r) /\ ~ DoesClone(r) /\ d # Con(call[r].volume)
      BY <2>3, <3>1, NamesDiffer DEF DoesCreate, DoesClone, Is
    <3>4. QED
      BY <2>1, <3>2, <3>3 DEF Fresh
  <2>4. CASE d = Dest(call[r]) /\ Is(r, "CreateVolume")
    <3> DEFINE v == VolumeId(call[r])
    <3>1. v \in Volumes /\ Creates(r, v) /\ d = Vol(v)
      BY <1>1, <2>4, CallsAre, DestIsNamed DEF Creates
    <3>2. Running(r) /\ d # Con(call[r].volume)
      BY <2>1, <3>1, NamesDiffer DEF DoesCreate, DoesClone, DoesReceive, DoesCreateContainer, Goes
    <3>3. Sent(r)
      BY <3>2 DEF Running, Sent
    <3>4. InItsPlace(r)
      BY DEF Types
    <3>5. ds'[d].origin = IF Cloned(call[r]) THEN CopyFrom(call[r]) ELSE NoOrigin
      <4>1. CASE /\ DoesCreate(r)
                 /\ \E size \in {0, call[r].size} : ds'[d] = Fresh(0, NoOrigin, size, TRUE)
        BY <4>1 DEF DoesCreate, Cloned, Fresh
      <4>2. CASE DoesClone(r) /\ LET k == CopyFrom(call[r]) IN \E size \in {0, snap[k].size} :
                   ds'[d] = Fresh(snap[k].content, k, size, TRUE)
        BY <4>2 DEF DoesClone, Fresh
      <4>3. CASE DoesReceive(r) /\ LET k == CopyFrom(call[r]) IN \E size \in {0, snap[k].size} :
                   ds'[d] = Fresh(snap[k].content, NoOrigin, size, FALSE)
        BY <4>3 DEF DoesReceive, Cloned, Fresh
      <4>4. QED
        BY <2>1, <3>2, <4>1, <4>2, <4>3
    <3>6. \A q \in Requests : Creates(q, v) =>
            (IF Cloned(call[q]) THEN CopyFrom(call[q]) ELSE NoOrigin)
              = IF Cloned(call[r]) THEN CopyFrom(call[r]) ELSE NoOrigin
      BY <1>1, <3>1, CreatorsAgree DEF Cloned
    <3>7. d[1] = "vol" /\ \A u : d = Vol(u) => u = v
      BY <3>1, NamesAre
    <3> HIDE DEF v
    <3>8. QED
      BY <1>1, <3>1, <3>3, <3>5, <3>6, <3>7
  <2>5. QED
    <3>1. Is(r, "CreateVolume") \/ Is(r, "CreateSnapshot")
      BY <2>1, CopyIsNamed DEF DoesCreate, DoesClone, DoesReceive, DoesCreateContainer
    <3>2. QED
      BY <2>1, <2>2, <2>3, <2>4, <3>1
<1>4. QED
  BY <1>2, <1>3

----------------------------------------------------------------------------
(* Volumes.                                                                *)

\* Requests that exclude each other.
LEMMA Excluded ==
  ASSUME Types, Exclusive, NEW q \in Requests, NEW r \in Requests, q # r,
         Running(q), Running(r), NEW v
  PROVE  /\ v \in Volumes => ~ (Creates(q, v) /\ Creates(r, v))
         /\ ~ (Deletes(q, v) /\ Deletes(r, v))
         /\ ~ (Deletes(q, v) /\ Is(r, "CreateSnapshot") /\ call[r].volume = v)
<1>1. Keys(call[q]) \cap Keys(call[r]) = {}
  BY DEF Exclusive
<1>2. call \in Plans
  BY DEF Types
<1>3. ASSUME v \in Volumes, Creates(q, v), Creates(r, v) PROVE FALSE
  <2>1. call[q].name = call[r].name
    BY <1>2, <1>3, CallsAreWellFormed
  <2>2. /\ Keys(call[q]) = {<<"create_volume_name", call[q].name>>}
        /\ Keys(call[r]) = {<<"create_volume_name", call[r].name>>}
    BY <1>3 DEF Keys, Creates, Is
  <2>3. QED
    BY <1>1, <2>1, <2>2
<1>4. ASSUME Deletes(q, v) PROVE <<"volume_id", v>> \in Keys(call[q])
  BY <1>4 DEF Keys, Deletes, Is
<1>5. ASSUME Deletes(r, v) PROVE <<"volume_id", v>> \in Keys(call[r])
  BY <1>5 DEF Keys, Deletes, Is
<1>6. ASSUME Is(r, "CreateSnapshot"), call[r].volume = v PROVE <<"volume_id", v>> \in Keys(call[r])
  BY <1>6 DEF Keys, Is
<1>7. QED
  BY <1>1, <1>3, <1>4, <1>5, <1>6

\* Whose dataset a volume is.
LEMMA WhoseVolume ==
  ASSUME Types, NEW r \in Requests, NEW v, Dest(call[r]) = Vol(v)
  PROVE  Creates(r, v) \/ Deletes(r, v) \/ Expands(r, v)
<1>1. call \in Plans /\ call[r].method \in Methods
  BY CallsAre DEF Types
<1>2. call[r].method \notin {"CreateSnapshot", "DeleteSnapshot"}
  <2>1. /\ call[r].method = "CreateSnapshot" => Dest(call[r]) = Det(call[r].volume, call[r].name)
        /\ call[r].method = "DeleteSnapshot" =>
             Dest(call[r]) = Det(call[r].source[2], call[r].source[3])
    BY <1>1, DestIs
  <2>2. \A u, s : Vol(v) # Det(u, s)
    BY NamesDiffer
  <2>3. QED
    BY <2>1, <2>2
<1>3. Dest(call[r]) = Vol(VolumeId(call[r]))
  BY <1>2 DEF Dest
<1>4. VolumeId(call[r]) = v
  BY <1>3, NamesDiffer
<1>5. QED
  BY <1>1, <1>2, <1>4 DEF Creates, Deletes, Expands, Is, VolumeId, Methods

\* Who makes, destroys, shares and sizes it.
LEMMA VolumeSteps ==
  ASSUME Types, [Next]_vars, NEW v \in Volumes
  PROVE  /\ Vol(v) \in DOMAIN ds' \ DOMAIN ds =>
              \E q \in Requests : Creates(q, v) /\ Running(q)
                                  /\ (DoesCreate(q) \/ DoesClone(q) \/ DoesReceive(q))
         /\ Vol(v) \in DOMAIN ds \ DOMAIN ds' =>
              \E q \in Requests : Deletes(q, v) /\ Running(q) /\ DoesDestroyVolume(q)
         /\ Vol(v) \in shares' \ shares =>
              \E q \in Requests : Creates(q, v) /\ Running(q) /\ DoesCreateShare(q)
         /\ Vol(v) \in shares \ shares' =>
              \E q \in Requests : Deletes(q, v) /\ Running(q) /\ DoesDeleteShare(q)
         /\ Vol(v) \in DOMAIN ds /\ Vol(v) \in DOMAIN ds' /\ ds'[Vol(v)].size # ds[Vol(v)].size =>
              \E q \in Requests : /\ Creates(q, v) \/ Expands(q, v)
                                  /\ Running(q) /\ pc[q] = "size" /\ DoesSetSize(q)
                                  /\ ds'[Vol(v)].size = call[q].size
<1>1. /\ \A u : Vol(v) # Con(u)
      /\ \A q \in Requests :
            Dest(call[q]) = Vol(v) => Creates(q, v) \/ Deletes(q, v) \/ Expands(q, v)
  BY NamesDiffer, WhoseVolume
<1>2. ASSUME Vol(v) \in DOMAIN ds' \ DOMAIN ds
      PROVE  \E q \in Requests : Creates(q, v) /\ Running(q)
                                  /\ (DoesCreate(q) \/ DoesClone(q) \/ DoesReceive(q))
  <2>1. PICK q \in Requests : /\ DoesCreate(q) \/ DoesClone(q) \/ DoesReceive(q)
                              /\ Vol(v) = Dest(call[q])
    BY <1>1, <1>2, NewDatasets
  <2>2. Running(q) /\ (Is(q, "CreateVolume") \/ pc[q] = "receive")
    BY <2>1 DEF DoesCreate, DoesClone, DoesReceive, Goes
  <2>3. Is(q, "CreateVolume") \/ Is(q, "CreateSnapshot")
    BY <2>2, CopyIsNamed
  <2>4. QED
    BY <1>1, <2>1, <2>2, <2>3 DEF Creates, Deletes, Expands, Is
<1>3. ASSUME Vol(v) \in DOMAIN ds \ DOMAIN ds'
      PROVE  \E q \in Requests : Deletes(q, v) /\ Running(q) /\ DoesDestroyVolume(q)
  <2>1. PICK q \in Requests : /\ DoesDestroyVolume(q) \/ DoesDestroyDetached(q)
                              /\ Vol(v) = Dest(call[q])
    BY <1>1, <1>3, LostDatasets
  <2>2. Running(q) /\ (Is(q, "DeleteVolume") \/ Is(q, "DeleteSnapshot"))
    BY <2>1 DEF DoesDestroyVolume, DoesDestroyDetached, Goes
  <2>3. Deletes(q, v)
    BY <1>1, <2>1, <2>2 DEF Creates, Deletes, Expands, Is
  <2>4. QED
    BY <2>1, <2>2, <2>3 DEF DoesDestroyDetached, Deletes, Is
<1>4. ASSUME NEW q \in Requests, DoesCreateShare(q), Vol(v) = Dest(call[q])
      PROVE  Creates(q, v) /\ Running(q)
  BY <1>1, <1>4 DEF DoesCreateShare, Goes, Creates, Deletes, Expands, Is
<1>5. ASSUME NEW q \in Requests, DoesDeleteShare(q), Vol(v) = Dest(call[q])
      PROVE  Deletes(q, v) /\ Running(q)
  BY <1>1, <1>5 DEF DoesDeleteShare, Goes, Creates, Deletes, Expands, Is
<1>6. ASSUME NEW q \in Requests, DoesSetSize(q), Vol(v) = Dest(call[q])
      PROVE  (Creates(q, v) \/ Expands(q, v)) /\ Running(q) /\ pc[q] = "size"
  <2>1. pc[q] = "size" /\ Running(q) /\ InItsPlace(q)
    BY <1>6 DEF DoesSetSize, Goes, Types
  <2>2. ~ Deletes(q, v)
    BY <2>1 DEF InItsPlace, Deletes, Is
  <2>3. QED
    BY <1>1, <1>6, <2>1, <2>2
<1>7. ASSUME Vol(v) \in DOMAIN ds, Vol(v) \in DOMAIN ds', ds'[Vol(v)].size # ds[Vol(v)].size
      PROVE  \E q \in Requests : /\ Creates(q, v) \/ Expands(q, v)
                                 /\ Running(q) /\ pc[q] = "size" /\ DoesSetSize(q)
                                 /\ ds'[Vol(v)].size = call[q].size
  <2>1. PICK q \in Requests :
          DoesSetSize(q) /\ Vol(v) = Dest(call[q]) /\ ds'[Vol(v)].size = call[q].size
    BY <1>7, KeptDatasets
  <2>2. QED
    BY <1>6, <2>1
<1>8. QED
  BY <1>2, <1>3, <1>4, <1>5, <1>7, ShareSteps

\* What is asked for once stays asked for; what is kept till then stays.
LEMMA WantedStays ==
  ASSUME Types, [Next]_vars, NEW v \in Volumes, ~ VolumeUnwanted(v)'
  PROVE  /\ ~ VolumeUnwanted(v)
         /\ Vol(v) \in DOMAIN ds =>
              /\ Vol(v) \in DOMAIN ds'
              /\ ds[Vol(v)].context => ds'[Vol(v)].context
              /\ ds[Vol(v)].success => ds'[Vol(v)].success
         /\ Vol(v) \in shares => Vol(v) \in shares'
<1>1. call' = call /\ \A q \in Requests : Sent(q) => Sent(q)'
  BY ForwardIs DEF Forward
<1>2. ~ VolumeUnwanted(v)
  BY <1>1, CallsStay DEF VolumeUnwanted
<1>3. \A q \in Requests : ~ (Deletes(q, v) /\ Running(q))
  BY <1>2 DEF VolumeUnwanted, Running, Sent
<1>4. Vol(v) \in DOMAIN ds => Vol(v) \in DOMAIN ds'
  BY <1>3, VolumeSteps
<1>5. Vol(v) \in shares => Vol(v) \in shares'
  BY <1>3, VolumeSteps
<1>6. QED
  BY <1>2, <1>4, <1>5, KeptDatasets

\* Where CreateVolume goes, and what it has done then.
LEMMA CreationSteps ==
  ASSUME Types, [Next]_vars, NEW r \in Requests, NEW v \in Volumes, Creates(r, v),
         pc'[r] # pc[r], pc'[r] \in MadeSteps
  PROVE  LET d == Vol(v) IN
         \/ /\ pc[r] = "reply" /\ pc'[r] = "done" /\ Reply(r) /\ UNCHANGED pool
         \/ /\ pc[r] \in {"create", "clone", "receive"}
            /\ pc'[r] \in {"props", "strip", "untmp", "size"} /\ d \in DOMAIN ds'
         \/ pc[r] \in {"props", "strip", "untmp"} /\ pc'[r] \in {"strip", "untmp", "size"}
         \/ /\ pc[r] = "size" /\ pc'[r] = "share"
            /\ Sized => d \in DOMAIN ds' /\ ds'[d].size = call[r].size
         \/ pc[r] = "share" /\ pc'[r] = "context" /\ d \in shares' /\ UNCHANGED ds
         \/ pc[r] = "context" /\ pc'[r] = "success" /\ ds'[d].context /\ d \in DOMAIN ds
         \/ pc[r] = "success" /\ pc'[r] = "reply" /\ ds'[d].success /\ d \in DOMAIN ds
<1> DEFINE c == call[r]
           d == Vol(v)
<1>0. call \in Plans /\ c.method = "CreateVolume"
  BY DEF Types, Creates, Is
<1>1. /\ Dest(c) = d /\ c.method \in Methods /\ InItsPlace(r) /\ pc[r] \in Places
      /\ c.source[1] \in {"none", "volume", "snapshot", "detached"}
  BY <1>0, DestIs, CallsAre, SourcesAre DEF Types, SnapshotIds
<1>2. \A x \in DOMAIN ds : ds[x] \in Dataset
  BY DEF Types
<1>3. \/ Reply(r) /\ pc[r] = "reply" /\ pc'[r] = "done"
      \/ Works(r) /\ pc[r] # "reply" /\ Running(r) /\ pc'[r] = After(r, pc[r])
      \/ Works(r) /\ Running(r) /\ pc[r] = "receive" /\ pc'[r] = "strip"
  <2>1. First(c) = "check"
    BY <1>0 DEF First
  <2>2. QED
    BY <2>1, PlacesOfNext DEF MadeSteps
<1>4. CASE Reply(r)
  BY <1>3, <1>4, ReplyIs
<1>5. CASE Works(r) /\ pc[r] # "reply" /\ Running(r)
  <2>1. pc[r] \in {"check", "tmp", "create", "clone", "receive", "props", "strip", "untmp", "size",
                   "share", "context", "success"}
    BY <1>0, <1>1, <1>5 DEF InItsPlace, Places, StepNames, Running
  <2>2. pc[r] \notin {"check", "tmp"}
    <3>1. pc[r] = "check" => After(r, pc[r]) \in {"create", "tmp", "receive", "clone"}
      BY <1>0 DEF After
    <3>2. pc[r] = "tmp" => After(r, pc[r]) \in {"receive", "clone"}
      BY <1>0 DEF After
    <3>3. QED
      BY <1>3, <1>5, <3>1, <3>2 DEF MadeSteps
  <2>3. CASE pc[r] = "create"
    <3>1. DoesCreate(r) /\ pc'[r] = "size"
      BY <1>3, <1>5, <2>3, WorkIs, <1>0 DEF After
    <3>2. QED
      BY <1>1, <2>3, <3>1 DEF DoesCreate, Adds
  <2>4. CASE pc[r] = "clone"
    <3>1. DoesClone(r) /\ pc'[r] \in {"untmp", "size"}
      BY <1>3, <1>5, <2>4, WorkIs, <1>0 DEF After
    <3>2. QED
      BY <1>1, <2>4, <3>1 DEF DoesClone, Adds
  <2>5. CASE pc[r] = "receive"
    <3>1. DoesReceive(r) /\ pc'[r] \in {"props", "strip"}
      BY <1>3, <1>5, <2>5, WorkIs, <1>0 DEF After
    <3>2. QED
      BY <1>1, <2>5, <3>1 DEF DoesReceive, Adds
  <2>6. CASE pc[r] \in {"props", "strip", "untmp"}
    <3>1. pc'[r] \in {"strip", "untmp", "size"}
      <4>1. pc'[r] = After(r, pc[r])
        BY <1>3, <1>5, <2>6
      <4>2. QED
        BY <1>0, <2>6, <4>1 DEF After
    <3>2. QED
      BY <2>6, <3>1
  <2>7. CASE pc[r] = "size"
    <3>1. DoesSetSize(r) /\ pc'[r] = "share"
      BY <1>3, <1>5, <2>7, WorkIs, <1>0 DEF After
    <3>2. Sized => d \in DOMAIN ds /\ DOMAIN ds' = DOMAIN ds
                   /\ ds'[d] = [ds[d] EXCEPT !.size = c.size]
      BY <1>1, <3>1 DEF DoesSetSize, Changes
    <3>3. Sized => d \in DOMAIN ds' /\ ds'[d].size = c.size
      BY <1>2, <3>2 DEF Dataset
    <3>4. ~ Sized => ds' = ds
      BY <3>1 DEF DoesSetSize
    <3>5. QED
      BY <2>7, <3>1, <3>3, <3>4
  <2>8. CASE pc[r] = "share"
    <3>1. DoesCreateShare(r) /\ pc'[r] = "context"
      BY <1>3, <1>5, <2>8, WorkIs, <1>0 DEF After
    <3>2. QED
      BY <1>1, <2>8, <3>1 DEF DoesCreateShare
  <2>9. CASE pc[r] = "context"
    <3>1. DoesSetContext(r) /\ pc'[r] = "success"
      BY <1>3, <1>5, <2>9, WorkIs, <1>0 DEF After
    <3>2. d \in DOMAIN ds /\ ds'[d] = [ds[d] EXCEPT !.context = TRUE]
      BY <1>1, <3>1 DEF DoesSetContext, Changes
    <3>3. ds'[d].context
      BY <1>2, <3>2 DEF Dataset
    <3>4. QED
      BY <2>9, <3>1, <3>2, <3>3
  <2>10. CASE pc[r] = "success"
    <3>1. DoesSetSuccess(r) /\ pc'[r] = "reply"
      BY <1>3, <1>5, <2>10, WorkIs, <1>0 DEF After
    <3>2. d \in DOMAIN ds /\ ds'[d] = [ds[d] EXCEPT !.success = TRUE]
      BY <1>0, <1>1, <3>1 DEF DoesSetSuccess, Changes, Is
    <3>3. ds'[d].success
      BY <1>2, <3>2 DEF Dataset
    <3>4. QED
      BY <2>10, <3>1, <3>2, <3>3
  <2>11. QED
    BY <2>1, <2>2, <2>3, <2>4, <2>5, <2>6, <2>7, <2>8, <2>9, <2>10
<1>6. QED
  BY <1>3, <1>4, <1>5

\* Whether a size is set does not change.
LEMMA SizedStays ==
  ASSUME Types, [Next]_vars
  PROVE  Sized' <=> Sized
BY ForwardIs DEF Forward, Sized

\* A volume is given another size by a call that is alone to do so.
LEMMA SizesSet ==
  ASSUME Types, Control, [Next]_vars, NEW r \in Requests, NEW v \in Volumes,
         Vol(v) \in DOMAIN ds, Vol(v) \in DOMAIN ds',
         \/ Creates(r, v) /\ Running(r)
         \/ Expands(r, v) /\ Unfinished(r) /\ Sent(r),
         pc[r] # "size"
  PROVE  ds'[Vol(v)].size = ds[Vol(v)].size
<1> SUFFICES ASSUME ds'[Vol(v)].size # ds[Vol(v)].size PROVE FALSE
  OBVIOUS
<1>1. PICK q \in Requests : (Creates(q, v) \/ Expands(q, v)) /\ Running(q) /\ pc[q] = "size"
  BY VolumeSteps
<1>2. q # r /\ Sent(q) /\ Unfinished(q) /\ pc[q] # "done"
  BY <1>1 DEF Running, Sent, Unfinished
<1>3. CASE Creates(r, v) /\ Running(r)
  <2>1. ~ Creates(q, v)
    BY <1>1, <1>2, <1>3, Excluded DEF Control
  <2>2. ~ Expands(q, v)
    BY <1>2, <1>3 DEF Control, UnwantedIsSettled, Running
  <2>3. QED
    BY <1>1, <2>1, <2>2
<1>4. CASE Expands(r, v) /\ Unfinished(r) /\ Sent(r)
  BY <1>1, <1>2, <1>4 DEF Control, UnwantedIsSettled
<1>5. QED
  BY <1>3, <1>4

\* The size that CreateVolume goes on with is one that was promised, or more.
LEMMA CheckedSize ==
  ASSUME Types, Control, VolumesAreSound, NEW r \in Requests, NEW v \in Volumes, Creates(r, v),
         DoesCheckSize(r), Sized, v \in DOMAIN promised
  PROVE  call[r].size >= promised[v]
<1>1. call \in Plans /\ Running(r) /\ Sent(r) /\ Unfinished(r) /\ pc[r] # "done"
  BY DEF Types, DoesCheckSize, Goes, Running, Sent, Unfinished
<1>2. ~ VolumeUnwanted(v)
  BY <1>1 DEF Control, UnwantedIsSettled, VolumeUnwanted
<1>3. OwnsVolume(v)
  BY <1>2 DEF OwnsVolume, VolumeUnwanted, Deletes
<1>4. Vol(v) \in DOMAIN ds /\ ds[Vol(v)].size >= promised[v]
  BY <1>3, OwnedVolumesAreUsable DEF AckedVolumesAreUsable
<1>5. Dest(call[r]) = Vol(v)
  BY <1>1, DestIs
<1>6. ~ Conflict(call[r], ds[Vol(v)].size)
  BY <1>4, <1>5 DEF DoesCheckSize
<1>7. PICK q \in Requests : Creates(q, v) /\ pc[q] = "done"
  BY DEF Control, PromisesAreMade
<1>8. q # r
  BY <1>1, <1>7
<1>9. \A p \in Requests : ~ Expands(p, v)
  BY <1>1, <1>7, <1>8, CallsAreWellFormed
<1>10. PICK p \in Requests : Creates(p, v) /\ pc[p] = "done" /\ call[p].size = promised[v]
  BY <1>9 DEF Control, PromisesAreMade
<1>11. p # r
  BY <1>1, <1>10
<1>12. CASE call[p] = call[r]
  BY <1>1, <1>10, <1>12, CallsAre
<1>13. CASE call[r].limit > 0 /\ call[r].limit = call[r].size
  <2>1. call[r].size \in Nat /\ call[r].limit \in Nat /\ promised[v] \in Nat
        /\ ds[Vol(v)].size \in Nat
    BY <1>1, <1>4, CallsAre DEF Types, Dataset
  <2>2. QED
    BY <1>4, <1>6, <1>13, <2>1 DEF Conflict
<1>14. QED
  BY <1>1, <1>10, <1>11, <1>12, <1>13, CallsAreWellFormed

\* What is promised changes as a call that makes or expands a volume is answered.
LEMMA PromiseSteps ==
  ASSUME Types, [Next]_vars, NEW v \in DOMAIN promised'
  PROVE  \/ v \in DOMAIN promised /\ promised'[v] = promised[v]
         \/ \E q \in Requests :
              /\ Reply(q) /\ pc[q] = "reply" /\ pc'[q] = "done" /\ UNCHANGED pool
              /\ Creates(q, v) \/ Expands(q, v)
              /\ \/ promised'[v] = call[q].size
                 \/ v \in DOMAIN promised /\ promised'[v] = promised[v]
<1>1. CASE promised' = promised
  BY <1>1
<1>2. ASSUME NEW q \in Requests, Reply(q), promised' # promised
      PROVE  \/ v \in DOMAIN promised /\ promised'[v] = promised[v]
             \/ /\ pc[q] = "reply" /\ pc'[q] = "done" /\ UNCHANGED pool
                /\ Creates(q, v) \/ Expands(q, v)
                /\ \/ promised'[v] = call[q].size
                   \/ v \in DOMAIN promised /\ promised'[v] = promised[v]
  <2>1. /\ promised' = Promised(call[q]) /\ pc[q] = "reply" /\ UNCHANGED pool
        /\ pc' = [pc EXCEPT ![q] = "done"]
    BY <1>2, ReplyIs
  <2>2. call[q].method \in {"CreateVolume", "ControllerExpandVolume"}
    BY <1>2, <2>1 DEF Promised
  <2>3. promised' = [x \in DOMAIN promised \cup {VolumeId(call[q])} |->
            IF x # VolumeId(call[q]) THEN promised[x]
            ELSE IF x \in DOMAIN promised THEN Larger(promised[x], call[q].size)
                 ELSE call[q].size]
    BY <2>1, <2>2 DEF Promised
  <2>4. CASE v # VolumeId(call[q])
    BY <2>3, <2>4
  <2>5. CASE v = VolumeId(call[q])
    <3>1. Creates(q, v) \/ Expands(q, v)
      BY <2>2, <2>5 DEF Creates, Expands, Is, VolumeId
    <3>2. \/ promised'[v] = call[q].size
          \/ v \in DOMAIN promised /\ promised'[v] = promised[v]
      BY <2>3, <2>5 DEF Larger
    <3>3. pc'[q] = "done"
      BY <2>1 DEF Types
    <3>4. QED
      BY <2>1, <3>1, <3>2, <3>3
  <2>6. QED
    BY <2>4, <2>5
<1>3. QED
  BY <1>1, <1>2, OnwardIs, StartIs DEF Onward

\* What CreateVolume has done for a wanted volume is undone by no step of another call.
LEMMA CreationStands ==
  ASSUME Types, Control, VolumesAreSound, [Next]_vars,
         NEW r \in Requests, NEW v \in Volumes, Creates(r, v),
         pc'[r] \in MadeSteps, ~ VolumeUnwanted(v)'
  PROVE  LET d == Vol(v) IN
         /\ d \in DOMAIN ds'
         /\ pc'[r] \in {"context", "success", "reply", "done"} => d \in shares'
         /\ pc'[r] \in {"success", "reply", "done"} => ds'[d].context
         /\ pc'[r] \in {"reply", "done"} => ds'[d].success
         /\ pc'[r] \in {"share", "context", "success", "reply"} /\ Sized
              => ds'[d].size >= call[r].size
<1> DEFINE d == Vol(v)
<1>1. call[r].size \in Nat
  BY CallsAre DEF Types
<1>2. /\ ~ VolumeUnwanted(v)
      /\ d \in DOMAIN ds => d \in DOMAIN ds'
      /\ d \in DOMAIN ds /\ ds[d].context => ds'[d].context
      /\ d \in DOMAIN ds /\ ds[d].success => ds'[d].success
      /\ d \in shares => d \in shares'
  BY WantedStays
<1>3. pc[r] \in MadeSteps =>
        /\ d \in DOMAIN ds
        /\ pc[r] \in {"context", "success", "reply", "done"} => d \in shares
        /\ pc[r] \in {"success", "reply", "done"} => ds[d].context
        /\ pc[r] \in {"reply", "done"} => ds[d].success
        /\ pc[r] \in {"share", "context", "success", "reply"} /\ Sized => ds[d].size >= call[r].size
  BY <1>2 DEF VolumesAreSound, VolumeStands, Creates, Is
<1>4. d \in DOMAIN ds /\ d \in DOMAIN ds' /\ pc[r] \in {"share", "context", "success", "reply"}
        => ds'[d].size = ds[d].size
  BY SizesSet DEF Running
<1>5. CASE pc'[r] = pc[r]
  BY <1>2, <1>3, <1>4, <1>5
<1>6. CASE pc'[r] # pc[r]
  <2>1. \/ pc[r] = "reply" /\ pc'[r] = "done" /\ Reply(r) /\ UNCHANGED pool
        \/ /\ pc[r] \in {"create", "clone", "receive"}
           /\ pc'[r] \in {"props", "strip", "untmp", "size"} /\ d \in DOMAIN ds'
        \/ pc[r] \in {"props", "strip", "untmp"} /\ pc'[r] \in {"strip", "untmp", "size"}
        \/ /\ pc[r] = "size" /\ pc'[r] = "share"
           /\ Sized => d \in DOMAIN ds' /\ ds'[d].size = call[r].size
        \/ pc[r] = "share" /\ pc'[r] = "context" /\ d \in shares' /\ UNCHANGED ds
        \/ pc[r] = "context" /\ pc'[r] = "success" /\ ds'[d].context /\ d \in DOMAIN ds
        \/ pc[r] = "success" /\ pc'[r] = "reply" /\ ds'[d].success /\ d \in DOMAIN ds
    BY <1>6, CreationSteps
  <2>2. CASE pc[r] = "reply" /\ pc'[r] = "done"
    BY <1>2, <1>3, <2>2 DEF MadeSteps
  <2>3. CASE /\ pc[r] \in {"create", "clone", "receive"}
             /\ pc'[r] \in {"props", "strip", "untmp", "size"} /\ d \in DOMAIN ds'
    BY <2>3
  <2>4. CASE pc[r] \in {"props", "strip", "untmp"} /\ pc'[r] \in {"strip", "untmp", "size"}
    BY <1>2, <1>3, <2>4 DEF MadeSteps
  <2>5. CASE /\ pc[r] = "size" /\ pc'[r] = "share"
             /\ Sized => d \in DOMAIN ds' /\ ds'[d].size = call[r].size
    BY <1>1, <1>2, <1>3, <2>5 DEF MadeSteps
  <2>6. CASE pc[r] = "share" /\ pc'[r] = "context" /\ d \in shares' /\ UNCHANGED ds
    BY <1>2, <1>3, <2>6 DEF MadeSteps
  <2>7. CASE pc[r] = "context" /\ pc'[r] = "success" /\ ds'[d].context /\ d \in DOMAIN ds
    BY <1>2, <1>3, <1>4, <2>7 DEF MadeSteps
  <2>8. CASE pc[r] = "success" /\ pc'[r] = "reply" /\ ds'[d].success /\ d \in DOMAIN ds
    BY <1>2, <1>3, <1>4, <2>8 DEF MadeSteps
  <2>9. QED
    BY <2>1, <2>2, <2>3, <2>4, <2>5, <2>6, <2>7, <2>8
<1>7. QED
  BY <1>5, <1>6

\* A creation past its check asks for no less than what is promised by now: no other
\* call can have promised more meanwhile, the lock is held.
LEMMA CreationSizeStands ==
  ASSUME Types, Control, VolumesAreSound, [Next]_vars,
         NEW r \in Requests, NEW v \in Volumes, Creates(r, v),
         Running(r)', pc'[r] # "check", Sized, v \in DOMAIN promised'
  PROVE  call[r].size >= promised'[v]
<1>2. Running(r)
  <2>1. First(call[r]) = "check"
    BY DEF First, Creates, Is
  <2>2. QED
    BY <2>1, PlacesOfNext DEF Running
<1>3. pc[r] # "done" /\ Sent(r) /\ Unfinished(r)
  BY <1>2 DEF Running, Sent, Unfinished
<1>4. v \in DOMAIN promised /\ promised'[v] = promised[v]
  <2>1. SUFFICES ASSUME NEW q \in Requests, pc[q] = "reply", pc'[q] = "done",
                        Creates(q, v) \/ Expands(q, v)
                 PROVE  FALSE
    BY PromiseSteps
  <2>2. q # r /\ Running(q) /\ Sent(q)
    BY <2>1, <1>2 DEF Running, Sent
  <2>3. ~ Creates(q, v)
    BY <1>2, <2>2, Excluded DEF Control
  <2>4. ~ Expands(q, v)
    BY <1>3, <2>2 DEF Control, UnwantedIsSettled
  <2>5. QED
    BY <2>1, <2>3, <2>4
<1>5. CASE pc[r] # "check"
  BY <1>2, <1>4, <1>5 DEF VolumesAreSound, VolumeStands, Creates, Is
<1>6. CASE pc[r] = "check"
  <2>1. Works(r)
    BY <1>6, PlacesOfNext DEF Running
  <2>2. DoesCheckSize(r)
    BY <1>6, <2>1, WorkIs DEF DoesCheckName, Creates, Is
  <2>3. QED
    BY <1>4, <2>2, CheckedSize
<1>7. QED
  BY <1>5, <1>6

\* The two facts together.
LEMMA VolumeStandsStays ==
  ASSUME Types, Control, VolumesAreSound, [Next]_vars, NEW r \in Requests
  PROVE  VolumeStands(r)'
<1>1. call' = call /\ (Sized' <=> Sized)
  BY ForwardIs, SizedStays DEF Forward
<1>2. SUFFICES ASSUME call[r].method = "CreateVolume" PROVE VolumeStands(r)'
  BY <1>1 DEF VolumeStands
<1>3. PICK v \in Volumes : VolumeId(call[r]) = v /\ Creates(r, v)
  BY <1>2, CallsAre DEF Types, Creates, Is
<1>4. QED
  BY <1>1, <1>2, <1>3, CreationStands, CreationSizeStands DEF VolumeStands

\* An expansion still asks for no less than what was promised, and its size stands.
LEMMA VolumeExpandsStays ==
  ASSUME Types, Control, VolumesAreSound, [Next]_vars, NEW r \in Requests
  PROVE  VolumeExpands(r)'
<1>1. call' = call /\ (Sized' <=> Sized) /\ call \in Plans
  BY ForwardIs, SizedStays DEF Forward, Types
<1>2. SUFFICES ASSUME NEW v \in Volumes, Expands(r, v)
               PROVE  /\ Unfinished(r)' => call[r].size >= promised'[v]
                      /\ pc'[r] = "reply" /\ ~ VolumeUnwanted(v)' /\ Sized
                           => ds'[Vol(v)].size >= call[r].size
  <2>1. SUFFICES ASSUME call[r].method = "ControllerExpandVolume" PROVE VolumeExpands(r)'
    BY <1>1 DEF VolumeExpands
  <2>2. PICK v \in Volumes : call[r].volume = v /\ Expands(r, v)
    BY <1>1, <2>1, CallsAre DEF Expands, Is
  <2>3. /\ Unfinished(r)' => call[r].size >= promised'[v]
        /\ pc'[r] = "reply" /\ ~ VolumeUnwanted(v)' /\ Sized => ds'[Vol(v)].size >= call[r].size
    BY <1>2, <2>2
  <2>4. QED
    BY <1>1, <2>2, <2>3 DEF VolumeExpands
<1> DEFINE d == Vol(v)
<1>3. call[r].size \in Nat /\ call[r].method = "ControllerExpandVolume" /\ call[r].volume = v
  BY <1>1, <1>2, CallsAre DEF Expands, Is
<1>4. ASSUME Unfinished(r)' PROVE call[r].size >= promised'[v]
  <2>1. \/ Unfinished(r)
        \/ pc[r] = "idle" /\ Start(r)
    <3>1. Unfinished(r) \/ pc[r] = "idle" \/ pc[r] = "done"
      BY DEF Unfinished
    <3>2. pc[r] = "done" => pc'[r] = "done"
      BY ForwardIs DEF Forward
    <3>3. pc'[r] \notin {"idle", "done"}
      BY <1>4 DEF Unfinished
    <3>4. QED
      BY <3>1, <3>2, <3>3, PlacesOfNext DEF Running
  <2>2. v \in DOMAIN promised /\ call[r].size >= promised[v]
    <3>1. CASE Unfinished(r)
      <4>1. v \in DOMAIN promised
        BY <1>2, <1>3, <3>1 DEF Control, SourceWasMade, Unfinished, Sent
      <4>2. QED
        BY <1>2, <1>3, <3>1, <4>1 DEF VolumesAreSound, VolumeExpands
    <3>2. CASE pc[r] = "idle" /\ Start(r)
      BY <1>2, <1>3, <3>2, SendingIsAllowed DEF OwnsVolume, Is
    <3>3. QED
      BY <2>1, <3>1, <3>2
  <2>3. v \in DOMAIN promised'
    BY <2>2, ForwardIs DEF Forward
  <2>4. promised'[v] = promised[v]
    <3>1. SUFFICES ASSUME NEW q \in Requests, pc[q] = "reply", pc'[q] = "done", Reply(q),
                          Creates(q, v) \/ Expands(q, v)
                   PROVE  FALSE
      BY <2>3, PromiseSteps
    <3>2. q # r /\ Unfinished(q) /\ Sent(q) /\ pc[q] # "done"
      BY <3>1, <1>4 DEF Unfinished, Sent
    <3>3. CASE Unfinished(r)
      BY <1>2, <3>1, <3>2, <3>3 DEF Control, UnwantedIsSettled, Unfinished, Sent
    <3>4. CASE pc[r] = "idle" /\ Start(r)
      <4>1. pc'[q] = pc[q]
        BY <3>2, <3>4, StartIs DEF Types
      <4>2. QED
        BY <3>1, <4>1
    <3>5. QED
      BY <2>1, <3>3, <3>4
  <2>5. QED
    BY <2>2, <2>4
<1>5. ASSUME pc'[r] = "reply", ~ VolumeUnwanted(v)', Sized PROVE ds'[d].size >= call[r].size
  <2>1. ~ VolumeUnwanted(v) /\ (d \in DOMAIN ds => d \in DOMAIN ds')
    BY <1>5, WantedStays
  <2>2. First(call[r]) = "size" /\ InItsPlace(r)
    BY <1>3 DEF First, Types
  <2>3. \/ pc[r] = "reply"
        \/ Works(r) /\ Running(r) /\ pc[r] = "size"
    BY <1>2, <1>3, <1>5, <2>2, PlacesOfNext DEF InItsPlace, Places, StepNames, Running
  <2>4. Sent(r) /\ Unfinished(r)
    BY <2>3 DEF Sent, Unfinished
  <2>5. v \in DOMAIN promised
    BY <1>2, <1>3, <2>4 DEF Control, SourceWasMade
  <2>6. OwnsVolume(v)
    BY <2>1, <2>5 DEF OwnsVolume, VolumeUnwanted, Deletes
  <2>7. d \in DOMAIN ds
    BY <1>3, <2>6, OwnedVolumesAreUsable DEF AckedVolumesAreUsable
  <2>8. CASE pc[r] = "reply"
    <3>1. ds'[d].size = ds[d].size
      BY <1>2, <1>3, <2>1, <2>4, <2>7, <2>8, SizesSet
    <3>2. ds[d].size >= call[r].size
      BY <1>2, <1>3, <1>5, <2>1, <2>8 DEF VolumesAreSound, VolumeExpands
    <3>3. QED
      BY <3>1, <3>2
  <2>9. CASE Works(r) /\ pc[r] = "size"
    <3>1. DoesSetSize(r)
      BY <2>9, WorkIs
    <3>2. Dest(call[r]) = d
      BY <1>1, <1>3, DestIs
    <3>3. ds'[d] = [ds[d] EXCEPT !.size = call[r].size]
      BY <1>5, <3>1, <3>2 DEF DoesSetSize, Changes
    <3>4. ds[d] \in Dataset
      BY <2>7 DEF Types
    <3>5. QED
      BY <1>3, <3>3, <3>4 DEF Dataset
  <2>10. QED
    BY <2>3, <2>8, <2>9
<1>6. QED
  BY <1>4, <1>5

\* The size that was promised is not taken back, and no promise is made without it.
LEMMA SizesStayKept ==
  ASSUME Types, Control, VolumesAreSound, [Next]_vars
  PROVE  SizesAreKept'
<1> SUFFICES ASSUME NEW v \in DOMAIN promised', ~ VolumeUnwanted(v)', Sized
             PROVE  ds'[Vol(v)].size >= promised'[v]
  BY SizedStays DEF SizesAreKept
<1>1. v \in Volumes /\ call \in Plans
  BY PromisesStayMade DEF Control, Types
<1>2. ~ VolumeUnwanted(v) /\ (Vol(v) \in DOMAIN ds => Vol(v) \in DOMAIN ds')
  BY <1>1, WantedStays
<1>3. CASE v \in DOMAIN promised /\ promised'[v] = promised[v]
  <2>1. OwnsVolume(v)
    BY <1>2, <1>3 DEF OwnsVolume, VolumeUnwanted, Deletes
  <2>2. Vol(v) \in DOMAIN ds /\ ds[Vol(v)].size >= promised[v]
    BY <1>1, <2>1, OwnedVolumesAreUsable DEF AckedVolumesAreUsable
  <2>3. CASE ds'[Vol(v)].size = ds[Vol(v)].size
    BY <1>3, <2>2, <2>3
  <2>4. CASE ds'[Vol(v)].size # ds[Vol(v)].size
    <3>1. PICK q \in Requests : /\ Creates(q, v) \/ Expands(q, v)
                                /\ Running(q) /\ pc[q] = "size" /\ ds'[Vol(v)].size = call[q].size
      BY <1>1, <1>2, <2>2, <2>4, VolumeSteps
    <3>2. CASE Creates(q, v)
      <4>1. call[q].size >= promised[v]
        BY <1>3, <3>1, <3>2 DEF VolumesAreSound, VolumeStands, Creates, Is
      <4>2. QED
        BY <1>3, <3>1, <4>1
    <3>3. CASE Expands(q, v)
      <4>1. call[q].size >= promised[v]
        BY <3>1, <3>3 DEF VolumesAreSound, VolumeExpands, Expands, Is, Unfinished
      <4>2. QED
        BY <1>3, <3>1, <4>1
    <3>4. QED
      BY <3>1, <3>2, <3>3
  <2>5. QED
    BY <2>3, <2>4
<1>4. ASSUME NEW q \in Requests, pc[q] = "reply", UNCHANGED pool, Creates(q, v) \/ Expands(q, v),
             promised'[v] = call[q].size
      PROVE  ds'[Vol(v)].size >= promised'[v]
  <2>1. ds[Vol(v)].size >= call[q].size
    <3>1. CASE Creates(q, v)
      BY <1>2, <1>4, <3>1 DEF VolumesAreSound, VolumeStands, Creates, Is, MadeSteps
    <3>2. CASE Expands(q, v)
      BY <1>2, <1>4, <3>2 DEF VolumesAreSound, VolumeExpands, Expands, Is
    <3>3. QED
      BY <1>4, <3>1, <3>2
  <2>2. ds' = ds
    BY <1>4 DEF pool
  <2>3. QED
    BY <1>4, <2>1, <2>2
<1>5. QED
  BY <1>3, <1>4, PromiseSteps

\* A volume whose deletion is asked for is not made again.
LEMMA UnwantedIsNotMade ==
  ASSUME Types, Control, [Next]_vars, NEW r \in Requests, NEW v \in Volumes, Deletes(r, v),
         Sent(r)
  PROVE  /\ Vol(v) \in DOMAIN ds' => Vol(v) \in DOMAIN ds
         /\ Vol(v) \in shares' => Vol(v) \in shares
<1>1. \A q \in Requests : Creates(q, v) => ~ Running(q)
  BY DEF Control, UnwantedIsSettled, Running, Unfinished
<1>2. QED
  BY <1>1, VolumeSteps

\* And is destroyed by one request at a time.
LEMMA DeletionIsAlone ==
  ASSUME Types, Control, [Next]_vars, NEW r \in Requests, NEW v \in Volumes, Deletes(r, v),
         Running(r), Vol(v) \in DOMAIN ds, pc[r] # "destroy"
  PROVE  Vol(v) \in DOMAIN ds'
<1> SUFFICES ASSUME Vol(v) \notin DOMAIN ds' PROVE FALSE
  OBVIOUS
<1>1. PICK q \in Requests : Deletes(q, v) /\ Running(q) /\ DoesDestroyVolume(q)
  BY VolumeSteps
<1>2. q # r
  BY <1>1 DEF DoesDestroyVolume, Goes
<1>3. QED
  BY <1>1, <1>2, Excluded DEF Control

\* The origin that a request has read changes as it reads another.
LEMMA OriginsRead ==
  ASSUME Types, [Next]_vars, NEW r \in Requests, origin'[r] # origin[r]
  PROVE  DoesReadOrigin(r)
<1>1. ASSUME NEW q \in Requests, Works(q), ~ DoesReadOrigin(q)
      PROVE  origin' = origin
    BY <1>1 DEF Works, DoesCheckSize, DoesCreate, DoesTakeTemporary, DoesClone, DoesReceive,
       DoesSetProperties, DoesStripSnapshots, DoesDropTemporary, DoesSetSize, DoesCreateShare,
       DoesSetContext, DoesSetSuccess, DoesDeleteShare, DoesDeferOrigin,
       DoesCheckManaged, DoesDestroyVolume, DoesCheckName, DoesTakeSnapshot,
       DoesCreateContainer, DoesReleaseSnapshot, DoesDestroyDetached, DoesDestroyContainer
<1>2. ASSUME NEW q \in Requests, Start(q) \/ Reply(q) \/ Stalls(q) PROVE origin' = origin
  BY <1>2, StartIs, ReplyIs DEF Stalls
<1>3. ASSUME NEW q \in Requests, DoesReadOrigin(q) PROVE q = r
  BY <1>3 DEF DoesReadOrigin, Types
<1>4. QED
  BY <1>1, <1>2, <1>3, StepsOfNext DEF vars, Restart, Write

\* Where DeleteVolume goes, and what it has done then.
LEMMA DeletionSteps ==
  ASSUME Types, [Next]_vars, NEW r \in Requests, NEW v \in Volumes, Deletes(r, v),
         pc'[r] # pc[r], pc'[r] \notin {"pending", "read"}
  PROVE  \/ pc[r] = "read" /\ pc'[r] = "unshare" /\ DoesReadOrigin(r)
         \/ pc[r] = "unshare" /\ pc'[r] = "origin" /\ DoesDeleteShare(r)
         \/ pc[r] = "origin" /\ pc'[r] = "managed" /\ DoesDeferOrigin(r)
         \/ pc[r] = "managed" /\ pc'[r] = "destroy" /\ DoesCheckManaged(r)
         \/ pc[r] = "destroy" /\ pc'[r] = "reply" /\ DoesDestroyVolume(r)
         \/ pc[r] = "reply" /\ pc'[r] = "done"
<1>1. call[r].method = "DeleteVolume" /\ InItsPlace(r)
  BY DEF Deletes, Is, Types
<1>2. First(call[r]) = "read"
  BY <1>1 DEF First
<1>3. CASE Works(r) /\ Running(r) /\ pc[r] # "reply" /\ pc'[r] = After(r, pc[r])
  <2>1. pc[r] \in {"read", "unshare", "origin", "managed", "destroy"}
    BY <1>1, <1>3 DEF InItsPlace, Places, StepNames, Running
  <2>2. ~ DoesDestroyDetached(r)
    BY <1>1 DEF DoesDestroyDetached, Is
  <2>3. CASE pc[r] = "read"
    BY <1>1, <1>3, <2>3, WorkIs DEF After
  <2>4. CASE pc[r] = "unshare"
    BY <1>1, <1>3, <2>4, WorkIs DEF After
  <2>5. CASE pc[r] = "origin"
    BY <1>1, <1>3, <2>5, WorkIs DEF After
  <2>6. CASE pc[r] = "managed"
    BY <1>1, <1>3, <2>6, WorkIs DEF After
  <2>7. CASE pc[r] = "destroy"
    BY <1>1, <1>3, <2>2, <2>7, WorkIs DEF After
  <2>8. QED
    BY <2>1, <2>3, <2>4, <2>5, <2>6, <2>7
<1>4. pc[r] # "receive"
  BY <1>1 DEF InItsPlace
<1>5. QED
  BY <1>2, <1>3, <1>4, PlacesOfNext

\* What DeleteVolume has read and done stands, step by step.
LEMMA VolumeGoesStays ==
  ASSUME Types, Control, PoolIsSound, VolumesAreSound, [Next]_vars, NEW r \in Requests
  PROVE  VolumeGoes(r)'
<1>1. call' = call /\ call \in Plans
  BY ForwardIs DEF Forward, Types
<1>2. SUFFICES ASSUME NEW v \in Volumes, Deletes(r, v), Sent(r)
               PROVE  LET d == Vol(v) IN
      /\ pc'[r] \in {"origin", "managed", "destroy"} => d \notin shares'
      /\ pc'[r] \in {"unshare", "origin"} =>
            origin'[r] = IF d \in DOMAIN ds' THEN ds'[d].origin ELSE NoOrigin
      /\ pc'[r] \in {"managed", "destroy"} /\ d \in DOMAIN ds'
            => LET o == ds'[d].origin IN
               o # NoOrigin /\ o[2][1] = "for-volume" => snap'[o].defer
      /\ pc'[r] = "destroy" => \A k \in DOMAIN snap' : k[1] = d => ~ snap'[k].managed
      /\ pc'[r] \in {"reply", "done"} => d \notin DOMAIN ds'
  <2>1. SUFFICES ASSUME call[r].method = "DeleteVolume" PROVE VolumeGoes(r)'
    BY <1>1 DEF VolumeGoes
  <2>2. PICK v \in Volumes : call[r].volume = v /\ Deletes(r, v)
    BY <1>1, <2>1, CallsAre DEF Deletes, Is
  <2>3. CASE Sent(r)
    BY <1>1, <1>2, <2>1, <2>2, <2>3 DEF VolumeGoes, SnapsOf
  <2>4. CASE ~ Sent(r)
    <3>1. First(call[r]) = "read"
      BY <2>1 DEF First
    <3>2. pc'[r] \in {"idle", "read"}
      BY <2>4, <3>1, PlacesOfNext DEF Sent, Running
    <3>3. QED
      BY <1>1, <3>2 DEF VolumeGoes
  <2>5. QED
    BY <2>3, <2>4
<1> DEFINE d == Vol(v)
<1>3. call[r].method = "DeleteVolume" /\ call[r].volume = v /\ Dest(call[r]) = d
  BY <1>1, <1>2, DestIs DEF Deletes, Is
<1>4. /\ pc[r] \in {"origin", "managed", "destroy"} => d \notin shares
      /\ pc[r] \in {"unshare", "origin"} =>
            origin[r] = IF d \in DOMAIN ds THEN ds[d].origin ELSE NoOrigin
      /\ pc[r] \in {"managed", "destroy"} /\ d \in DOMAIN ds
            => LET o == ds[d].origin IN
               o # NoOrigin /\ o[2][1] = "for-volume" => snap[o].defer
      /\ pc[r] = "destroy" => \A k \in DOMAIN snap : k[1] = d => ~ snap[k].managed
      /\ pc[r] \in {"reply", "done"} => d \notin DOMAIN ds
  BY <1>3 DEF VolumesAreSound, VolumeGoes, SnapsOf
<1>5. /\ d \in DOMAIN ds' => d \in DOMAIN ds
      /\ d \in shares' => d \in shares
  BY <1>2, UnwantedIsNotMade
<1>6. shares \subseteq DOMAIN ds
  BY DEF PoolIsSound
<1>7. pc'[r] # pc[r] /\ pc'[r] \notin {"pending", "read"} =>
         \/ pc[r] = "read" /\ pc'[r] = "unshare" /\ DoesReadOrigin(r)
         \/ pc[r] = "unshare" /\ pc'[r] = "origin" /\ DoesDeleteShare(r)
         \/ pc[r] = "origin" /\ pc'[r] = "managed" /\ DoesDeferOrigin(r)
         \/ pc[r] = "managed" /\ pc'[r] = "destroy" /\ DoesCheckManaged(r)
         \/ pc[r] = "destroy" /\ pc'[r] = "reply" /\ DoesDestroyVolume(r)
         \/ pc[r] = "reply" /\ pc'[r] = "done"
  BY <1>2, DeletionSteps
<1>8. ASSUME pc'[r] \in {"origin", "managed", "destroy"} PROVE d \notin shares'
  <2>1. CASE pc'[r] = pc[r] \/ pc[r] \in {"origin", "managed"}
    BY <1>4, <1>5, <1>8, <2>1
  <2>2. CASE pc[r] = "unshare" /\ DoesDeleteShare(r)
    BY <1>3, <1>6, <2>2 DEF DoesDeleteShare
  <2>3. QED
    BY <1>7, <1>8, <2>1, <2>2
<1>9. ASSUME pc'[r] \in {"unshare", "origin"}
      PROVE  origin'[r] = IF d \in DOMAIN ds' THEN ds'[d].origin ELSE NoOrigin
  <2>1. CASE pc[r] = "read" /\ DoesReadOrigin(r)
    BY <1>3, <2>1 DEF DoesReadOrigin, pool, Types
  <2>2. CASE pc[r] \in {"unshare", "origin"}
    <3>1. origin'[r] = origin[r]
      BY <2>2, OriginsRead DEF DoesReadOrigin, Goes
    <3>2. d \in DOMAIN ds => d \in DOMAIN ds'
      BY <1>2, <2>2, DeletionIsAlone DEF Running
    <3>3. d \in DOMAIN ds /\ d \in DOMAIN ds' => ds'[d].origin = ds[d].origin
      BY KeptDatasets
    <3>4. QED
      BY <1>4, <1>5, <2>2, <3>1, <3>2, <3>3
  <2>3. QED
    BY <1>7, <1>9, <2>1, <2>2
<1>10. ASSUME pc'[r] \in {"managed", "destroy"}, d \in DOMAIN ds',
              ds'[d].origin # NoOrigin, ds'[d].origin[2][1] = "for-volume"
       PROVE  snap'[ds'[d].origin].defer
  <2>1. PICK o : o = ds[d].origin /\ o = ds'[d].origin
    BY <1>5, <1>10, KeptDatasets
  <2>2. o # NoOrigin /\ o[2][1] = "for-volume" /\ o \in DOMAIN snap /\ d \in Clones(o)
    BY <1>5, <1>10, <2>1 DEF PoolIsSound, Clones
  <2>3. o \in DOMAIN snap'
    BY <1>10, <2>2, ClonedSnapshotsStay
  <2>4. CASE pc[r] \in {"managed", "destroy"}
    <3>1. snap[o].defer
      BY <1>4, <1>5, <1>10, <2>1, <2>2, <2>4
    <3>2. QED
      BY <2>1, <2>2, <2>3, <3>1, KeptSnapshots
  <2>5. CASE pc[r] = "origin" /\ DoesDeferOrigin(r)
    <3>1. origin[r] = o
      BY <1>4, <1>5, <1>10, <2>1, <2>5
    <3>2. Releases(o)
      BY <2>2, <2>5, <3>1 DEF DoesDeferOrigin
    <3>3. snap'[o] = [snap[o] EXCEPT !.defer = TRUE] /\ snap[o] \in Snapshotted
      BY <2>2, <3>2 DEF Releases, Marks, Types
    <3>4. snap'[o].defer
      BY <3>3 DEF Snapshotted
    <3>5. QED
      BY <2>1, <3>4
  <2>6. QED
    BY <1>7, <1>10, <2>4, <2>5
<1>11. ASSUME pc'[r] = "destroy", NEW k \in DOMAIN snap', k[1] = d PROVE ~ snap'[k].managed
  <2>1. CASE pc[r] = "managed" /\ DoesCheckManaged(r)
    BY <1>3, <1>11, <2>1 DEF DoesCheckManaged, pool, SnapsOf
  <2>2. CASE pc[r] = "destroy"
    <3>1. CASE k \in DOMAIN snap
      <4>1. snap'[k].managed = snap[k].managed
        BY <1>11, <3>1, KeptSnapshots
      <4>2. QED
        BY <1>4, <1>11, <2>2, <3>1, <4>1
    <3>2. CASE k \notin DOMAIN snap
      <4>1. PICK q \in Requests :
           \/ /\ snap'[k] = [content |-> ds[k[1]].content, size |-> ds[k[1]].size,
                             managed |-> FALSE, defer |-> FALSE]
           \/ DoesTakeSnapshot(q) /\ k = SnapOf(IdOf(call[q]))
           \/ /\ DoesReceive(q)
              /\ snap'[k] = [snap[CopyFrom(call[q])] EXCEPT !.managed = FALSE, !.defer = FALSE]
        BY <1>11, <3>2, NewSnapshots
      <4>2. CASE DoesTakeSnapshot(q) /\ k = SnapOf(IdOf(call[q]))
        <5>1. Running(q) /\ Is(q, "CreateSnapshot") /\ call[q].method = "CreateSnapshot"
          BY <4>2 DEF DoesTakeSnapshot, Goes, Is
        <5>2. SnapOf(IdOf(call[q])) = <<Vol(call[q].volume), <<"csi", call[q].name>>>>
          BY <1>1, <5>1, DestIs
        <5>3. call[q].volume = v
          BY <1>11, <4>2, <5>2, NamesDiffer
        <5>4. q # r /\ Running(r)
          BY <1>3, <2>2, <5>1 DEF Running
        <5>5. QED
          BY <1>2, <5>1, <5>3, <5>4, Excluded DEF Control
      <4>3. CASE DoesReceive(q)
                 /\ snap'[k] = [snap[CopyFrom(call[q])] EXCEPT !.managed = FALSE, !.defer = FALSE]
        <5>1. snap[CopyFrom(call[q])] \in Snapshotted
          BY <4>3 DEF DoesReceive, Types
        <5>2. QED
          BY <4>3, <5>1 DEF Snapshotted
      <4>4. CASE snap'[k] = [content |-> ds[k[1]].content, size |-> ds[k[1]].size,
                             managed |-> FALSE, defer |-> FALSE]
        BY <4>4
      <4>5. QED
        BY <4>1, <4>2, <4>3, <4>4
    <3>3. QED
      BY <3>1, <3>2
  <2>3. QED
    BY <1>7, <1>11, <2>1, <2>2
<1>12. ASSUME pc'[r] \in {"reply", "done"} PROVE d \notin DOMAIN ds'
  <2>1. CASE pc[r] \in {"reply", "done"}
    BY <1>4, <1>5, <2>1
  <2>2. CASE pc[r] = "destroy" /\ DoesDestroyVolume(r)
    BY <1>3, <2>2 DEF DoesDestroyVolume, Removes
  <2>3. QED
    BY <1>7, <1>12, <2>1, <2>2
<1>13. QED
  BY <1>8, <1>9, <1>10, <1>11, <1>12

\* All that is said of volumes is kept by every step.
LEMMA VolumesStay ==
  ASSUME Types, Control, PoolIsSound, VolumesAreSound, [Next]_vars
  PROVE  VolumesAreSound'
BY VolumeStandsStays, VolumeExpandsStays, VolumeGoesStays, SizesStayKept DEF VolumesAreSound

----------------------------------------------------------------------------
(* Snapshots.                                                              *)

\* What a snapshot's id says.
LEMMA IdsAre ==
  ASSUME NEW sid \in SnapshotIds
  PROVE  \E v \in Volumes, s \in SnapshotNames :
           /\ sid[2] = v /\ sid[3] = s
           /\ \/ sid = <<"snapshot", v, s>> /\ sid[1] = "snapshot"
              \/ sid = <<"detached", v, s>> /\ sid[1] = "detached"
BY DEF SnapshotIds

\* Which calls take the snapshot s of v, by their fields.
LEMMA TakesIs ==
  ASSUME call \in Plans, NEW r \in Requests, NEW v \in Volumes, NEW s \in SnapshotNames
  PROVE  LET c == call[r] IN
         /\ Takes(r, <<"snapshot", v, s>>) <=>
              Is(r, "CreateSnapshot") /\ ~ c.detached /\ c.volume = v /\ c.name = s
         /\ Takes(r, <<"detached", v, s>>) <=>
              Is(r, "CreateSnapshot") /\ c.detached /\ c.volume = v /\ c.name = s
         /\ Is(r, "CreateSnapshot") /\ c.volume = v /\ c.name = s =>
              /\ SnapOf(IdOf(c)) = <<Vol(v), <<"csi", s>>>>
              /\ Dest(c) = Det(v, s) /\ From(c) = Vol(v) /\ Tag(c) = <<"for-snapshot", s>>
              /\ CopyFrom(c) = <<Vol(v), <<"for-snapshot", s>>>>
<1>1. IdOf(call[r]) = <<IF call[r].detached THEN "detached" ELSE "snapshot",
                        call[r].volume, call[r].name>>
  BY DEF IdOf
<1>2. Is(r, "CreateSnapshot") =>
        /\ SnapOf(IdOf(call[r])) = <<Vol(call[r].volume), <<"csi", call[r].name>>>>
        /\ Dest(call[r]) = Det(call[r].volume, call[r].name) /\ From(call[r]) = Vol(call[r].volume)
        /\ Tag(call[r]) = <<"for-snapshot", call[r].name>>
  BY DestIs DEF Is
<1>3. call[r].detached \in BOOLEAN
  BY CallsAre
<1>4. QED
  BY <1>1, <1>2, <1>3 DEF Takes, CopyFrom

\* The same for a call that is known to be of v and s.
LEMMA TakesOf ==
  ASSUME call \in Plans, NEW r \in Requests, NEW v \in Volumes, NEW s \in SnapshotNames,
         Is(r, "CreateSnapshot"), call[r].volume = v, call[r].name = s
  PROVE  /\ call[r].detached => Takes(r, <<"detached", v, s>>)
         /\ ~ call[r].detached => Takes(r, <<"snapshot", v, s>>)
         /\ From(call[r]) = Vol(v) /\ SnapOf(IdOf(call[r])) = <<Vol(v), <<"csi", s>>>>
<1>1. From(call[r]) = Vol(v) /\ SnapOf(IdOf(call[r])) = <<Vol(v), <<"csi", s>>>>
  BY DestIs DEF Is, IdOf, SnapOf
<1>2. call[r].detached => Takes(r, <<"detached", v, s>>)
  BY DEF Takes, IdOf
<1>3. ~ call[r].detached => Takes(r, <<"snapshot", v, s>>)
  BY DEF Takes, IdOf
<1>4. QED
  BY <1>1, <1>2, <1>3

\* Which snapshot a DeleteSnapshot drops, by the dataset or the snapshot it destroys.
LEMMA DropsIs ==
  ASSUME call \in Plans, NEW r \in Requests, NEW v \in Volumes, NEW s \in SnapshotNames,
         Is(r, "DeleteSnapshot")
  PROVE  LET c == call[r] IN
         /\ c.source[1] = "snapshot" /\ SnapOf(c.source) = <<Vol(v), <<"csi", s>>>>
              => Drops(r, <<"snapshot", v, s>>)
         /\ c.source[1] = "detached" /\ Dest(c) = Det(v, s) => Drops(r, <<"detached", v, s>>)
         /\ Drops(r, <<"snapshot", v, s>>) => SnapOf(c.source) = <<Vol(v), <<"csi", s>>>>
         /\ Drops(r, <<"detached", v, s>>) => Dest(c) = Det(v, s)
<1>1. call[r].source \in SnapshotIds /\ Dest(call[r]) = Det(call[r].source[2], call[r].source[3])
  BY CallsAre, DestIs DEF Is
<1>2. PICK u \in Volumes, t \in SnapshotNames :
        /\ call[r].source[2] = u /\ call[r].source[3] = t
        /\ \/ call[r].source = <<"snapshot", u, t>> /\ call[r].source[1] = "snapshot"
           \/ call[r].source = <<"detached", u, t>> /\ call[r].source[1] = "detached"
  BY <1>1, IdsAre
<1>3. SnapOf(call[r].source) = <<Vol(u), <<"csi", t>>>>
  BY <1>2 DEF SnapOf
<1>4. /\ \A w : Vol(u) = Vol(w) => u = w
      /\ \A w, x : Det(u, t) = Det(w, x) => u = w /\ t = x
  BY NamesDiffer
<1>5. QED
  BY <1>1, <1>2, <1>3, <1>4 DEF Drops

\* The tags of temporary snapshots.
LEMMA TagsAre ==
  ASSUME Types, NEW r \in Requests
  PROVE  /\ pc[r] \in {"tmp", "untmp"} => CopyFrom(call[r])[2][1] # "csi"
         /\ pc[r] = "receive" =>
              \/ Is(r, "CreateSnapshot") /\ Tag(call[r])[1] = "for-snapshot"
              \/ \E v \in Volumes :
                   /\ Creates(r, v) /\ Received(call[r]) /\ Dest(call[r]) = Vol(v)
                   /\ Tag(call[r])[1] = "csi" => call[r].source[1] = "snapshot"
<1>1. call \in Plans /\ InItsPlace(r) /\ CopyFrom(call[r])[2] = Tag(call[r])
  BY DEF Types, CopyFrom
<1>2. Is(r, "CreateSnapshot") => Tag(call[r])[1] = "for-snapshot"
  <2>1. Is(r, "CreateSnapshot") => Tag(call[r]) = <<"for-snapshot", call[r].name>>
    BY <1>1, DestIs DEF Is
  <2>2. QED
    BY <2>1
<1>3. Is(r, "CreateVolume") =>
        Tag(call[r])[1] = IF call[r].source[1] = "snapshot" THEN "csi" ELSE "for-volume"
  <2>1. Is(r, "CreateVolume") =>
          Tag(call[r]) = IF call[r].source[1] = "snapshot" THEN <<"csi", call[r].source[3]>>
                         ELSE <<"for-volume", VolumeId(call[r])>>
    BY <1>1, DestIs DEF Is
  <2>2. QED
    BY <2>1
<1>4. pc[r] \in {"tmp", "untmp"} => CopyFrom(call[r])[2][1] # "csi"
  BY <1>1, <1>2, <1>3 DEF InItsPlace, Is
<1>5. ASSUME pc[r] = "receive", Is(r, "CreateVolume")
      PROVE  \E v \in Volumes :
                   /\ Creates(r, v) /\ Received(call[r]) /\ Dest(call[r]) = Vol(v)
                   /\ Tag(call[r])[1] = "csi" => call[r].source[1] = "snapshot"
  <2>1. VolumeId(call[r]) \in Volumes /\ Dest(call[r]) = Vol(VolumeId(call[r]))
    BY <1>1, <1>5, CallsAre, DestIsNamed
  <2>2. Creates(r, VolumeId(call[r])) /\ Received(call[r])
    BY <1>1, <1>5 DEF Creates, Received, InItsPlace, Is
  <2>3. QED
    BY <1>3, <1>5, <2>1, <2>2
<1>6. pc[r] = "receive" => Is(r, "CreateVolume") \/ Is(r, "CreateSnapshot")
  BY CopyIsNamed
<1>7. QED
  BY <1>2, <1>4, <1>5, <1>6

\* A volume that is received has no snapshot that was asked for till it is.
LEMMA ReceivedIsUntouched ==
  ASSUME Types, Control, NEW q \in Requests, NEW r \in Requests, NEW v \in Volumes,
         Creates(q, v), Received(call[q]), pc[q] # "done",
         Is(r, "CreateSnapshot"), call[r].volume = v, Sent(r)
  PROVE  FALSE
<1>1. v \in DOMAIN promised
  BY DEF Control, SourceWasMade, Is
<1>2. PICK p \in Requests : Creates(p, v) /\ pc[p] = "done"
  BY <1>1 DEF Control, PromisesAreMade
<1>3. QED
  BY <1>2, CallsAreWellFormed DEF Types

\* Who destroys, and who marks, a snapshot that was asked for.
LEMMA AttachedSteps ==
  ASSUME Types, Control, VolumesAreSound, SnapshotsAreSound, [Next]_vars,
         NEW v \in Volumes, NEW s \in SnapshotNames
  PROVE  LET k == <<Vol(v), <<"csi", s>>>> IN
         /\ k \in DOMAIN snap => \A r \in Requests :
                                   Frees(r, k) => Drops(r, <<"snapshot", v, s>>) /\ Sent(r)
         /\ k \in DOMAIN snap \ DOMAIN snap' =>
              \/ SnapshotUnwanted(<<"snapshot", v, s>>)
              \/ ~ snap[k].managed
              \/ \E q \in Requests : Creates(q, v) /\ Received(call[q]) /\ pc[q] = "strip"
<1> DEFINE k == <<Vol(v), <<"csi", s>>>>
<1>1. call \in Plans /\ k[1] = Vol(v) /\ k[2] = <<"csi", s>> /\ k[2][1] = "csi"
  BY DEF Types
<1>2. ASSUME NEW r \in Requests, Frees(r, k), k \in DOMAIN snap
      PROVE  Drops(r, <<"snapshot", v, s>>) /\ Sent(r)
  <2>1. ~ (Is(r, "CreateSnapshot") /\ k = <<Dest(call[r]), Tag(call[r])>>)
    <3>1. Is(r, "CreateSnapshot") => Dest(call[r]) = Det(call[r].volume, call[r].name)
      BY <1>1, DestIs DEF Is
    <3>2. QED
      BY <3>1, NamesDiffer
  <2>2. ~ (DoesDropTemporary(r) /\ k = CopyFrom(call[r]))
    <3>1. DoesDropTemporary(r) => pc[r] = "untmp"
      BY DEF DoesDropTemporary, Goes
    <3>2. QED
      BY <1>1, <3>1, TagsAre
  <2>3. DoesReleaseSnapshot(r) /\ k = SnapOf(call[r].source)
    BY <1>1, <1>2, <2>1, <2>2 DEF Frees
  <2>4. Is(r, "DeleteSnapshot") /\ call[r].source[1] = "snapshot" /\ Running(r)
    BY <2>3 DEF DoesReleaseSnapshot, Goes
  <2>5. Sent(r)
    BY <2>4 DEF Running, Sent
  <2>6. QED
    BY <1>1, <2>3, <2>4, <2>5, DropsIs
<1>3. ASSUME k \in DOMAIN snap, k \notin DOMAIN snap'
      PROVE  \/ SnapshotUnwanted(<<"snapshot", v, s>>)
             \/ ~ snap[k].managed
             \/ \E q \in Requests : Creates(q, v) /\ Received(call[q]) /\ pc[q] = "strip"
  <2>1. PICK r \in Requests :
           \/ Frees(r, k)
           \/ /\ DoesStripSnapshots(r) /\ Is(r, "CreateVolume") /\ k[1] = Dest(call[r])
           \/ /\ DoesDestroyVolume(r) \/ DoesDestroyDetached(r)
              /\ k[1] = Dest(call[r]) \/ snap[k].defer
    BY <1>3, LostSnapshots
  <2>2. CASE Frees(r, k)
    BY <1>2, <1>3, <2>2 DEF SnapshotUnwanted
  <2>3. CASE DoesStripSnapshots(r) /\ Is(r, "CreateVolume") /\ k[1] = Dest(call[r])
    <3>1. Creates(r, v)
      BY <1>1, <2>3, WhoseVolume DEF Deletes, Expands, Is
    <3>2. Received(call[r]) /\ pc[r] = "strip"
      BY <2>3 DEF DoesStripSnapshots, Goes, Received, Is
    <3>3. QED
      BY <3>1, <3>2
  <2>4. CASE snap[k].defer
    <3>1. CsiSnapshot(v, s)
      BY DEF SnapshotsAreSound
    <3>2. QED
      BY <1>3, <2>4, <3>1 DEF CsiSnapshot
  <2>5. CASE (DoesDestroyVolume(r) \/ DoesDestroyDetached(r)) /\ k[1] = Dest(call[r])
    <3>1. DoesDestroyVolume(r) /\ Deletes(r, v)
      BY <1>1, <2>5, WhoseVolume DEF DoesDestroyVolume, DoesDestroyDetached, Creates, Deletes,
         Expands, Is
    <3>2. /\ VolumeGoes(r) /\ pc[r] = "destroy"
          /\ call[r].method = "DeleteVolume" /\ call[r].volume = v
      BY <3>1 DEF VolumesAreSound, DoesDestroyVolume, Goes, Deletes, Is
    <3>3. ~ snap[k].managed
      BY <1>1, <1>3, <3>2 DEF VolumeGoes, SnapsOf
    <3>4. QED
      BY <3>3
  <2>6. QED
    BY <2>1, <2>2, <2>3, <2>4, <2>5
<1>4. QED
  BY <1>2, <1>3

\* What was asked for exists.
LEMMA OwnedSnapshotsAreKept ==
  ASSUME Types, Control, SnapshotsAreSound
  PROVE  AckedSnapshotsAreKept
<1> SUFFICES ASSUME NEW sid \in SnapshotIds, OwnsSnapshot(sid)
             PROVE  /\ Exists(sid) /\ DataOf(sid) = captured[sid]
                    /\ sid[1] = "snapshot" => ~ snap[SnapOf(sid)].defer
  BY DEF AckedSnapshotsAreKept
<1>1. sid \in DOMAIN captured /\ ~ SnapshotUnwanted(sid) /\ call \in Plans
  BY DEF OwnsSnapshot, SnapshotUnwanted, Drops, Types
<1>2. PICK r \in Requests : Takes(r, sid) /\ pc[r] = "done"
  BY <1>1 DEF Control, PromisesAreMade
<1>3. PICK v \in Volumes, s \in SnapshotNames :
           /\ sid[2] = v /\ sid[3] = s
           /\ \/ sid = <<"snapshot", v, s>> /\ sid[1] = "snapshot"
              \/ sid = <<"detached", v, s>> /\ sid[1] = "detached"
  BY IdsAre
<1>4. SnapshotStands(r) /\ CsiSnapshot(v, s) /\ CaptureIsKept
  BY DEF SnapshotsAreSound
<1>5. CASE sid = <<"snapshot", v, s>> /\ sid[1] = "snapshot"
  <2>1. /\ call[r].method = "CreateSnapshot" /\ ~ call[r].detached
        /\ SnapOf(IdOf(call[r])) = <<Vol(v), <<"csi", s>>>> /\ IdOf(call[r]) = sid
    BY <1>1, <1>2, <1>5, TakesIs DEF Is, Takes
  <2>2. SnapOf(sid) \in DOMAIN snap
    BY <1>1, <1>2, <1>4, <2>1 DEF SnapshotStands
  <2>3. ~ snap[SnapOf(sid)].defer
    BY <1>1, <1>4, <1>5, <2>1, <2>2 DEF CsiSnapshot
  <2>4. QED
    BY <1>1, <1>4, <1>5, <2>2, <2>3 DEF Exists, CaptureIsKept
<1>6. CASE sid = <<"detached", v, s>> /\ sid[1] = "detached"
  <2>1. /\ call[r].method = "CreateSnapshot" /\ call[r].detached /\ IdOf(call[r]) = sid
        /\ call[r].volume = v /\ call[r].name = s
    BY <1>1, <1>2, <1>6, TakesIs DEF Is, Takes
  <2>2. Det(sid[2], sid[3]) \in DOMAIN ds
    BY <1>1, <1>2, <1>3, <1>4, <2>1 DEF SnapshotStands
  <2>3. QED
    BY <1>1, <1>4, <1>6, <2>2 DEF Exists, CaptureIsKept
<1>7. QED
  BY <1>3, <1>5, <1>6

\* An attached snapshot that is new.
LEMMA NewAttached ==
  ASSUME Types, [Next]_vars, NEW k \in DOMAIN snap', k \notin DOMAIN snap, k[2][1] = "csi"
  PROVE  \E r \in Requests, v \in Volumes, s \in SnapshotNames :
           /\ k = <<Vol(v), <<"csi", s>>>> /\ ~ snap'[k].defer /\ Running(r)
           /\ \/ /\ DoesTakeSnapshot(r) /\ Takes(r, <<"snapshot", v, s>>) /\ From(call[r]) = Vol(v)
                 /\ From(call[r]) \in DOMAIN ds
                 /\ snap'[k].managed /\ snap'[k].content = ds[Vol(v)].content
              \/ /\ Creates(r, v) /\ Received(call[r]) /\ call[r].source[1] = "snapshot"
                 /\ pc[r] = "receive" /\ pc'[r] \in {"props", "strip"} /\ ~ snap'[k].managed
<1>1. call \in Plans /\ k \in SnapNames
  BY SnapshotsStayTyped DEF Types
<1>2. PICK r \in Requests :
           \/ DoesTakeTemporary(r) /\ k = CopyFrom(call[r])
           \/ /\ DoesTakeSnapshot(r) /\ k = SnapOf(IdOf(call[r])) /\ From(call[r]) \in DOMAIN ds
              /\ snap'[k] = [content |-> ds[k[1]].content, size |-> ds[k[1]].size,
                             managed |-> TRUE, defer |-> FALSE]
           \/ /\ DoesReceive(r) /\ k = <<Dest(call[r]), Tag(call[r])>>
              /\ snap'[k] = [snap[CopyFrom(call[r])] EXCEPT !.managed = FALSE, !.defer = FALSE]
  BY NewSnapshots
<1>3. CASE DoesTakeTemporary(r) /\ k = CopyFrom(call[r])
  BY <1>3, TagsAre DEF DoesTakeTemporary, Goes
<1>4. CASE /\ DoesTakeSnapshot(r) /\ k = SnapOf(IdOf(call[r])) /\ From(call[r]) \in DOMAIN ds
           /\ snap'[k] = [content |-> ds[k[1]].content, size |-> ds[k[1]].size,
                          managed |-> TRUE, defer |-> FALSE]
  <2>1. Is(r, "CreateSnapshot") /\ ~ call[r].detached /\ Running(r)
    BY <1>4 DEF DoesTakeSnapshot, Goes
  <2>2. PICK v \in Volumes, s \in SnapshotNames : call[r].volume = v /\ call[r].name = s
    BY <1>1, <2>1, CallsAre DEF Is
  <2>3. /\ Takes(r, <<"snapshot", v, s>>) /\ From(call[r]) = Vol(v)
        /\ SnapOf(IdOf(call[r])) = <<Vol(v), <<"csi", s>>>>
    BY <1>1, <2>1, <2>2, TakesOf
  <2>4. snap'[k].managed /\ ~ snap'[k].defer /\ snap'[k].content = ds[k[1]].content
    BY <1>4
  <2>5. k = <<Vol(v), <<"csi", s>>>>
    BY <1>4, <2>3
  <2>6. k[1] = Vol(v)
    BY <2>5
  <2>7. QED
    BY <1>4, <2>1, <2>3, <2>4, <2>5, <2>6
<1>5. CASE /\ DoesReceive(r) /\ k = <<Dest(call[r]), Tag(call[r])>>
           /\ snap'[k] = [snap[CopyFrom(call[r])] EXCEPT !.managed = FALSE, !.defer = FALSE]
  <2>1. pc[r] = "receive" /\ Running(r) /\ snap[CopyFrom(call[r])] \in Snapshotted
        /\ k[2] = Tag(call[r]) /\ k[1] = Dest(call[r])
    BY <1>5 DEF DoesReceive, Types
  <2>2. Tag(call[r])[1] = "csi"
    BY <2>1
  <2>3. PICK v \in Volumes : /\ Creates(r, v) /\ Received(call[r]) /\ Dest(call[r]) = Vol(v)
                             /\ call[r].source[1] = "snapshot"
    BY <2>1, <2>2, TagsAre
  <2>4. PICK s \in SnapshotNames : k[2] = <<"csi", s>>
    BY <1>1, SnapNamesAre
  <2>5. k = <<Vol(v), <<"csi", s>>>>
    BY <1>5, <2>1, <2>3, <2>4
  <2>6. ~ snap'[k].managed /\ ~ snap'[k].defer
    BY <1>5, <2>1 DEF Snapshotted
  <2>7. pc'[r] \in {"props", "strip"}
    BY <1>5 DEF DoesReceive, Moves, Types
  <2>8. QED
    BY <2>1, <2>3, <2>5, <2>6, <2>7
<1>6. QED
  BY <1>2, <1>3, <1>4, <1>5

\* A handler of a volume that is received from a snapshot.
LEMMA ReceptionSteps ==
  ASSUME Types, [Next]_vars, NEW r \in Requests, NEW v \in Volumes, Creates(r, v),
         Received(call[r]), call[r].source[1] = "snapshot",
         pc[r] \in {"pending", "check", "receive", "props", "strip"}
  PROVE  \/ pc'[r] \in {"pending", "check", "receive", "props", "strip"}
         \/ pc[r] = "strip" /\ DoesStripSnapshots(r)
<1>1. call[r].method = "CreateVolume" /\ call[r].detached /\ First(call[r]) = "check"
  BY DEF Creates, Is, First, Received
<1>2. CASE Works(r) /\ pc'[r] = After(r, pc[r]) /\ Running(r)
  <2>1. pc[r] # "pending"
    BY <1>2 DEF Running
  <2>2. pc[r] = "check" => pc'[r] = "receive"
    BY <1>1, <1>2 DEF After
  <2>3. pc[r] \in {"receive", "props"} => pc'[r] \in {"props", "strip"}
    BY <1>2 DEF After
  <2>4. QED
    BY <1>2, <2>1, <2>2, <2>3, WorkIs
<1>3. QED
  BY <1>1, <1>2, PlacesOfNext

\* An attached snapshot stays managed, fresh, and unmarked while it is wanted.
LEMMA CsiSnapshotStays ==
  ASSUME Types, Control, VolumesAreSound, SnapshotsAreSound,
         \A r \in Requests : SourceGrows(r), [Next]_vars,
         NEW v \in Volumes, NEW s \in SnapshotNames
  PROVE  CsiSnapshot(v, s)'
<1> DEFINE k == <<Vol(v), <<"csi", s>>>>
           sid == <<"snapshot", v, s>>
<1>1. /\ call' = call /\ call \in Plans
      /\ \A r \in Requests : Sent(r) => Sent(r)' /\ since'[r] = since[r]
  BY ForwardIs DEF Forward, Types
<1>2. SUFFICES ASSUME k \in DOMAIN snap'
               PROVE  /\ \/ snap'[k].managed
                         \/ \E r \in Requests : /\ Creates(r, v) /\ Received(call[r])
                                /\ call[r].source[1] = "snapshot"
                                /\ pc'[r] \in {"pending", "check", "receive", "props", "strip"}
                      /\ snap'[k].defer => SnapshotUnwanted(sid)'
                      /\ snap'[k].managed => \E r \in Requests :
                            Takes(r, sid) /\ Sent(r)' /\ snap'[k].content >= since'[r]
  BY <1>1, CallsStay DEF CsiSnapshot
<1>3. k[1] = Vol(v) /\ k[2] = <<"csi", s>> /\ k[2][1] = "csi"
  OBVIOUS
<1>4. CASE k \in DOMAIN snap
  <2>1. /\ snap'[k].content = snap[k].content /\ snap'[k].managed = snap[k].managed
        /\ snap'[k] = snap[k] \/ \E r \in Requests : Frees(r, k)
    BY <1>2, <1>4, KeptSnapshots
  <2>2. /\ \/ snap[k].managed
           \/ \E r \in Requests : /\ Creates(r, v) /\ Received(call[r])
                                  /\ call[r].source[1] = "snapshot"
                                  /\ pc[r] \in {"pending", "check", "receive", "props", "strip"}
        /\ snap[k].defer => SnapshotUnwanted(sid)
        /\ snap[k].managed => \E r \in Requests : /\ Takes(r, sid) /\ Sent(r)
                                                  /\ snap[k].content >= since[r]
    BY <1>4 DEF SnapshotsAreSound, CsiSnapshot
  <2>3. ASSUME snap'[k].defer PROVE SnapshotUnwanted(sid)'
    <3>1. SnapshotUnwanted(sid)
      <4>1. \A r \in Requests : Frees(r, k) => Drops(r, sid) /\ Sent(r)
        BY <1>4, AttachedSteps
      <4>2. QED
        BY <2>1, <2>2, <2>3, <4>1 DEF SnapshotUnwanted
    <3>2. QED
      BY <1>1, <3>1, CallsStay DEF SnapshotUnwanted
  <2>4. ASSUME snap'[k].managed
        PROVE  \E r \in Requests : Takes(r, sid) /\ Sent(r)' /\ snap'[k].content >= since'[r]
    <3>1. PICK r \in Requests : Takes(r, sid) /\ Sent(r) /\ snap[k].content >= since[r]
      BY <2>1, <2>2, <2>4
    <3>2. QED
      BY <1>1, <2>1, <3>1
  <2>5. ASSUME ~ snap'[k].managed
        PROVE  \E r \in Requests : /\ Creates(r, v) /\ Received(call[r])
                                   /\ call[r].source[1] = "snapshot"
                                   /\ pc'[r] \in {"pending", "check", "receive", "props", "strip"}
    <3>1. PICK r \in Requests : /\ Creates(r, v) /\ Received(call[r])
                                  /\ call[r].source[1] = "snapshot"
                                  /\ pc[r] \in {"pending", "check", "receive", "props", "strip"}
      BY <2>1, <2>2, <2>5
    <3>2. ~ DoesStripSnapshots(r)
      <4>1. SUFFICES ASSUME DoesStripSnapshots(r) PROVE FALSE
        OBVIOUS
      <4>2. Dest(call[r]) = Vol(v) /\ Is(r, "CreateVolume") /\ ~ Is(r, "CreateSnapshot")
        BY <1>1, <3>1, DestIs DEF Creates, Is
      <4>3. Discards(SnapsOf(Vol(v)))
        BY <4>1, <4>2 DEF DoesStripSnapshots
      <4>4. k \in SnapsOf(Vol(v))
        BY <1>3, <1>4 DEF SnapsOf
      <4>5. QED
        BY <1>2, <4>3, <4>4 DEF Discards
    <3>3. QED
      BY <3>1, <3>2, ReceptionSteps
  <2>6. QED
    BY <2>3, <2>4, <2>5
<1>5. CASE k \notin DOMAIN snap
  <2>1. PICK r \in Requests, u \in Volumes, t \in SnapshotNames :
           /\ k = <<Vol(u), <<"csi", t>>>> /\ ~ snap'[k].defer /\ Running(r)
           /\ \/ /\ DoesTakeSnapshot(r) /\ Takes(r, <<"snapshot", u, t>>) /\ From(call[r]) = Vol(u)
                 /\ From(call[r]) \in DOMAIN ds
                 /\ snap'[k].managed /\ snap'[k].content = ds[Vol(u)].content
              \/ /\ Creates(r, u) /\ Received(call[r]) /\ call[r].source[1] = "snapshot"
                 /\ pc[r] = "receive" /\ pc'[r] \in {"props", "strip"} /\ ~ snap'[k].managed
    BY <1>2, <1>3, <1>5, NewAttached
  <2>2. u = v /\ t = s
    BY <2>1, NamesDiffer
  <2>3. Sent(r)
    BY <2>1 DEF Running, Sent
  <2>4. CASE /\ DoesTakeSnapshot(r) /\ Takes(r, sid) /\ From(call[r]) = Vol(v)
             /\ From(call[r]) \in DOMAIN ds
             /\ snap'[k].managed /\ snap'[k].content = ds[Vol(v)].content
    <3>1. CopiesVolume(call[r])
      BY <2>4 DEF CopiesVolume, Takes, Is
    <3>2. ds[Vol(v)].content >= since[r]
      BY <2>3, <2>4, <3>1 DEF SourceGrows
    <3>3. QED
      BY <1>1, <2>1, <2>3, <2>4, <3>2
  <2>5. CASE /\ Creates(r, v) /\ Received(call[r]) /\ call[r].source[1] = "snapshot"
             /\ pc'[r] \in {"props", "strip"} /\ ~ snap'[k].managed
    BY <2>1, <2>5
  <2>6. QED
    BY <2>1, <2>2, <2>4, <2>5
<1>6. QED
  BY <1>4, <1>5

\* A detached snapshot that is new, or gone.
LEMMA DetachedSteps ==
  ASSUME Types, [Next]_vars, NEW v \in Volumes, NEW s \in SnapshotNames
  PROVE  /\ Det(v, s) \in DOMAIN ds' \ DOMAIN ds =>
              \E r \in Requests :
                 /\ Takes(r, <<"detached", v, s>>) /\ Running(r) /\ DoesReceive(r)
                 /\ ds'[Det(v, s)].content = snap[CopyFrom(call[r])].content
                 /\ CopyFrom(call[r]) = <<Vol(v), <<"for-snapshot", s>>>>
         /\ Det(v, s) \in DOMAIN ds \ DOMAIN ds' =>
              \E r \in Requests : /\ Drops(r, <<"detached", v, s>>) /\ Running(r)
                                  /\ DoesDestroyDetached(r)
         /\ Det(v, s) \in DOMAIN ds /\ Det(v, s) \in DOMAIN ds' =>
              ds'[Det(v, s)].content = ds[Det(v, s)].content
<1> DEFINE d == Det(v, s)
<1>1. /\ call \in Plans /\ \A u : d # Vol(u) /\ d # Con(u)
      /\ \A u, t : d = Det(u, t) => u = v /\ t = s
  BY NamesDiffer DEF Types
<1>2. ASSUME d \in DOMAIN ds', d \notin DOMAIN ds
      PROVE  \E r \in Requests :
                 /\ Takes(r, <<"detached", v, s>>) /\ Running(r) /\ DoesReceive(r)
                 /\ ds'[d].content = snap[CopyFrom(call[r])].content
                 /\ CopyFrom(call[r]) = <<Vol(v), <<"for-snapshot", s>>>>
  <2>1. PICK r \in Requests :
           \/ DoesCreate(r) /\ d = Dest(call[r])
           \/ DoesClone(r) /\ d = Dest(call[r])
           \/ /\ DoesReceive(r) /\ d = Dest(call[r])
              /\ LET k == CopyFrom(call[r]) IN \E size \in {0, snap[k].size} :
                   ds'[d] = Fresh(snap[k].content, NoOrigin, size, FALSE)
           \/ d = Con(call[r].volume)
    BY <1>2, NewDatasets
  <2>2. ~ Is(r, "CreateVolume") \/ d # Dest(call[r])
    BY <1>1, DestIsNamed
  <2>3. /\ DoesReceive(r) /\ d = Dest(call[r])
        /\ LET k == CopyFrom(call[r]) IN \E size \in {0, snap[k].size} :
             ds'[d] = Fresh(snap[k].content, NoOrigin, size, FALSE)
    BY <1>1, <2>1, <2>2 DEF DoesCreate, DoesClone
  <2>4. pc[r] = "receive" /\ Running(r) /\ call[r].detached
    BY <2>3 DEF DoesReceive
  <2>5. Is(r, "CreateSnapshot")
    BY <2>2, <2>3, <2>4, CopyIsNamed
  <2>6. d = Det(call[r].volume, call[r].name)
    BY <1>1, <2>3, <2>5, DestIs DEF Is
  <2>7. call[r].volume = v /\ call[r].name = s
    BY <1>1, <2>6
  <2>8. Takes(r, <<"detached", v, s>>) /\ CopyFrom(call[r]) = <<Vol(v), <<"for-snapshot", s>>>>
    <3>1. IdOf(call[r]) = <<"detached", v, s>>
      BY <2>4, <2>7 DEF IdOf
    <3>2. From(call[r]) = Vol(v) /\ Tag(call[r]) = <<"for-snapshot", s>>
      BY <1>1, <2>5, <2>7, DestIs DEF Is
    <3>3. QED
      BY <2>5, <3>1, <3>2 DEF Takes, CopyFrom
  <2>9. ds'[d].content = snap[CopyFrom(call[r])].content
    BY <2>3 DEF Fresh
  <2>10. QED
    BY <2>3, <2>4, <2>8, <2>9
<1>3. ASSUME d \in DOMAIN ds, d \notin DOMAIN ds'
      PROVE  \E r \in Requests : /\ Drops(r, <<"detached", v, s>>) /\ Running(r)
                                 /\ DoesDestroyDetached(r)
  <2>1. PICK r \in Requests : /\ DoesDestroyVolume(r) \/ DoesDestroyDetached(r)
                              /\ d = Dest(call[r])
    BY <1>1, <1>3, LostDatasets
  <2>2. ~ DoesDestroyVolume(r)
    <3>1. Is(r, "DeleteVolume") => Dest(call[r]) = Vol(call[r].volume)
      BY <1>1, DestIs DEF Is
    <3>2. QED
      BY <1>1, <2>1, <3>1 DEF DoesDestroyVolume
  <2>3. Is(r, "DeleteSnapshot") /\ call[r].source[1] = "detached" /\ Running(r)
    BY <2>1, <2>2 DEF DoesDestroyDetached, Goes
  <2>4. Drops(r, <<"detached", v, s>>)
    BY <1>1, <2>1, <2>3, DropsIs
  <2>5. QED
    BY <2>1, <2>2, <2>3, <2>4
<1>4. d \in DOMAIN ds /\ d \in DOMAIN ds' => ds'[d].content = ds[d].content
  BY <1>1, KeptDatasets
<1>5. QED
  BY <1>2, <1>3, <1>4

\* Where CreateSnapshot goes.
LEMMA TakingSteps ==
  ASSUME Types, [Next]_vars, NEW r \in Requests, Is(r, "CreateSnapshot"), pc'[r] # pc[r]
  PROVE  \/ pc'[r] = "pending" \/ pc'[r] = "check"
         \/ Reply(r) /\ pc[r] = "reply" /\ pc'[r] = "done" /\ UNCHANGED pool
         \/ pc[r] = "check" /\ pc'[r] \in {"container", "take"} /\ DoesCheckName(r)
         \/ pc[r] = "container" /\ pc'[r] = "tmp" /\ DoesCreateContainer(r)
         \/ pc[r] = "tmp" /\ pc'[r] \in {"receive", "clone"} /\ DoesTakeTemporary(r)
         \/ pc[r] = "receive" /\ pc'[r] \in {"props", "strip"} /\ DoesReceive(r)
         \/ pc[r] = "props" /\ pc'[r] = "strip" /\ DoesSetProperties(r)
         \/ pc[r] = "strip" /\ pc'[r] = "untmp" /\ DoesStripSnapshots(r)
         \/ pc[r] = "untmp" /\ pc'[r] = "success" /\ DoesDropTemporary(r)
         \/ pc[r] = "take" /\ pc'[r] = "success" /\ DoesTakeSnapshot(r)
         \/ pc[r] = "success" /\ pc'[r] = "reply" /\ DoesSetSuccess(r)
<1>1. call[r].method = "CreateSnapshot" /\ InItsPlace(r) /\ First(call[r]) = "check"
  BY DEF Is, Types, First
<1>2. CASE Works(r) /\ Running(r) /\ pc[r] # "reply"
           /\ (pc'[r] = After(r, pc[r]) \/ (pc[r] = "receive" /\ pc'[r] = "strip"))
  <2>1. pc[r] \in {"check", "container", "tmp", "receive", "props", "strip", "untmp", "take",
                   "success"}
    BY <1>1, <1>2 DEF InItsPlace, Places, StepNames, Running
  <2>2. CASE pc[r] = "check"
    <3>1. ~ DoesCheckSize(r)
      BY DEF DoesCheckSize, Is
    <3>2. QED
      BY <1>1, <1>2, <2>2, <3>1, WorkIs DEF After
  <2>3. CASE pc[r] \in {"container", "tmp", "take"}
    BY <1>1, <1>2, <2>3, WorkIs DEF After
  <2>4. CASE pc[r] \in {"receive", "props"}
    BY <1>1, <1>2, <2>4, WorkIs DEF After
  <2>5. CASE pc[r] \in {"strip", "untmp", "success"}
    BY <1>1, <1>2, <2>5, WorkIs DEF After
  <2>6. QED
    BY <2>1, <2>2, <2>3, <2>4, <2>5
<1>3. QED
  BY <1>1, <1>2, PlacesOfNext, ReplyIs

\* What CreateSnapshot has made, and found of its name, stands.
LEMMA SnapshotStandsStays ==
  ASSUME Types, Control, VolumesAreSound, SnapshotsAreSound, [Next]_vars, NEW r \in Requests
  PROVE  SnapshotStands(r)'
<1>1. /\ call' = call /\ call \in Plans
      /\ \A q \in Requests : Sent(q) => Sent(q)'
  BY ForwardIs DEF Forward, Types
<1>2. \A sid : SnapshotUnwanted(sid) => SnapshotUnwanted(sid)'
  BY <1>1, CallsStay DEF SnapshotUnwanted
<1>3. SUFFICES ASSUME NEW v \in Volumes, NEW s \in SnapshotNames, Is(r, "CreateSnapshot"),
                      call[r].volume = v, call[r].name = s
               PROVE  SnapshotStands(r)'
  <2>1. SUFFICES ASSUME Is(r, "CreateSnapshot") PROVE SnapshotStands(r)'
    BY <1>1 DEF SnapshotStands, Is
  <2>2. call[r].volume \in Volumes /\ call[r].name \in SnapshotNames
    BY <1>1, <2>1, CallsAre DEF Is
  <2>3. QED
    BY <1>3, <2>1, <2>2
<1>4. /\ call[r].method = "CreateSnapshot"
      /\ IdOf(call[r]) = <<IF call[r].detached THEN "detached" ELSE "snapshot", v, s>>
      /\ SnapOf(IdOf(call[r])) = <<Vol(v), <<"csi", s>>>>
  BY <1>1, <1>3, DestIs DEF Is
<1>5. SnapshotStands(r)
  BY DEF SnapshotsAreSound
<1>6. ASSUME call[r].detached, pc'[r] \in {"props", "strip", "untmp", "success", "reply", "done"},
             ~ SnapshotUnwanted(<<"detached", v, s>>)'
      PROVE  Det(v, s) \in DOMAIN ds'
  <2>1. ~ SnapshotUnwanted(<<"detached", v, s>>)
    BY <1>2, <1>6
  <2>2. Det(v, s) \in DOMAIN ds => Det(v, s) \in DOMAIN ds'
    <3>1. \A q \in Requests : ~ (Drops(q, <<"detached", v, s>>) /\ Running(q))
      BY <2>1 DEF SnapshotUnwanted, Running, Sent
    <3>2. QED
      BY <3>1, DetachedSteps
  <2>3. CASE pc[r] \in {"props", "strip", "untmp", "success", "reply", "done"}
    BY <1>3, <1>4, <1>5, <1>6, <2>1, <2>2, <2>3 DEF SnapshotStands
  <2>4. CASE pc[r] = "receive" /\ DoesReceive(r)
    <3>1. Dest(call[r]) = Det(v, s)
      BY <1>1, <1>3, TakesIs
    <3>2. QED
      BY <2>4, <3>1 DEF DoesReceive, Adds
  <2>5. pc[r] # "take"
    BY <1>6 DEF Types, InItsPlace
  <2>6. QED
    BY <1>3, <1>6, <2>3, <2>4, <2>5, TakingSteps
<1>7. ASSUME ~ call[r].detached, pc'[r] \in {"success", "reply", "done"},
             ~ SnapshotUnwanted(<<"snapshot", v, s>>)'
      PROVE  LET k == <<Vol(v), <<"csi", s>>>> IN k \in DOMAIN snap' /\ snap'[k].managed
  <2> DEFINE k == <<Vol(v), <<"csi", s>>>>
  <2>1. ~ SnapshotUnwanted(<<"snapshot", v, s>>)
    BY <1>2, <1>7
  <2>2. CASE Sent(r) /\ k \in DOMAIN snap
    <3>1. \A q \in Requests : Creates(q, v) /\ Received(call[q]) => pc[q] = "done"
      BY <1>3, <2>2, ReceivedIsUntouched
    <3>2. CsiSnapshot(v, s)
      BY DEF SnapshotsAreSound
    <3>3. snap[k].managed
      BY <2>2, <3>1, <3>2 DEF CsiSnapshot
    <3>4. k \in DOMAIN snap'
      BY <2>1, <2>2, <3>1, <3>3, AttachedSteps
    <3>5. QED
      BY <2>2, <3>3, <3>4, KeptSnapshots
  <2>3. CASE pc[r] \in {"success", "reply", "done"}
    <3>1. Sent(r) /\ k \in DOMAIN snap
      BY <1>4, <1>5, <1>7, <2>1, <2>3 DEF SnapshotStands, Sent
    <3>2. QED
      BY <2>2, <3>1
  <2>4. CASE pc[r] = "take" /\ DoesTakeSnapshot(r)
    <3>1. CASE k \in DOMAIN snap
      BY <2>2, <2>4, <3>1 DEF Sent
    <3>2. CASE k \notin DOMAIN snap
      <4>1. /\ k \in DOMAIN snap'
            /\ snap'[k] = [content |-> ds[k[1]].content, size |-> ds[k[1]].size,
                           managed |-> TRUE, defer |-> FALSE]
        BY <1>4, <2>4, <3>2 DEF DoesTakeSnapshot, Captures
      <4>2. QED
        BY <4>1
    <3>3. QED
      BY <3>1, <3>2
  <2>5. pc[r] # "untmp"
    BY <1>3, <1>7 DEF Types, InItsPlace, Is
  <2>6. QED
    BY <1>3, <1>7, <2>3, <2>4, <2>5, TakingSteps
<1>8. ASSUME Running(r)', pc'[r] # "check", NEW sid \in DOMAIN captured', sid[1] = IdOf(call[r])[1],
             sid[3] = s, sid[2] # v
      PROVE  SnapshotUnwanted(sid)'
  <2>1. Running(r)
    BY <1>3, <1>8, TakingSteps DEF Running
  <2>2. CASE sid \in DOMAIN captured /\ pc[r] # "check"
    BY <1>2, <1>3, <1>4, <1>5, <1>8, <2>1, <2>2 DEF SnapshotStands
  <2>3. CASE sid \in DOMAIN captured /\ pc[r] = "check"
    <3>1. DoesCheckName(r)
      BY <1>3, <1>8, <2>3, TakingSteps DEF Running
    <3>2. ~ NameTaken(call[r])
      BY <3>1 DEF DoesCheckName
    <3>3. SUFFICES ASSUME ~ SnapshotUnwanted(sid) PROVE FALSE
      BY <1>2
    <3>4. sid \in SnapshotIds /\ OwnsSnapshot(sid)
      BY <2>3, <3>3 DEF OwnsSnapshot, SnapshotUnwanted, Drops, Types
    <3>5. Exists(sid)
      BY <3>4, OwnedSnapshotsAreKept DEF AckedSnapshotsAreKept
    <3>6. PICK u \in Volumes, t \in SnapshotNames :
           /\ sid[2] = u /\ sid[3] = t
           /\ \/ sid = <<"snapshot", u, t>> /\ sid[1] = "snapshot"
              \/ sid = <<"detached", u, t>> /\ sid[1] = "detached"
      BY <3>4, IdsAre
    <3>7. u \in Volumes \ {call[r].volume} /\ t = s
      BY <1>3, <1>8, <3>6
    <3>8. CASE sid = <<"snapshot", u, t>> /\ sid[1] = "snapshot"
      <4>1. ~ call[r].detached
        BY <1>4, <1>8, <3>8
      <4>2. SnapOf(<<"snapshot", u, s>>) \in DOMAIN snap
        BY <3>5, <3>7, <3>8 DEF Exists
      <4>3. QED
        BY <1>3, <3>2, <3>7, <4>1, <4>2 DEF NameTaken
    <3>9. CASE sid = <<"detached", u, t>> /\ sid[1] = "detached"
      <4>1. call[r].detached
        BY <1>4, <1>8, <3>9
      <4>2. Det(u, s) \in DOMAIN ds
        BY <3>5, <3>6, <3>7, <3>9 DEF Exists
      <4>3. QED
        BY <1>3, <3>2, <3>7, <4>1, <4>2 DEF NameTaken
    <3>10. QED
      BY <3>6, <3>8, <3>9
  <2>4. CASE sid \notin DOMAIN captured
    <3>1. PICK q \in Requests : Reply(q)
      BY <1>8, <2>4, OnwardIs, StartIs DEF Onward
    <3>2. Running(q) /\ pc'[q] = "done"
      BY <3>1, ReplyIs DEF Types, Running, Reply, On
    <3>3. call[q].method = "CreateSnapshot" /\ sid = IdOf(call[q])
      BY <1>8, <2>4, <3>1 DEF Reply
    <3>4. q # r /\ call[q].name = s
      <4>1. IdOf(call[q])[3] = call[q].name
        BY DEF IdOf
      <4>2. QED
        BY <1>8, <3>2, <3>3, <4>1 DEF Running
    <3>5. <<"create_snapshot_name", s>> \in Keys(call[q]) \cap Keys(call[r])
      BY <1>3, <1>4, <3>3, <3>4 DEF Keys
    <3>6. QED
      BY <2>1, <3>2, <3>4, <3>5 DEF Control, Exclusive
  <2>5. QED
    BY <2>2, <2>3, <2>4
<1>9. IdOf(call[r])[1] = (IF call[r].detached THEN "detached" ELSE "snapshot")
  BY <1>4
<1>10. QED
  BY <1>1, <1>3, <1>4, <1>6, <1>7, <1>8 DEF SnapshotStands

\* What a reply adds to what was captured.
LEMMA CaptureSteps ==
  ASSUME Types, [Next]_vars, NEW sid \in DOMAIN captured'
  PROVE  \/ sid \in DOMAIN captured /\ captured'[sid] = captured[sid]
         \/ \E q \in Requests :
              /\ Takes(q, sid) /\ pc[q] = "reply" /\ Running(q) /\ UNCHANGED pool
              /\ sid \in SnapshotIds /\ captured'[sid] = DataOf(sid)
<1>1. CASE sid \in DOMAIN captured
  BY <1>1, ForwardIs DEF Forward
<1>2. CASE sid \notin DOMAIN captured
  <2>1. PICK q \in Requests : Reply(q)
    BY <1>2, OnwardIs, StartIs DEF Onward
  <2>2. pc[q] = "reply" /\ Running(q) /\ UNCHANGED pool /\ call \in Plans
    BY <2>1, ReplyIs DEF Types
  <2>3. /\ Is(q, "CreateSnapshot") /\ sid = IdOf(call[q])
        /\ captured'[sid] = IF call[q].detached THEN ds[Dest(call[q])].content
                            ELSE snap[SnapOf(IdOf(call[q]))].content
    BY <1>2, <2>1 DEF Reply, Is
  <2>4. Dest(call[q]) = Det(call[q].volume, call[q].name)
    BY <2>2, <2>3, DestIs DEF Is
  <2>5. /\ sid[1] = "snapshot" <=> ~ call[q].detached
        /\ sid[2] = call[q].volume /\ sid[3] = call[q].name
    BY <2>3 DEF IdOf
  <2>6. captured'[sid] = DataOf(sid)
    BY <2>3, <2>4, <2>5 DEF DataOf
  <2>7. Takes(q, sid) /\ sid \in SnapshotIds
    BY <2>2, <2>3, CallsAre DEF Takes, Is
  <2>8. QED
    BY <2>2, <2>6, <2>7
<1>3. QED
  BY <1>1, <1>2

\* What was captured is not made a second time.
LEMMA CapturedIsNotMade ==
  ASSUME Types, Control, SnapshotsAreSound, NEW sid \in DOMAIN captured, ~ Exists(sid),
         NEW r \in Requests, Takes(r, sid)
  PROVE  ~ Running(r)
<1>1. sid \in SnapshotIds
  BY DEF Types
<1>2. SUFFICES ASSUME Running(r) PROVE FALSE
  OBVIOUS
<1>3. CASE SnapshotUnwanted(sid)
  BY <1>1, <1>2, <1>3 DEF SnapshotUnwanted, Control, UnwantedIsSettled, Running, Unfinished
<1>4. CASE ~ SnapshotUnwanted(sid)
  <2>1. OwnsSnapshot(sid)
    BY <1>4 DEF OwnsSnapshot, SnapshotUnwanted, Drops
  <2>2. QED
    BY <1>1, <2>1, OwnedSnapshotsAreKept DEF AckedSnapshotsAreKept
<1>5. QED
  BY <1>3, <1>4

\* An acknowledged snapshot keeps its data for as long as it exists.
LEMMA CapturesStayKept ==
  ASSUME Types, Control, VolumesAreSound, SnapshotsAreSound, [Next]_vars
  PROVE  CaptureIsKept'
<1>1. SUFFICES ASSUME NEW sid \in DOMAIN captured', Exists(sid)'
               PROVE  DataOf(sid)' = captured'[sid]
  BY DEF CaptureIsKept
<1>2. CASE \E q \in Requests : UNCHANGED pool /\ captured'[sid] = DataOf(sid)
  BY <1>2 DEF pool, DataOf
<1>3. CASE sid \in DOMAIN captured /\ captured'[sid] = captured[sid]
  <2>1. PICK v \in Volumes, s \in SnapshotNames :
           /\ sid[2] = v /\ sid[3] = s
           /\ \/ sid = <<"snapshot", v, s>> /\ sid[1] = "snapshot"
              \/ sid = <<"detached", v, s>> /\ sid[1] = "detached"
    BY <1>3, IdsAre DEF Types
  <2>2. Exists(sid) => DataOf(sid) = captured[sid]
    BY <1>3 DEF SnapshotsAreSound, CaptureIsKept
  <2>3. CASE sid = <<"snapshot", v, s>> /\ sid[1] = "snapshot"
    <3> DEFINE k == <<Vol(v), <<"csi", s>>>>
    <3>1. SnapOf(sid) = k /\ k[1] = Vol(v) /\ k[2][1] = "csi"
      BY <2>1 DEF SnapOf
    <3>2. k \in DOMAIN snap' /\ (Exists(sid) <=> k \in DOMAIN snap)
      BY <1>1, <2>3, <3>1 DEF Exists, SnapOf
    <3>3. CASE k \in DOMAIN snap
      <4>1. snap'[k].content = snap[k].content
        BY <3>2, <3>3, KeptSnapshots
      <4>2. QED
        BY <1>3, <2>2, <2>3, <3>1, <3>2, <3>3, <4>1 DEF DataOf, SnapOf
    <3>4. CASE k \notin DOMAIN snap
      <4>1. PICK r \in Requests, u \in Volumes, t \in SnapshotNames :
               /\ k = <<Vol(u), <<"csi", t>>>> /\ Running(r)
               /\ \/ Takes(r, <<"snapshot", u, t>>)
                  \/ Creates(r, u) /\ Received(call[r]) /\ pc[r] = "receive"
        BY <3>1, <3>2, <3>4, NewAttached
      <4>2. u = v /\ t = s
        BY <4>1, NamesDiffer
      <4>3. Takes(r, sid) => FALSE
        BY <1>3, <3>2, <3>4, <4>1, CapturedIsNotMade
      <4>4. PICK p \in Requests : Takes(p, sid) /\ pc[p] = "done"
        BY <1>3 DEF Control, PromisesAreMade
      <4>5. Is(p, "CreateSnapshot") /\ call[p].volume = v /\ Sent(p)
        BY <2>3, <4>4, TakesIs DEF Types, Sent
      <4>6. QED
        BY <2>3, <4>1, <4>2, <4>3, <4>5, ReceivedIsUntouched
    <3>5. QED
      BY <3>3, <3>4
  <2>4. CASE sid = <<"detached", v, s>> /\ sid[1] = "detached"
    <3>1. Det(v, s) \in DOMAIN ds' /\ (Exists(sid) <=> Det(v, s) \in DOMAIN ds)
      BY <1>1, <2>1, <2>4 DEF Exists
    <3>2. CASE Det(v, s) \in DOMAIN ds
      <4>1. ds'[Det(v, s)].content = ds[Det(v, s)].content
        BY <3>1, <3>2, DetachedSteps
      <4>2. DataOf(sid) = ds[Det(v, s)].content /\ DataOf(sid)' = ds'[Det(v, s)].content
        BY <2>1, <2>4 DEF DataOf
      <4>3. QED
        BY <1>3, <2>2, <3>1, <3>2, <4>1, <4>2
    <3>3. CASE Det(v, s) \notin DOMAIN ds
      <4>1. PICK r \in Requests : Takes(r, sid) /\ Running(r)
        BY <2>4, <3>1, <3>3, DetachedSteps
      <4>2. QED
        BY <1>3, <3>1, <3>3, <4>1, CapturedIsNotMade
    <3>4. QED
      BY <3>2, <3>3
  <2>5. QED
    BY <2>1, <2>3, <2>4
<1>4. QED
  BY <1>2, <1>3, CaptureSteps

\* No two volumes have a snapshot of one name.
LEMMA NamesStayUnique ==
  ASSUME Types, Control, SnapshotsAreSound, [Next]_vars
  PROVE  OneVolumePerSnapshotName'
<1>1. /\ call' = call /\ call \in Plans /\ DOMAIN captured \subseteq SnapshotIds
      /\ \A q \in Requests : Sent(q) => Sent(q)'
  BY ForwardIs DEF Forward, Types
<1>2. ASSUME NEW sid, SnapshotUnwanted(sid)
      PROVE  ~ OwnsSnapshot(sid)'
  BY <1>1, <1>2 DEF SnapshotUnwanted, Drops, OwnsSnapshot, Is
<1>3. ASSUME NEW a \in DOMAIN captured, NEW b \in DOMAIN captured, OwnsSnapshot(a)',
             OwnsSnapshot(b)', a[1] = b[1], a[3] = b[3]
      PROVE  a = b
  <2>1. OwnsSnapshot(a) /\ OwnsSnapshot(b)
    BY <1>2, <1>3 DEF OwnsSnapshot, SnapshotUnwanted, Drops
  <2>2. QED
    BY <1>3, <2>1 DEF SnapshotsAreSound, OneVolumePerSnapshotName
<1>4. ASSUME NEW a \in DOMAIN captured, NEW q \in Requests, NEW b, Takes(q, b), b \in SnapshotIds,
             pc[q] = "reply", Running(q), OwnsSnapshot(a)', a[1] = b[1], a[3] = b[3]
      PROVE  a = b
  <2>1. /\ call[q].method = "CreateSnapshot" /\ b = IdOf(call[q])
        /\ b[2] = call[q].volume /\ b[3] = call[q].name
    BY <1>4 DEF Takes, Is, IdOf
  <2>2. a[2] # call[q].volume => SnapshotUnwanted(a)
    BY <1>4, <2>1 DEF SnapshotsAreSound, SnapshotStands
  <2>3. a[2] = b[2]
    BY <1>2, <1>4, <2>1, <2>2
  <2>4. QED
    BY <1>1, <1>4, <2>3 DEF SnapshotIds
<1>5. ASSUME NEW a \in DOMAIN captured', a \notin DOMAIN captured
      PROVE  \E q \in Requests : /\ Takes(q, a) /\ pc[q] = "reply" /\ Running(q) /\ Reply(q)
                                 /\ a \in SnapshotIds
  <2>1. PICK q \in Requests : Reply(q)
    BY <1>5, OnwardIs, StartIs DEF Onward
  <2>2. Is(q, "CreateSnapshot") /\ a = IdOf(call[q])
    BY <1>5, <2>1 DEF Reply, Is
  <2>3. QED
    BY <1>1, <2>1, <2>2, ReplyIs, CallsAre DEF Takes, Is
<1>6. ASSUME NEW a \in DOMAIN captured', NEW b \in DOMAIN captured', a \notin DOMAIN captured,
             b \notin DOMAIN captured
      PROVE  a = b
  <2>1. PICK q \in Requests : Reply(q)
    BY <1>5, <1>6
  <2>2. a = IdOf(call[q]) /\ b = IdOf(call[q])
    BY <1>6, <2>1 DEF Reply
  <2>3. QED
    BY <2>2
<1>7. SUFFICES ASSUME NEW a, NEW b, a \in DOMAIN captured', b \in DOMAIN captured',
                      OwnsSnapshot(a)', OwnsSnapshot(b)', a[1] = b[1], a[3] = b[3]
               PROVE  a = b
  BY DEF OneVolumePerSnapshotName
<1>8. QED
  BY <1>3, <1>4, <1>5, <1>6, <1>7

\* All that is said of snapshots is kept by every step.
LEMMA SnapshotsStay ==
  ASSUME Types, Control, VolumesAreSound, SnapshotsAreSound,
         \A r \in Requests : SourceGrows(r), [Next]_vars
  PROVE  SnapshotsAreSound'
<1>1. ASSUME NEW k \in DOMAIN snap', k[2][1] = "csi" PROVE k[1] \in Vols
  <2>1. CASE k \in DOMAIN snap
    BY <1>1, <2>1 DEF SnapshotsAreSound
  <2>2. CASE k \notin DOMAIN snap
    <3>1. PICK v \in Volumes, s \in SnapshotNames : k = <<Vol(v), <<"csi", s>>>>
      BY <1>1, <2>2, NewAttached
    <3>2. QED
      BY <3>1 DEF Vols
  <2>3. QED
    BY <2>1, <2>2
<1>2. \A v \in Volumes, s \in SnapshotNames : CsiSnapshot(v, s)'
  BY CsiSnapshotStays
<1>3. \A r \in Requests : SnapshotStands(r)'
  BY SnapshotStandsStays
<1>4. QED
  BY <1>1, <1>2, <1>3, CapturesStayKept, NamesStayUnique DEF SnapshotsAreSound, Vols

----------------------------------------------------------------------------
(* Data.                                                                   *)

\* Data only grows.
LEMMA ContentSteps ==
  ASSUME Types, DataBounded, [Next]_vars
  PROVE  /\ writes' \in Nat /\ writes' >= writes
         /\ \A d \in DOMAIN ds \cap DOMAIN ds' :
              /\ ds'[d].content >= ds[d].content /\ ds'[d].content <= writes'
              /\ ds'[d].content = ds[d].content \/ \E v \in Writable : d = Vol(v)
<1>1. writes \in Nat
  BY OptionsAssumption DEF Types
<1>2. writes' = writes \/ ((\E v \in Writable : Write(v)) /\ writes' = writes + 1)
  <2>1. CASE UNCHANGED vars \/ Restart
    BY <2>1 DEF vars, bounds, Restart
  <2>2. CASE \E v \in Writable : Write(v)
    BY <2>2 DEF Write
  <2>3. ASSUME NEW r \in Requests, Start(r) \/ Works(r) \/ Reply(r) \/ Stalls(r)
        PROVE  writes' = writes
    <3>1. CASE Start(r) \/ Reply(r)
      BY <3>1, StartIs, ReplyIs
    <3>2. CASE Works(r)
      BY <3>2, WorksMoves DEF Moves
    <3>3. CASE Stalls(r)
      BY <3>3 DEF Stalls, Moves
    <3>4. QED
      BY <2>3, <3>1, <3>2, <3>3
  <2>4. QED
    BY <2>1, <2>2, <2>3, StepsOfNext
<1>3. ASSUME NEW v \in Writable, Write(v) PROVE writes' = writes + 1
  BY <1>3 DEF Write
<1>4. ASSUME NEW d \in DOMAIN ds, d \in DOMAIN ds'
      PROVE  /\ ds'[d].content >= ds[d].content /\ ds'[d].content <= writes'
             /\ ds'[d].content = ds[d].content \/ \E v \in Writable : d = Vol(v)
  <2>1. ds[d].content \in Nat /\ ds[d].content <= writes
    BY <1>4, OptionsAssumption DEF DataBounded, Types, Dataset
  <2>2. \/ ds'[d].content = ds[d].content
        \/ \E v \in Writable : Write(v) /\ d = Vol(v) /\ ds'[d].content = writes + 1
    BY <1>4, KeptDatasets
  <2>3. QED
    BY <1>1, <1>2, <1>3, <2>1, <2>2
<1>5. QED
  BY <1>1, <1>2, <1>4

\* The data of a dataset that is new.
LEMMA NewContents ==
  ASSUME Types, [Next]_vars, NEW d \in DOMAIN ds', d \notin DOMAIN ds
  PROVE  \E r \in Requests :
           \/ /\ \/ DoesCreate(r) /\ d = Dest(call[r])
                 \/ DoesCreateContainer(r) /\ d = Con(call[r].volume)
              /\ ds'[d].content = 0
           \/ /\ DoesClone(r) \/ DoesReceive(r)
              /\ d = Dest(call[r]) /\ CopyFrom(call[r]) \in DOMAIN snap
              /\ ds'[d].content = snap[CopyFrom(call[r])].content
<1>1. PICK r \in Requests :
           \/ /\ DoesCreate(r) /\ d = Dest(call[r])
              /\ \E size \in {0, call[r].size} : ds'[d] = Fresh(0, NoOrigin, size, TRUE)
           \/ /\ DoesClone(r) /\ d = Dest(call[r])
              /\ LET k == CopyFrom(call[r]) IN \E size \in {0, snap[k].size} :
                   ds'[d] = Fresh(snap[k].content, k, size, TRUE)
           \/ /\ DoesReceive(r) /\ d = Dest(call[r])
              /\ LET k == CopyFrom(call[r]) IN \E size \in {0, snap[k].size} :
                   ds'[d] = Fresh(snap[k].content, NoOrigin, size, FALSE)
           \/ /\ DoesCreateContainer(r) /\ d = Con(call[r].volume)
              /\ ds'[d] = Fresh(0, NoOrigin, 0, FALSE)
  BY NewDatasets
<1>2. CASE /\ DoesCreate(r) /\ d = Dest(call[r])
           /\ \E size \in {0, call[r].size} : ds'[d] = Fresh(0, NoOrigin, size, TRUE)
  BY <1>2 DEF Fresh
<1>3. CASE /\ DoesClone(r) /\ d = Dest(call[r])
           /\ LET k == CopyFrom(call[r]) IN \E size \in {0, snap[k].size} :
                ds'[d] = Fresh(snap[k].content, k, size, TRUE)
  <2>1. CopyFrom(call[r]) \in DOMAIN snap
    BY <1>3 DEF DoesClone
  <2>2. PICK size : ds'[d] = Fresh(snap[CopyFrom(call[r])].content, CopyFrom(call[r]), size, TRUE)
    BY <1>3
  <2>3. ds'[d].content = snap[CopyFrom(call[r])].content
    BY <2>2 DEF Fresh
  <2>4. QED
    BY <1>3, <2>1, <2>3
<1>4. CASE /\ DoesReceive(r) /\ d = Dest(call[r])
           /\ LET k == CopyFrom(call[r]) IN \E size \in {0, snap[k].size} :
                ds'[d] = Fresh(snap[k].content, NoOrigin, size, FALSE)
  <2>1. CopyFrom(call[r]) \in DOMAIN snap
    BY <1>4 DEF DoesReceive
  <2>2. PICK size : ds'[d] = Fresh(snap[CopyFrom(call[r])].content, NoOrigin, size, FALSE)
    BY <1>4
  <2>3. ds'[d].content = snap[CopyFrom(call[r])].content
    BY <2>2 DEF Fresh
  <2>4. QED
    BY <1>4, <2>1, <2>3
<1>5. CASE /\ DoesCreateContainer(r) /\ d = Con(call[r].volume)
           /\ ds'[d] = Fresh(0, NoOrigin, 0, FALSE)
  BY <1>5 DEF Fresh
<1>6. QED
  BY <1>1, <1>2, <1>3, <1>4, <1>5

\* Data comes from writes there were: by a write, or as a copy.
LEMMA DataStaysBounded ==
  ASSUME Types, DataBounded, [Next]_vars
  PROVE  DataBounded'
<1>1. writes \in Nat /\ writes' \in Nat /\ writes' >= writes /\ call \in Plans
  BY ContentSteps, OptionsAssumption DEF Types
<1>2. /\ \A d \in DOMAIN ds : ds[d].content \in Nat /\ ds[d].content <= writes
      /\ \A k \in DOMAIN snap : snap[k].content \in Nat /\ snap[k].content <= writes
  BY OptionsAssumption DEF DataBounded, Types, Dataset, Snapshotted
<1>3. ASSUME NEW d \in DOMAIN ds', d \notin DOMAIN ds
      PROVE  ds'[d].content <= writes'
  <2>1. PICK r \in Requests :
           \/ (DoesCreate(r) \/ DoesCreateContainer(r)) /\ ds'[d].content = 0
           \/ /\ DoesClone(r) \/ DoesReceive(r)
              /\ CopyFrom(call[r]) \in DOMAIN snap
              /\ ds'[d].content = snap[CopyFrom(call[r])].content
    BY <1>3, NewContents
  <2>2. QED
    BY <1>1, <1>2, <2>1
<1>4. ASSUME NEW k \in DOMAIN snap', k \notin DOMAIN snap
      PROVE  snap'[k].content <= writes'
  <2>1. PICK r \in Requests :
           \/ /\ k[1] \in DOMAIN ds
              /\ snap'[k] = [content |-> ds[k[1]].content, size |-> ds[k[1]].size,
                             managed |-> FALSE, defer |-> FALSE]
           \/ /\ DoesTakeSnapshot(r) /\ k = SnapOf(IdOf(call[r])) /\ From(call[r]) \in DOMAIN ds
              /\ snap'[k] = [content |-> ds[k[1]].content, size |-> ds[k[1]].size,
                             managed |-> TRUE, defer |-> FALSE]
           \/ /\ DoesReceive(r)
              /\ snap'[k] = [snap[CopyFrom(call[r])] EXCEPT !.managed = FALSE, !.defer = FALSE]
    BY <1>4, NewSnapshots
  <2>2. CASE /\ k[1] \in DOMAIN ds
             /\ snap'[k] = [content |-> ds[k[1]].content, size |-> ds[k[1]].size,
                            managed |-> FALSE, defer |-> FALSE]
    BY <1>1, <1>2, <2>2
  <2>3. CASE /\ DoesTakeSnapshot(r) /\ k = SnapOf(IdOf(call[r])) /\ From(call[r]) \in DOMAIN ds
             /\ snap'[k] = [content |-> ds[k[1]].content, size |-> ds[k[1]].size,
                            managed |-> TRUE, defer |-> FALSE]
    <3>1. Is(r, "CreateSnapshot")
      BY <2>3 DEF DoesTakeSnapshot
    <3>2. SnapOf(IdOf(call[r])) = <<From(call[r]), <<"csi", call[r].name>>>>
      BY <1>1, <3>1, DestIs DEF Is
    <3>3. k[1] \in DOMAIN ds
      BY <2>3, <3>2
    <3>4. QED
      BY <1>1, <1>2, <2>3, <3>3
  <2>4. CASE /\ DoesReceive(r)
             /\ snap'[k] = [snap[CopyFrom(call[r])] EXCEPT !.managed = FALSE, !.defer = FALSE]
    <3>1. CopyFrom(call[r]) \in DOMAIN snap /\ snap[CopyFrom(call[r])] \in Snapshotted
      BY <2>4 DEF DoesReceive, Types
    <3>2. snap'[k].content = snap[CopyFrom(call[r])].content
      BY <2>4, <3>1 DEF Snapshotted
    <3>3. QED
      BY <1>1, <1>2, <3>1, <3>2
  <2>5. QED
    BY <2>1, <2>2, <2>3, <2>4
<1>5. \A d \in DOMAIN ds' : ds'[d].content <= writes'
  BY <1>3, ContentSteps
<1>6. ASSUME NEW k \in DOMAIN snap' PROVE snap'[k].content <= writes'
  BY <1>1, <1>2, <1>4, <1>6, KeptSnapshots
<1>7. QED
  BY <1>5, <1>6 DEF DataBounded

\* A volume that was promised is not made anew.
LEMMA PromisedIsNotMade ==
  ASSUME Types, Control, VolumesAreSound, [Next]_vars, NEW v \in DOMAIN promised
  PROVE  Vol(v) \in DOMAIN ds' => Vol(v) \in DOMAIN ds
<1>1. v \in Volumes
  BY DEF Types
<1>2. SUFFICES ASSUME Vol(v) \in DOMAIN ds', Vol(v) \notin DOMAIN ds PROVE FALSE
  OBVIOUS
<1>3. PICK q \in Requests : Creates(q, v) /\ Running(q)
  BY <1>1, <1>2, VolumeSteps
<1>4. CASE VolumeUnwanted(v)
  BY <1>1, <1>3, <1>4 DEF VolumeUnwanted, Control, UnwantedIsSettled, Running, Unfinished
<1>5. CASE ~ VolumeUnwanted(v)
  <2>1. OwnsVolume(v)
    BY <1>5 DEF OwnsVolume, VolumeUnwanted, Deletes
  <2>2. QED
    BY <1>1, <1>2, <2>1, OwnedVolumesAreUsable DEF AckedVolumesAreUsable
<1>6. QED
  BY <1>4, <1>5

\* What a call copies is a volume.
LEMMA CopiedVolume ==
  ASSUME Types, Control, NEW r \in Requests, CopiesVolume(call[r]), Sent(r)
  PROVE  \E v \in DOMAIN promised : From(call[r]) = Vol(v)
<1>1. call \in Plans /\ SourceWasMade(r)
  BY DEF Types, Control
<1>2. CASE Is(r, "CreateSnapshot")
  <2>1. From(call[r]) = Vol(call[r].volume) /\ call[r].method = "CreateSnapshot"
    BY <1>1, <1>2, DestIs DEF Is
  <2>2. QED
    BY <1>1, <2>1 DEF SourceWasMade
<1>3. CASE Is(r, "CreateVolume") /\ call[r].source[1] = "volume"
  <2>1. From(call[r]) = Vol(call[r].source[2]) /\ call[r].method = "CreateVolume"
    BY <1>1, <1>3, DestIs DEF Is
  <2>2. QED
    BY <1>1, <1>3, <2>1 DEF SourceWasMade
<1>4. QED
  BY <1>2, <1>3 DEF CopiesVolume, Is

\* The source of a copy is not destroyed and made anew with older data.
LEMMA SourceGrowsStays ==
  ASSUME Types, Control, VolumesAreSound, DataBounded, [Next]_vars, NEW r \in Requests,
         SourceGrows(r)
  PROVE  SourceGrows(r)'
<1>1. /\ call' = call
      /\ Sent(r) => since'[r] = since[r]
  BY ForwardIs DEF Forward
<1>2. SUFFICES ASSUME Sent(r)', CopiesVolume(call[r]), From(call[r]) \in DOMAIN ds'
               PROVE  ds'[From(call[r])].content >= since'[r]
  BY <1>1 DEF SourceGrows
<1>3. CASE Sent(r)
  <2>1. PICK v \in DOMAIN promised : From(call[r]) = Vol(v)
    BY <1>2, <1>3, CopiedVolume
  <2>2. From(call[r]) \in DOMAIN ds
    BY <1>2, <2>1, PromisedIsNotMade
  <2>3. ds[From(call[r])].content >= since[r]
    BY <1>2, <1>3, <2>2 DEF SourceGrows
  <2>4. /\ ds'[From(call[r])].content >= ds[From(call[r])].content
    BY <1>2, <2>2, ContentSteps
  <2>5. /\ since[r] \in Nat /\ ds[From(call[r])].content \in Nat
        /\ ds'[From(call[r])].content \in Nat
    BY <1>2, <2>2, TypesStay, OptionsAssumption DEF Types, Dataset
  <2>6. QED
    BY <1>1, <1>3, <2>3, <2>4, <2>5
<1>4. CASE ~ Sent(r)
  <2>1. pc[r] = "idle" /\ pc'[r] # "idle"
    BY <1>2, <1>4 DEF Sent
  <2>2. Start(r)
    BY <2>1, PlacesOfNext DEF Running
  <2>3. since' = [since EXCEPT ![r] = ds[From(call[r])].content] /\ ds' = ds
    BY <1>2, <1>4, <2>2, StartIs DEF pool
  <2>4. since'[r] = ds'[From(call[r])].content
    BY <2>3 DEF Types
  <2>5. ds'[From(call[r])].content \in Nat
    BY <1>2, TypesStay, OptionsAssumption DEF Types, Dataset
  <2>6. QED
    BY <2>4, <2>5
<1>5. QED
  BY <1>3, <1>4

\* What was sent stays sent, and what was captured stays so.
LEMMA WitnessesStay ==
  ASSUME Types, [Next]_vars
  PROVE  /\ call' = call /\ call \in Plans
         /\ \A r \in Requests : Sent(r) => Sent(r)' /\ since'[r] = since[r]
         /\ \A sid \in DOMAIN captured : sid \in DOMAIN captured' /\ captured'[sid] = captured[sid]
BY ForwardIs DEF Forward, Types

\* A detached snapshot keeps its witness, or is received from one that has it.
LEMMA DetachedDataStays ==
  ASSUME Types, Data, [Next]_vars, NEW v \in Volumes, NEW s \in SnapshotNames
  PROVE  DetachedData(v, s)'
<1> DEFINE sid == <<"detached", v, s>>
<1>1. SUFFICES ASSUME Det(v, s) \in DOMAIN ds'
               PROVE  \E r \in Requests : /\ Takes(r, sid) /\ Sent(r)'
                                          /\ ds'[Det(v, s)].content >= since'[r]
  BY WitnessesStay, CallsStay DEF DetachedData
<1>2. CASE Det(v, s) \in DOMAIN ds
  <2>1. ds'[Det(v, s)].content = ds[Det(v, s)].content
    BY <1>1, <1>2, DetachedSteps
  <2>2. PICK r \in Requests : /\ Takes(r, sid) /\ Sent(r)
                              /\ ds[Det(v, s)].content >= since[r]
    BY <1>2 DEF Data, DetachedData
  <2>3. QED
    BY <2>1, <2>2, WitnessesStay
<1>3. CASE Det(v, s) \notin DOMAIN ds
  <2>1. PICK r \in Requests :
           /\ DoesReceive(r)
           /\ ds'[Det(v, s)].content = snap[CopyFrom(call[r])].content
           /\ CopyFrom(call[r]) = <<Vol(v), <<"for-snapshot", s>>>>
    BY <1>1, <1>3, DetachedSteps
  <2>2. CopyFrom(call[r]) \in DOMAIN snap
    BY <2>1 DEF DoesReceive
  <2>3. TemporaryData(CopyFrom(call[r]))
    BY <2>2 DEF Data
  <2>4. PICK q \in Requests : /\ Takes(q, sid) /\ Sent(q)
                              /\ snap[CopyFrom(call[r])].content >= since[q]
    BY <2>1, <2>3 DEF TemporaryData
  <2>5. QED
    BY <2>1, <2>4, WitnessesStay
<1>4. QED
  BY <1>2, <1>3

\* A snapshot that is about to be acknowledged is there.
LEMMA RepliedSnapshotIs ==
  ASSUME Types, Control, SnapshotsAreSound, NEW q \in Requests, NEW v \in Volumes,
         NEW s \in SnapshotNames,
         pc[q] = "reply"
  PROVE  /\ Takes(q, <<"snapshot", v, s>>) =>
              <<Vol(v), <<"csi", s>>>> \in DOMAIN snap /\ snap[<<Vol(v), <<"csi", s>>>>].managed
         /\ Takes(q, <<"detached", v, s>>) => Det(v, s) \in DOMAIN ds
<1>1. call \in Plans /\ Unfinished(q) /\ SnapshotStands(q)
  BY DEF Types, Unfinished, SnapshotsAreSound
<1>2. \A sid \in SnapshotIds : Takes(q, sid) => ~ SnapshotUnwanted(sid)
  BY <1>1 DEF Control, UnwantedIsSettled, SnapshotUnwanted
<1>3. <<"snapshot", v, s>> \in SnapshotIds /\ <<"detached", v, s>> \in SnapshotIds
  BY DEF SnapshotIds
<1>4. ASSUME Takes(q, <<"snapshot", v, s>>)
      PROVE  <<Vol(v), <<"csi", s>>>> \in DOMAIN snap /\ snap[<<Vol(v), <<"csi", s>>>>].managed
  <2>1. /\ call[q].method = "CreateSnapshot" /\ ~ call[q].detached
        /\ SnapOf(IdOf(call[q])) = <<Vol(v), <<"csi", s>>>> /\ IdOf(call[q]) = <<"snapshot", v, s>>
    BY <1>1, <1>4, TakesIs DEF Is, Takes
  <2>2. ~ SnapshotUnwanted(IdOf(call[q]))
    BY <1>2, <1>3, <1>4, <2>1
  <2>3. QED
    BY <1>1, <2>1, <2>2 DEF SnapshotStands
<1>5. ASSUME Takes(q, <<"detached", v, s>>)
      PROVE  Det(v, s) \in DOMAIN ds
  <2>1. /\ call[q].method = "CreateSnapshot" /\ call[q].detached
        /\ call[q].volume = v /\ call[q].name = s /\ IdOf(call[q]) = <<"detached", v, s>>
    BY <1>1, <1>5, TakesIs DEF Is, Takes
  <2>2. ~ SnapshotUnwanted(IdOf(call[q]))
    BY <1>2, <1>3, <1>5, <2>1
  <2>3. QED
    BY <1>1, <2>1, <2>2 DEF SnapshotStands
<1>6. QED
  BY <1>4, <1>5

\* What is captured at a reply is of after the request.
LEMMA SnapshotsStayFresh ==
  ASSUME Types, Control, SnapshotsAreSound, Data, [Next]_vars
  PROVE  SnapshotsAreFresh'
<1>1. SUFFICES ASSUME NEW sid \in DOMAIN captured'
               PROVE  \E r \in Requests : Takes(r, sid) /\ Sent(r)' /\ captured'[sid] >= since'[r]
  BY WitnessesStay, CallsStay DEF SnapshotsAreFresh, Takes
<1>2. CASE sid \in DOMAIN captured /\ captured'[sid] = captured[sid]
  <2>1. PICK r \in Requests : Takes(r, sid) /\ Sent(r) /\ captured[sid] >= since[r]
    BY <1>2 DEF Data, SnapshotsAreFresh, Takes
  <2>2. QED
    BY <1>2, <2>1, WitnessesStay
<1>3. CASE \E q \in Requests :
              /\ Takes(q, sid) /\ pc[q] = "reply"
              /\ sid \in SnapshotIds /\ captured'[sid] = DataOf(sid)
  <2>1. PICK q \in Requests :
              /\ Takes(q, sid) /\ pc[q] = "reply"
              /\ sid \in SnapshotIds /\ captured'[sid] = DataOf(sid)
    BY <1>3
  <2>2. PICK v \in Volumes, s \in SnapshotNames :
           /\ sid[2] = v /\ sid[3] = s
           /\ \/ sid = <<"snapshot", v, s>> /\ sid[1] = "snapshot"
              \/ sid = <<"detached", v, s>> /\ sid[1] = "detached"
    BY <2>1, IdsAre
  <2>3. CASE sid = <<"snapshot", v, s>> /\ sid[1] = "snapshot"
    <3> DEFINE k == <<Vol(v), <<"csi", s>>>>
    <3>1. k \in DOMAIN snap /\ snap[k].managed
      BY <2>1, <2>3, RepliedSnapshotIs
    <3>2. CsiSnapshot(v, s)
      BY DEF SnapshotsAreSound
    <3>3. PICK r \in Requests : Takes(r, sid) /\ Sent(r) /\ snap[k].content >= since[r]
      BY <2>3, <3>1, <3>2 DEF CsiSnapshot
    <3>4. DataOf(sid) = snap[k].content
      BY <2>2, <2>3 DEF DataOf, SnapOf
    <3>5. QED
      BY <2>1, <3>3, <3>4, WitnessesStay
  <2>4. CASE sid = <<"detached", v, s>> /\ sid[1] = "detached"
    <3>1. Det(v, s) \in DOMAIN ds
      BY <2>1, <2>4, RepliedSnapshotIs
    <3>2. PICK r \in Requests : Takes(r, sid) /\ Sent(r) /\ ds[Det(v, s)].content >= since[r]
      BY <2>4, <3>1 DEF Data, DetachedData
    <3>3. DataOf(sid) = ds[Det(v, s)].content
      BY <2>2, <2>4 DEF DataOf
    <3>4. QED
      BY <2>1, <3>2, <3>3, WitnessesStay
  <2>5. QED
    BY <2>2, <2>3, <2>4
<1>4. QED
  BY <1>2, <1>3, CaptureSteps

\* What a volume that is not written holds.
LEMMA VolumeDataStays ==
  ASSUME Types, Control, PoolIsSound, SnapshotsAreSound, Data, [Next]_vars, NEW r \in Requests
  PROVE  VolumeData(r)'
<1>1. call' = call /\ call \in Plans
  BY WitnessesStay
<1>2. SUFFICES ASSUME NEW v \in Volumes, Creates(r, v), v \notin Writable, Vol(v) \in DOMAIN ds'
               PROVE  LET c == call[r] IN
                      /\ c.source \in SnapshotIds =>
                           /\ c.source \in DOMAIN captured'
                           /\ ds'[Vol(v)].content = captured'[c.source]
                      /\ c.source[1] = "volume" => \E q \in Requests :
                            call[q] = c /\ Sent(q)' /\ ds'[Vol(v)].content >= since'[q]
  <2>1. SUFFICES ASSUME Is(r, "CreateVolume"), VolumeId(call[r]) \notin Writable,
                        Dest(call[r]) \in DOMAIN ds'
                 PROVE  LET c == call[r] IN
                        /\ c.source \in SnapshotIds => /\ c.source \in DOMAIN captured'
                                                       /\ ds'[Dest(c)].content = captured'[c.source]
                        /\ c.source[1] = "volume" => \E q \in Requests :
                              call[q] = c /\ Sent(q)' /\ ds'[Dest(c)].content >= since'[q]
    BY <1>1 DEF VolumeData, Is
  <2>2. /\ VolumeId(call[r]) \in Volumes /\ Creates(r, VolumeId(call[r]))
        /\ Dest(call[r]) = Vol(VolumeId(call[r]))
    BY <1>1, <2>1, CallsAre, DestIsNamed DEF Creates
  <2>3. QED
    BY <1>2, <2>1, <2>2
<1>3. VolumeId(call[r]) = v /\ Dest(call[r]) = Vol(v) /\ call[r].method = "CreateVolume"
  BY <1>1, <1>2, DestIs DEF Creates, Is
<1>4. /\ Tag(call[r]) = IF call[r].source[1] = "snapshot" THEN <<"csi", call[r].source[3]>>
                         ELSE <<"for-volume", v>>
      /\ From(call[r]) = IF call[r].source[1] = "detached"
                           THEN Det(call[r].source[2], call[r].source[3])
                         ELSE Vol(call[r].source[2])
  BY <1>1, <1>3, DestIs
<1>5. CASE Vol(v) \in DOMAIN ds
  <2>1. ds'[Vol(v)].content = ds[Vol(v)].content
    BY <1>2, <1>5, ContentSteps, NamesDiffer DEF Data
  <2>2. VolumeData(r)
    BY DEF Data
  <2>3. /\ call[r].source \in SnapshotIds =>
             /\ call[r].source \in DOMAIN captured
             /\ ds[Vol(v)].content = captured[call[r].source]
        /\ call[r].source[1] = "volume" => \E q \in Requests :
              call[q] = call[r] /\ Sent(q) /\ ds[Vol(v)].content >= since[q]
    BY <1>2, <1>3, <1>5, <2>2 DEF VolumeData
  <2>4. QED
    BY <2>1, <2>3, WitnessesStay
<1>6. CASE Vol(v) \notin DOMAIN ds
  <2>1. PICK q \in Requests :
           \/ DoesCreate(q) /\ Vol(v) = Dest(call[q])
           \/ DoesCreateContainer(q) /\ Vol(v) = Con(call[q].volume)
           \/ /\ DoesClone(q) \/ DoesReceive(q)
              /\ Vol(v) = Dest(call[q]) /\ CopyFrom(call[q]) \in DOMAIN snap
              /\ ds'[Vol(v)].content = snap[CopyFrom(call[q])].content
    BY <1>2, <1>6, NewContents
  <2>2. Creates(q, v) /\ Running(q) /\ (DoesCreate(q) \/ Copies(call[q]))
    <3>1. ~ DoesCreateContainer(q) \/ Vol(v) # Con(call[q].volume)
      BY NamesDiffer
    <3>2. Vol(v) = Dest(call[q]) => Creates(q, v) \/ Deletes(q, v) \/ Expands(q, v)
      BY WhoseVolume
    <3>3. /\ DoesCreate(q) => Running(q) /\ Is(q, "CreateVolume")
          /\ DoesClone(q) => Running(q) /\ Is(q, "CreateVolume") /\ Copies(call[q])
          /\ DoesReceive(q) => Running(q) /\ pc[q] = "receive"
      BY DEF DoesCreate, DoesClone, DoesReceive, Goes, Cloned
    <3>4. pc[q] = "receive" => (Is(q, "CreateVolume") /\ Copies(call[q])) \/ Is(q, "CreateSnapshot")
      BY CopyIsNamed
    <3>5. QED
      BY <2>1, <3>1, <3>2, <3>3, <3>4 DEF Creates, Deletes, Expands, Is
  <2>3. /\ \A sid \in SnapshotIds : sid[1] \in {"snapshot", "detached"}
        /\ Copies(call[q]) <=> Copies(call[r])
        /\ Copies(call[r]) => call[q] = call[r] /\ call[r].source[2] # v
    BY <1>1, <1>2, <2>2, IdsAre, CreatorsAgree, CallsAreWellFormed
  <2>4. CASE ~ Copies(call[r])
    BY <2>3, <2>4 DEF Copies
  <2>5. CASE Copies(call[r])
    <3> DEFINE k == CopyFrom(call[r])
    <3>1. call[q] = call[r] /\ k \in DOMAIN snap /\ ds'[Vol(v)].content = snap[k].content
      <4>1. ~ DoesCreate(q)
        BY <2>3, <2>5 DEF DoesCreate
      <4>2. QED
        BY <2>1, <2>3, <2>5, <4>1, NamesDiffer
    <3>2. k = <<From(call[r]), Tag(call[r])>> /\ TemporaryData(k)
      BY <3>1 DEF Data, CopyFrom
    <3>3. CASE \E u \in Volumes : call[r].source = <<"volume", u>> /\ call[r].source[1] = "volume"
                                 /\ call[r].source[2] = u
      <4>1. PICK u \in Volumes : call[r].source = <<"volume", u>> /\ call[r].source[1] = "volume"
                                 /\ call[r].source[2] = u
        BY <3>3
      <4>2. From(call[r]) = Vol(u) /\ Tag(call[r]) = <<"for-volume", v>>
        BY <1>4, <4>1
      <4>3. k = <<Vol(u), <<"for-volume", v>>>> /\ u # v
        BY <2>3, <2>5, <3>2, <4>1, <4>2
      <4>4. PICK p \in Requests : Creates(p, v) /\ Sent(p) /\ snap[k].content >= since[p]
        BY <1>2, <3>2, <4>3 DEF TemporaryData
      <4>5. call[p] = call[r]
        BY <1>1, <1>2, <2>5, <4>4, CreatorsAgree
      <4>6. QED
        BY <2>3, <3>1, <4>1, <4>4, <4>5, WitnessesStay
    <3>4. CASE \E u \in Volumes, s \in SnapshotNames :
                 /\ call[r].source \in {<<"snapshot", u, s>>, <<"detached", u, s>>}
                 /\ call[r].source \in SnapshotIds /\ call[r].source[2] = u /\ call[r].source[3] = s
      <4>1. PICK u \in Volumes, s \in SnapshotNames :
                 /\ call[r].source \in {<<"snapshot", u, s>>, <<"detached", u, s>>}
                 /\ call[r].source \in SnapshotIds /\ call[r].source[2] = u /\ call[r].source[3] = s
        BY <3>4
      <4>2. call[r].source \in DOMAIN captured
        <5>1. SourceWasMade(q) /\ Sent(q)
          BY <2>2 DEF Control, Running, Sent
        <5>2. QED
          BY <1>3, <2>3, <3>1, <4>1, <5>1 DEF SourceWasMade
      <4>3. snap[k].content = captured[call[r].source]
        <5>1. CASE call[r].source = <<"snapshot", u, s>>
          <6>1. From(call[r]) = Vol(u) /\ Tag(call[r]) = <<"csi", s>>
            <7>1. call[r].source[1] = "snapshot"
              BY <5>1
            <7>2. QED
              BY <1>4, <4>1, <7>1
          <6>2. SnapOf(call[r].source) = k
            BY <3>2, <4>1, <6>1 DEF SnapOf
          <6>3. Exists(call[r].source) /\ DataOf(call[r].source) = snap[k].content
            BY <3>1, <5>1, <6>2 DEF Exists, DataOf
          <6>4. QED
            BY <4>2, <6>3 DEF SnapshotsAreSound, CaptureIsKept
        <5>2. CASE call[r].source = <<"detached", u, s>>
          <6>1. From(call[r]) = Det(u, s) /\ Tag(call[r]) = <<"for-volume", v>>
            <7>1. call[r].source[1] = "detached"
              BY <5>2
            <7>2. QED
              BY <1>4, <4>1, <7>1
          <6>2. k = <<Det(u, s), <<"for-volume", v>>>>
            BY <3>2, <6>1
          <6>3. QED
            BY <3>2, <5>2, <6>2 DEF TemporaryData
        <5>3. QED
          BY <4>1, <5>1, <5>2
      <4>4. QED
        BY <2>3, <3>1, <4>1, <4>2, <4>3, WitnessesStay
    <3>5. QED
      BY <1>1, <2>5, <3>3, <3>4, SourcesAre DEF Copies
  <2>6. QED
    BY <2>4, <2>5
<1>7. QED
  BY <1>5, <1>6

\* Where a temporary snapshot comes from.
LEMMA NewTemporary ==
  ASSUME Types, [Next]_vars, NEW k \in DOMAIN snap', k \notin DOMAIN snap, k[2][1] # "csi"
  PROVE  \E r \in Requests :
           /\ Running(r)
           /\ \/ /\ k = CopyFrom(call[r]) /\ From(call[r]) \in DOMAIN ds /\ DoesTakeTemporary(r)
                 /\ snap'[k].content = ds[From(call[r])].content
                 /\ ~ snap'[k].managed /\ ~ snap'[k].defer
              \/ /\ k = <<Dest(call[r]), Tag(call[r])>> /\ DoesReceive(r) /\ ~ snap'[k].managed
                 /\ ~ snap'[k].defer
                 /\ Is(r, "CreateVolume") \/ Is(r, "CreateSnapshot")
<1>1. PICK r \in Requests :
           \/ /\ DoesTakeTemporary(r) /\ k = CopyFrom(call[r]) /\ k[1] \in DOMAIN ds
              /\ snap'[k] = [content |-> ds[k[1]].content, size |-> ds[k[1]].size,
                             managed |-> FALSE, defer |-> FALSE]
           \/ DoesTakeSnapshot(r) /\ k = SnapOf(IdOf(call[r]))
           \/ /\ DoesReceive(r) /\ k = <<Dest(call[r]), Tag(call[r])>>
              /\ snap'[k] = [snap[CopyFrom(call[r])] EXCEPT !.managed = FALSE, !.defer = FALSE]
  BY NewSnapshots
<1>2. ~ (DoesTakeSnapshot(r) /\ k = SnapOf(IdOf(call[r])))
  BY DEF SnapOf
<1>3. CASE /\ DoesTakeTemporary(r) /\ k = CopyFrom(call[r]) /\ k[1] \in DOMAIN ds
           /\ snap'[k] = [content |-> ds[k[1]].content, size |-> ds[k[1]].size,
                          managed |-> FALSE, defer |-> FALSE]
  <2>1. k[1] = From(call[r])
    BY <1>3 DEF CopyFrom
  <2>2. Running(r)
    BY <1>3 DEF DoesTakeTemporary, Goes
  <2>3. QED
    BY <1>3, <2>1, <2>2
<1>4. CASE /\ DoesReceive(r) /\ k = <<Dest(call[r]), Tag(call[r])>>
           /\ snap'[k] = [snap[CopyFrom(call[r])] EXCEPT !.managed = FALSE, !.defer = FALSE]
  <2>1. Running(r) /\ pc[r] = "receive" /\ snap[CopyFrom(call[r])] \in Snapshotted
    BY <1>4 DEF DoesReceive, Types
  <2>2. ~ snap'[k].managed /\ ~ snap'[k].defer
    BY <1>4, <2>1 DEF Snapshotted
  <2>3. QED
    BY <1>4, <2>1, <2>2, CopyIsNamed
<1>5. QED
  BY <1>1, <1>2, <1>3, <1>4

\* A temporary snapshot has the data of its dataset when it is taken, and keeps it.
LEMMA TemporaryDataStays ==
  ASSUME Types, Control, PoolIsSound, SnapshotsAreSound, Data, [Next]_vars, NEW k \in DOMAIN snap'
  PROVE  TemporaryData(k)'
<1>1. call' = call /\ call \in Plans
  BY WitnessesStay
<1>2. CASE k \in DOMAIN snap
  <2>1. snap'[k].content = snap[k].content
    BY <1>2, KeptSnapshots
  <2>2. TemporaryData(k)
    BY <1>2 DEF Data
  <2>3. ASSUME NEW u \in Volumes, NEW v \in Volumes, k = <<Vol(u), <<"for-volume", v>>>>, u # v
        PROVE  \E q \in Requests : /\ Creates(q, v) /\ call[q].source = <<"volume", u>>
                                   /\ Sent(q)' /\ snap'[k].content >= since'[q]
    <3>1. PICK q \in Requests : /\ Creates(q, v) /\ call[q].source = <<"volume", u>>
                                /\ Sent(q) /\ snap[k].content >= since[q]
      BY <2>2, <2>3 DEF TemporaryData
    <3>2. QED
      BY <2>1, <3>1, WitnessesStay
  <2>4. ASSUME NEW u \in Volumes, NEW v \in Volumes, NEW s \in SnapshotNames,
               k = <<Det(u, s), <<"for-volume", v>>>>
        PROVE  /\ <<"detached", u, s>> \in DOMAIN captured'
               /\ snap'[k].content = captured'[<<"detached", u, s>>]
    BY <2>1, <2>2, <2>4, WitnessesStay DEF TemporaryData
  <2>5. ASSUME NEW v \in Volumes, NEW s \in SnapshotNames, k = <<Vol(v), <<"for-snapshot", s>>>>
        PROVE  \E r \in Requests : /\ Takes(r, <<"detached", v, s>>) /\ Sent(r)'
                                   /\ snap'[k].content >= since'[r]
    <3>1. PICK r \in Requests : /\ Takes(r, <<"detached", v, s>>) /\ Sent(r)
                                /\ snap[k].content >= since[r]
      BY <2>2, <2>5 DEF TemporaryData
    <3>2. QED
      BY <2>1, <3>1, WitnessesStay
  <2>6. QED
    BY <1>1, <2>3, <2>4, <2>5, CallsStay DEF TemporaryData
<1>3. ASSUME k \notin DOMAIN snap, k[2][1] # "csi"
      PROVE  TemporaryData(k)'
  <2>1. PICK r \in Requests :
           /\ Running(r)
           /\ \/ /\ k = CopyFrom(call[r]) /\ From(call[r]) \in DOMAIN ds /\ DoesTakeTemporary(r)
                 /\ snap'[k].content = ds[From(call[r])].content
              \/ /\ k = <<Dest(call[r]), Tag(call[r])>> /\ DoesReceive(r)
                 /\ Is(r, "CreateVolume") \/ Is(r, "CreateSnapshot")
    BY <1>3, NewTemporary
  <2>2. Sent(r) /\ Sent(r)' /\ since'[r] = since[r]
    BY <2>1, WitnessesStay DEF Running, Sent
  <2>3. CASE /\ k = CopyFrom(call[r]) /\ From(call[r]) \in DOMAIN ds /\ DoesTakeTemporary(r)
             /\ snap'[k].content = ds[From(call[r])].content
    <3>1. /\ pc[r] = "tmp" /\ k = <<From(call[r]), Tag(call[r])>>
          /\ \/ call[r].method = "CreateVolume" /\ call[r].source[1] \in {"volume", "detached"}
             \/ call[r].method = "CreateSnapshot" /\ call[r].detached
      BY <2>3 DEF DoesTakeTemporary, Goes, Types, InItsPlace, CopyFrom
    <3>2. CopiesVolume(call[r]) => snap'[k].content >= since'[r]
      BY <2>2, <2>3 DEF Data, SourceGrows
    <3>3. CASE call[r].method = "CreateVolume"
      <4>1. Tag(call[r]) = <<"for-volume", VolumeId(call[r])>> /\ VolumeId(call[r]) \in Volumes
        BY <1>1, <3>1, <3>3, DestIs, CallsAre
      <4>2. From(call[r]) = IF call[r].source[1] = "detached"
                              THEN Det(call[r].source[2], call[r].source[3])
                            ELSE Vol(call[r].source[2])
        BY <1>1, <3>3, DestIs
      <4>3. CASE \E u \in Volumes : /\ call[r].source = <<"volume", u>>
                                    /\ call[r].source[1] = "volume" /\ call[r].source[2] = u
        <5>1. PICK u \in Volumes : /\ call[r].source = <<"volume", u>>
                                   /\ call[r].source[1] = "volume" /\ call[r].source[2] = u
          BY <4>3
        <5>2. k = <<Vol(u), <<"for-volume", VolumeId(call[r])>>>>
          BY <3>1, <4>1, <4>2, <5>1
        <5>3. Creates(r, VolumeId(call[r])) /\ CopiesVolume(call[r])
          BY <3>3, <5>1 DEF Creates, Is, CopiesVolume
        <5>4. /\ \A x, y \in Volumes : k = <<Vol(x), <<"for-volume", y>>>> =>
                    x = u /\ y = VolumeId(call[r])
              /\ \A x, y \in Volumes, s \in SnapshotNames : k # <<Det(x, s), <<"for-volume", y>>>>
              /\ \A x \in Volumes, s \in SnapshotNames : k # <<Vol(x), <<"for-snapshot", s>>>>
          BY <5>2, NamesDiffer
        <5>5. QED
          BY <1>1, <2>2, <3>2, <5>1, <5>3, <5>4, CallsStay DEF TemporaryData
      <4>4. CASE \E u \in Volumes, s \in SnapshotNames :
                    /\ call[r].source = <<"detached", u, s>> /\ call[r].source[1] = "detached"
                    /\ call[r].source \in SnapshotIds
                    /\ call[r].source[2] = u /\ call[r].source[3] = s
        <5>1. PICK u \in Volumes, s \in SnapshotNames :
                    /\ call[r].source = <<"detached", u, s>> /\ call[r].source[1] = "detached"
                    /\ call[r].source \in SnapshotIds
                    /\ call[r].source[2] = u /\ call[r].source[3] = s
          BY <4>4
        <5>2. k = <<Det(u, s), <<"for-volume", VolumeId(call[r])>>>> /\ From(call[r]) = Det(u, s)
          BY <3>1, <4>1, <4>2, <5>1
        <5>3. call[r].source \in DOMAIN captured
          <6>1. SourceWasMade(r)
            BY DEF Control
          <6>2. QED
            BY <2>2, <3>3, <5>1, <6>1 DEF SourceWasMade
        <5>4. Exists(call[r].source) /\ DataOf(call[r].source) = ds[Det(u, s)].content
          BY <2>3, <5>1, <5>2 DEF Exists, DataOf
        <5>5. snap'[k].content = captured[<<"detached", u, s>>]
          BY <2>3, <5>1, <5>2, <5>3, <5>4 DEF SnapshotsAreSound, CaptureIsKept
        <5>6. /\ \A x, y \in Volumes : k # <<Vol(x), <<"for-volume", y>>>>
              /\ \A x, y \in Volumes, t \in SnapshotNames : k = <<Det(x, t), <<"for-volume", y>>>>
                    => x = u /\ t = s
              /\ \A x \in Volumes, t \in SnapshotNames : k # <<Vol(x), <<"for-snapshot", t>>>>
          BY <5>2, NamesDiffer
        <5>7. QED
          BY <5>1, <5>3, <5>5, <5>6, WitnessesStay DEF TemporaryData
      <4>5. QED
        BY <1>1, <3>1, <3>3, <4>3, <4>4, SourcesAre
    <3>4. CASE call[r].method = "CreateSnapshot" /\ call[r].detached
      <4>1. PICK v \in Volumes, s \in SnapshotNames : call[r].volume = v /\ call[r].name = s
        BY <1>1, <3>4, CallsAre
      <4>2. /\ k = <<Vol(v), <<"for-snapshot", s>>>> /\ IdOf(call[r]) = <<"detached", v, s>>
        BY <1>1, <3>1, <3>4, <4>1, DestIs DEF IdOf
      <4>3. Takes(r, <<"detached", v, s>>) /\ CopiesVolume(call[r])
        BY <3>4, <4>2 DEF Takes, Is, CopiesVolume
      <4>4. /\ \A x, y \in Volumes : k # <<Vol(x), <<"for-volume", y>>>>
            /\ \A x, y \in Volumes, t \in SnapshotNames : k # <<Det(x, t), <<"for-volume", y>>>>
            /\ \A x \in Volumes, t \in SnapshotNames : k = <<Vol(x), <<"for-snapshot", t>>>>
                    => x = v /\ t = s
        BY <4>2, NamesDiffer
      <4>5. QED
        BY <1>1, <2>2, <3>2, <4>3, <4>4, CallsStay DEF TemporaryData
    <3>5. QED
      BY <3>1, <3>3, <3>4
  <2>4. CASE k = <<Dest(call[r]), Tag(call[r])>> /\ Is(r, "CreateVolume")
    <3>1. Dest(call[r]) = Vol(VolumeId(call[r]))
      BY <1>1, <2>4, DestIsNamed
    <3>2. Tag(call[r])[1] = "csi" \/ Tag(call[r]) = <<"for-volume", VolumeId(call[r])>>
      <4>1. Tag(call[r]) = IF call[r].source[1] = "snapshot" THEN <<"csi", call[r].source[3]>>
                           ELSE <<"for-volume", VolumeId(call[r])>>
        BY <1>1, <2>4, DestIs DEF Is
      <4>2. QED
        BY <4>1
    <3>3. k = <<Vol(VolumeId(call[r])), <<"for-volume", VolumeId(call[r])>>>>
      BY <1>3, <2>4, <3>1, <3>2
    <3>4. /\ \A x, y \in Volumes : k = <<Vol(x), <<"for-volume", y>>>> => x = y
          /\ \A x, y \in Volumes, t \in SnapshotNames : k # <<Det(x, t), <<"for-volume", y>>>>
          /\ \A x \in Volumes, t \in SnapshotNames : k # <<Vol(x), <<"for-snapshot", t>>>>
      BY <3>3, NamesDiffer
    <3>5. QED
      BY <3>4 DEF TemporaryData
  <2>5. CASE k = <<Dest(call[r]), Tag(call[r])>> /\ Is(r, "CreateSnapshot")
    <3>1. /\ Dest(call[r]) = Det(call[r].volume, call[r].name)
          /\ Tag(call[r]) = <<"for-snapshot", call[r].name>>
      BY <1>1, <2>5, DestIs DEF Is
    <3>2. k = <<Det(call[r].volume, call[r].name), <<"for-snapshot", call[r].name>>>>
      BY <2>5, <3>1
    <3>3. /\ \A x, y \in Volumes : k # <<Vol(x), <<"for-volume", y>>>>
          /\ \A x, y \in Volumes, t \in SnapshotNames : k # <<Det(x, t), <<"for-volume", y>>>>
          /\ \A x \in Volumes, t \in SnapshotNames : k # <<Vol(x), <<"for-snapshot", t>>>>
      BY <3>2, NamesDiffer
    <3>4. QED
      BY <3>3 DEF TemporaryData
  <2>6. QED
    BY <2>1, <2>3, <2>4, <2>5
<1>4. CASE k[2][1] = "csi"
  <2>1. /\ \A x, y \in Volumes : k # <<Vol(x), <<"for-volume", y>>>>
        /\ \A x, y \in Volumes, t \in SnapshotNames : k # <<Det(x, t), <<"for-volume", y>>>>
        /\ \A x \in Volumes, t \in SnapshotNames : k # <<Vol(x), <<"for-snapshot", t>>>>
    BY <1>4
  <2>2. QED
    BY <2>1 DEF TemporaryData
<1>5. QED
  BY <1>2, <1>3, <1>4

\* All that is said of data is kept by every step.
LEMMA DataStays ==
  ASSUME Types, Control, PoolIsSound, VolumesAreSound, SnapshotsAreSound, Data, [Next]_vars
  PROVE  Data'
<1>1. ASSUME NEW r \in Requests PROVE SourceGrows(r)' /\ VolumeData(r)'
  BY SourceGrowsStays, VolumeDataStays DEF Data
<1>2. DataBounded' /\ SnapshotsAreFresh'
  BY DataStaysBounded, SnapshotsStayFresh DEF Data
<1>3. QED
  BY <1>1, <1>2, DetachedDataStays, TemporaryDataStays DEF Data

\* Copies are faithful, as the invariant of the data says.
LEMMA DataIsFaithful ==
  ASSUME Types, Control, VolumesAreSound, Data
  PROVE  CopiesAreFaithful
<1>1. call \in Plans
  BY DEF Types
<1>2. ASSUME NEW r \in Requests, Is(r, "CreateVolume"), OwnsVolume(VolumeId(call[r])),
             VolumeId(call[r]) \notin Writable
      PROVE  LET c == call[r] IN
             /\ c.source \in SnapshotIds => ds[Dest(c)].content = captured[c.source]
             /\ c.source[1] = "volume" =>
                  \E q \in Requests : call[q] = c /\ Sent(q) /\ ds[Dest(c)].content >= since[q]
  <2>1. Dest(call[r]) = Vol(VolumeId(call[r])) /\ VolumeId(call[r]) \in Volumes
    BY <1>1, <1>2, DestIsNamed, CallsAre
  <2>2. Dest(call[r]) \in DOMAIN ds
    BY <1>2, <2>1, OwnedVolumesAreUsable DEF AckedVolumesAreUsable
  <2>3. VolumeData(r)
    BY DEF Data
  <2>4. QED
    BY <1>2, <2>2, <2>3 DEF VolumeData, Is
<1>3. QED
  BY <1>2 DEF Data, CopiesAreFaithful, CopiesMatch

----------------------------------------------------------------------------
(* What is left over.                                                      *)

\* Only the volume that a temporary snapshot was taken for is a clone of it.
LEMMA ClonesAre ==
  ASSUME Types, Origins, NEW k \in SnapNames, NEW d \in Clones(k)
  PROVE  /\ \E v \in Volumes, r \in Requests :
              d = Vol(v) /\ Creates(r, v) /\ Cloned(call[r]) /\ k = CopyFrom(call[r])
         /\ \A v \in Volumes : k[2] = <<"for-volume", v>> => d = Vol(v)
         /\ k[2][1] # "for-snapshot"
<1>1. call \in Plans /\ d \in DOMAIN ds /\ ds[d].origin = k /\ OriginIs(d) /\ k # NoOrigin
  BY SnapNamesAre DEF Clones, Origins, Types
<1>2. PICK v \in Volumes : d = Vol(v)
  <2>1. d[1] = "vol" /\ d \in Vols \cup Cons \cup Dets
    BY <1>1 DEF OriginIs, Types
  <2>2. QED
    BY <2>1, NamesAre DEF Vols, Cons, Dets
<1>3. PICK r \in Requests : Creates(r, v)
  BY <1>1, <1>2 DEF OriginIs
<1>4. Cloned(call[r]) /\ k = CopyFrom(call[r])
  BY <1>1, <1>2, <1>3 DEF OriginIs
<1>5. k[2] = IF call[r].source[1] = "snapshot" THEN <<"csi", call[r].source[3]>>
             ELSE <<"for-volume", v>>
  <2>1. VolumeId(call[r]) = v /\ call[r].method = "CreateVolume"
    BY <1>1, <1>3, DestIs DEF Creates, Is
  <2>2. Tag(call[r]) = IF call[r].source[1] = "snapshot" THEN <<"csi", call[r].source[3]>>
                       ELSE <<"for-volume", v>>
    BY <1>1, <2>1, DestIs
  <2>3. k[2] = Tag(call[r])
    BY <1>4 DEF CopyFrom
  <2>4. QED
    BY <2>2, <2>3
<1>6. QED
  BY <1>2, <1>3, <1>4, <1>5

\* When the clone goes so does the temporary snapshot it is a clone of.
LEMMA ClonesStayFor ==
  ASSUME Types, Origins, \A r \in Requests : VolumeGoes(r), [Next]_vars,
         NEW k \in DOMAIN snap, k \in DOMAIN snap', NEW v \in Volumes,
         k[2] = <<"for-volume", v>>, Clones(k) # {}
  PROVE  Clones(k)' # {}
<1>1. k \in SnapNames /\ k # NoOrigin /\ call \in Plans
  BY SnapNamesAre DEF Types
<1>2. Clones(k) = {Vol(v)}
  BY <1>1, ClonesAre
<1>3. Vol(v) \in DOMAIN ds /\ ds[Vol(v)].origin = k
  BY <1>2 DEF Clones
<1>4. CASE Vol(v) \in DOMAIN ds'
  BY <1>2, <1>4, ClonedSnapshotsStay
<1>5. CASE Vol(v) \notin DOMAIN ds'
  <2>1. PICK r \in Requests : Deletes(r, v) /\ DoesDestroyVolume(r)
    BY <1>3, <1>5, VolumeSteps
  <2>2. Dest(call[r]) = Vol(v) /\ call[r].method = "DeleteVolume" /\ call[r].volume = v
    BY <1>1, <2>1, DestIs DEF Deletes, Is
  <2>3. pc[r] = "destroy" /\ VolumeGoes(r)
    BY <2>1 DEF DoesDestroyVolume, Goes
  <2>4. snap[k].defer
    BY <1>1, <1>3, <2>2, <2>3 DEF VolumeGoes
  <2>5. ~ (snap[k].defer /\ Clones(k) = {Dest(call[r])})
    BY <2>1, DestroyIs
  <2>6. QED
    BY <1>2, <2>2, <2>4, <2>5
<1>6. QED
  BY <1>4, <1>5

\* A temporary snapshot is needed till it is cloned or dropped.
LEMMA NeedForVolumeStays ==
  ASSUME Types, Origins, [Next]_vars, NEW k \in DOMAIN snap, k \in DOMAIN snap',
         NEW r \in Requests, NEW v \in Volumes, k[2] = <<"for-volume", v>>, Clones(k) = {},
         NeedsForVolume(r, v, k)
  PROVE  NeedsForVolume(r, v, k)' \/ Clones(k)' # {}
<1> DEFINE c == call[r]
<1>1. call' = call /\ call \in Plans /\ InItsPlace(r)
  BY WitnessesStay DEF Types
<1>2. /\ Creates(r, v) /\ Copies(c)
      /\ k = CopyFrom(c) \/ (c.detached /\ k = <<Vol(v), Tag(c)>>)
      /\ \/ pc[r] \in {"pending", "check", "tmp", "clone", "receive", "props", "strip"}
         \/ pc[r] = "untmp" /\ k[1] # Vol(v)
  BY DEF NeedsForVolume
<1>3. /\ c.method = "CreateVolume" /\ VolumeId(c) = v /\ Dest(c) = Vol(v)
      /\ Is(r, "CreateVolume") /\ ~ Is(r, "CreateSnapshot") /\ First(c) = "check"
  BY <1>1, <1>2, DestIs DEF Creates, Is, First
<1>4. c.source[1] # "snapshot" /\ c.source[1] # "none"
  <2>1. Tag(c) = k[2]
    BY <1>2 DEF CopyFrom
  <2>2. Tag(c) = IF c.source[1] = "snapshot" THEN <<"csi", c.source[3]>>
                 ELSE <<"for-volume", v>>
    BY <1>1, <1>3, DestIs
  <2>3. k[2][1] # "csi"
    OBVIOUS
  <2>4. QED
    BY <1>2, <2>1, <2>2, <2>3 DEF Copies
<1>5. SUFFICES ASSUME ~ (\/ pc'[r] \in {"pending", "check", "tmp", "clone", "receive", "props",
                                        "strip"}
                         \/ pc'[r] = "untmp" /\ k[1] # Vol(v))
               PROVE  Clones(k)' # {}
  BY <1>1, <1>2, CallsStay DEF NeedsForVolume, Copies, CopyFrom, From, Tag, VolumeId
<1>6. Works(r) /\ Running(r) /\ pc'[r] = After(r, pc[r])
  BY <1>2, <1>3, <1>5, PlacesOfNext
<1>7. pc[r] \notin {"pending", "check", "tmp", "receive", "props"}
  <2>1. pc[r] = "check" => pc'[r] = "tmp"
    BY <1>3, <1>4, <1>6 DEF After
  <2>2. pc[r] = "tmp" => pc'[r] \in {"receive", "clone"}
    BY <1>6 DEF After
  <2>3. pc[r] \in {"receive", "props"} => pc'[r] \in {"props", "strip"}
    BY <1>6 DEF After
  <2>4. QED
    BY <1>5, <1>6, <2>1, <2>2, <2>3 DEF Running
<1>8. CASE pc[r] = "clone"
  <2>1. DoesClone(r)
    BY <1>6, <1>8, WorkIs
  <2>2. Cloned(c) /\ Vol(v) \in DOMAIN ds'
    BY <1>3, <2>1 DEF DoesClone, Adds
  <2>3. k = CopyFrom(c)
    BY <1>2, <2>2 DEF Cloned
  <2>4. OriginIs(Vol(v))'
    BY <2>2, OriginsStay DEF Origins
  <2>5. ds'[Vol(v)].origin = CopyFrom(c)
    <3>1. \A q \in Requests : Creates(q, v) => ds'[Vol(v)].origin =
              IF Cloned(call[q]) THEN CopyFrom(call[q]) ELSE NoOrigin
      BY <1>1, <2>4, CallsStay DEF OriginIs, Cloned, Copies, CopyFrom, From, Tag, VolumeId
    <3>2. QED
      BY <1>2, <2>2, <3>1
  <2>6. QED
    BY <2>2, <2>3, <2>5 DEF Clones
<1>9. CASE pc[r] = "strip"
  <2>1. DoesStripSnapshots(r) /\ pc'[r] = "untmp"
    BY <1>3, <1>4, <1>6, <1>9, WorkIs DEF After
  <2>2. Discards(SnapsOf(Vol(v)))
    BY <1>3, <2>1 DEF DoesStripSnapshots
  <2>3. k[1] # Vol(v)
    BY <2>2 DEF Discards, SnapsOf
  <2>4. QED
    BY <1>5, <2>1, <2>3
<1>10. CASE pc[r] = "untmp" /\ k[1] # Vol(v)
  <2>1. Releases(CopyFrom(c))
    BY <1>6, <1>10, WorkIs DEF DoesDropTemporary
  <2>2. k = CopyFrom(c)
    BY <1>2, <1>10
  <2>3. QED
    BY <2>1, <2>2 DEF Releases, Discards
<1>11. QED
  BY <1>2, <1>7, <1>8, <1>9, <1>10

\* A detached creation's need of its temporary snapshots ends when it destroys them.
LEMMA NeedForSnapshotStays ==
  ASSUME Types, Origins, [Next]_vars, NEW k \in DOMAIN snap, k \in DOMAIN snap',
         NEW r \in Requests, NEW v \in Volumes, NEW s \in SnapshotNames,
         k[2] = <<"for-snapshot", s>>, NeedsForSnapshot(r, v, s, k)
  PROVE  NeedsForSnapshot(r, v, s, k)'
<1> DEFINE c == call[r]
<1>1. call' = call /\ call \in Plans /\ InItsPlace(r) /\ k = <<k[1], k[2]>> /\ Clones(k) = {}
  <2>1. k \in SnapNames
    BY DEF Types
  <2>2. Clones(k) = {}
    BY <2>1, ClonesAre
  <2>3. QED
    BY <2>1, <2>2, WitnessesStay, SnapNamesAre DEF Types
<1>2. /\ Takes(r, <<"detached", v, s>>) /\ k[1] \in {Vol(v), Det(v, s)}
      /\ \/ pc[r] \in {"pending", "check", "container", "tmp", "receive", "props", "strip"}
         \/ pc[r] = "untmp" /\ k[1] = Vol(v)
  BY DEF NeedsForSnapshot
<1>3. Is(r, "CreateSnapshot") /\ c.detached /\ c.volume = v /\ c.name = s
  BY <1>1, <1>2, TakesIs
<1>4. Dest(c) = Det(v, s) /\ Tag(c) = <<"for-snapshot", s>> /\ From(c) = Vol(v)
  BY <1>1, <1>3, DestIs DEF Is
<1>5. SUFFICES ASSUME ~ (\/ pc'[r] \in {"pending", "check", "container", "tmp", "receive", "props",
                                        "strip"}
                         \/ pc'[r] = "untmp" /\ k[1] = Vol(v))
               PROVE  FALSE
  BY <1>1, <1>2, CallsStay DEF NeedsForSnapshot
<1>6. \/ pc[r] = "strip" /\ pc'[r] = "untmp" /\ DoesStripSnapshots(r)
      \/ pc[r] = "untmp" /\ DoesDropTemporary(r)
  <2>1. pc'[r] \notin {"take", "clone"}
    <3>1. InItsPlace(r)' /\ c.method = "CreateSnapshot"
      BY <1>3, PlacesStayTyped DEF Is
    <3>2. QED
      BY <1>1, <1>3, <3>1 DEF InItsPlace
  <2>2. pc'[r] # pc[r]
    BY <1>2, <1>5
  <2>3. QED
    BY <1>2, <1>3, <1>5, <2>1, <2>2, TakingSteps
<1>7. CASE pc[r] = "strip" /\ pc'[r] = "untmp" /\ DoesStripSnapshots(r)
  <2>1. Releases(<<Dest(c), Tag(c)>>)
    BY <1>3, <1>7 DEF DoesStripSnapshots
  <2>2. k = <<Dest(c), Tag(c)>>
    BY <1>1, <1>2, <1>4, <1>5, <1>7
  <2>3. QED
    BY <1>1, <2>1, <2>2 DEF Releases, Discards
<1>8. CASE pc[r] = "untmp" /\ DoesDropTemporary(r)
  <2>1. Releases(CopyFrom(c))
    BY <1>8 DEF DoesDropTemporary
  <2>2. k = CopyFrom(c)
    BY <1>1, <1>2, <1>4, <1>8 DEF CopyFrom
  <2>3. QED
    BY <1>1, <2>1, <2>2 DEF Releases, Discards
<1>9. QED
  BY <1>6, <1>7, <1>8

\* No step leaves a temporary snapshot to nobody.
LEMMA TemporaryStaysHeld ==
  ASSUME Types, Origins, \A r \in Requests : VolumeGoes(r),
         \A x \in DOMAIN snap : TemporaryIsHeld(x), [Next]_vars, NEW k \in DOMAIN snap'
  PROVE  TemporaryIsHeld(k)'
<1>1. call' = call /\ call \in Plans
  BY WitnessesStay
<1>2. ASSUME k \in DOMAIN snap PROVE TemporaryIsHeld(k)'
  <2>1. TemporaryIsHeld(k)
    BY <1>2
  <2>2. ASSUME NEW v \in Volumes, k[2] = <<"for-volume", v>>
        PROVE  Clones(k)' # {} \/ \E r \in Requests : NeedsForVolume(r, v, k)'
    <3>1. CASE Clones(k) # {}
      BY <1>2, <2>2, <3>1, ClonesStayFor
    <3>2. CASE Clones(k) = {}
      <4>1. PICK r \in Requests : NeedsForVolume(r, v, k)
        BY <2>1, <2>2, <3>2 DEF TemporaryIsHeld
      <4>2. QED
        BY <1>2, <2>2, <3>2, <4>1, NeedForVolumeStays
    <3>3. QED
      BY <3>1, <3>2
  <2>3. ASSUME NEW s \in SnapshotNames, k[2] = <<"for-snapshot", s>>
        PROVE  \E r \in Requests, v \in Volumes : NeedsForSnapshot(r, v, s, k)'
    <3>1. PICK r \in Requests, v \in Volumes : NeedsForSnapshot(r, v, s, k)
      BY <2>1, <2>3 DEF TemporaryIsHeld
    <3>2. QED
      BY <1>2, <2>3, <3>1, NeedForSnapshotStays
  <2>4. QED
    BY <2>2, <2>3 DEF TemporaryIsHeld
<1>3. ASSUME k \notin DOMAIN snap, k[2][1] # "csi" PROVE TemporaryIsHeld(k)'
  <2>1. PICK r \in Requests :
           \/ k = CopyFrom(call[r]) /\ DoesTakeTemporary(r)
           \/ /\ k = <<Dest(call[r]), Tag(call[r])>> /\ DoesReceive(r)
              /\ Is(r, "CreateVolume") \/ Is(r, "CreateSnapshot")
    BY <1>3, NewTemporary
  <2>2. k[2] = Tag(call[r])
    BY <2>1 DEF CopyFrom
  <2>3. CASE Is(r, "CreateVolume")
    <3> PICK v \in Volumes : VolumeId(call[r]) = v
      BY <1>1, CallsAre
    <3>1. Creates(r, v) /\ Dest(call[r]) = Vol(v)
      BY <1>1, <2>3, DestIsNamed DEF Creates
    <3>2. Tag(call[r]) = <<"for-volume", v>>
      <4>1. Tag(call[r]) = IF call[r].source[1] = "snapshot" THEN <<"csi", call[r].source[3]>>
                           ELSE <<"for-volume", v>>
        BY <1>1, <2>3, DestIs DEF Is
      <4>2. QED
        BY <1>3, <2>2, <4>1
    <3>3. /\ Copies(call[r])
          /\ k = CopyFrom(call[r]) \/ (call[r].detached /\ k = <<Vol(v), Tag(call[r])>>)
          /\ pc'[r] \in {"clone", "receive", "props", "strip"}
      <4>1. CASE k = CopyFrom(call[r]) /\ DoesTakeTemporary(r)
        <5>1. pc[r] = "tmp" /\ pc'[r] = After(r, "tmp")
          BY <4>1 DEF DoesTakeTemporary, Goes, Moves, Types
        <5>2. Copies(call[r])
          BY <2>3, <5>1, CopyIsNamed DEF Is
        <5>3. QED
          BY <4>1, <5>1, <5>2 DEF After
      <4>2. CASE k = <<Dest(call[r]), Tag(call[r])>> /\ DoesReceive(r)
        <5>1. pc[r] = "receive" /\ call[r].detached /\ pc'[r] \in {"props", "strip"}
          BY <4>2 DEF DoesReceive, Moves, Types
        <5>2. Copies(call[r])
          BY <2>3, <5>1, CopyIsNamed DEF Is
        <5>3. QED
          BY <3>1, <4>2, <5>1, <5>2
      <4>3. QED
        BY <2>1, <4>1, <4>2
    <3>4. NeedsForVolume(r, v, k)'
      BY <1>1, <3>1, <3>3, CallsStay DEF NeedsForVolume, Copies, CopyFrom, From, Tag, VolumeId
    <3>5. /\ \A w \in Volumes : k[2] = <<"for-volume", w>> => w = v
          /\ \A s \in SnapshotNames : k[2] # <<"for-snapshot", s>>
      BY <2>2, <3>2
    <3>6. QED
      BY <3>4, <3>5 DEF TemporaryIsHeld
  <2>4. CASE Is(r, "CreateSnapshot")
    <3>1. PICK v \in Volumes, s \in SnapshotNames : call[r].volume = v /\ call[r].name = s
      BY <1>1, <2>4, CallsAre DEF Is
    <3>2. /\ Tag(call[r]) = <<"for-snapshot", s>> /\ Dest(call[r]) = Det(v, s)
          /\ From(call[r]) = Vol(v)
      BY <1>1, <2>4, <3>1, DestIs DEF Is
    <3>3. k[1] \in {Vol(v), Det(v, s)}
      BY <2>1, <3>2 DEF CopyFrom
    <3>4. call[r].detached /\ pc'[r] \in {"receive", "props", "strip"}
      <4>1. CASE DoesTakeTemporary(r)
        <5>1. pc[r] = "tmp" /\ pc'[r] = After(r, "tmp") /\ InItsPlace(r)
          BY <4>1 DEF DoesTakeTemporary, Goes, Moves, Types
        <5>2. call[r].detached
          BY <2>4, <5>1 DEF InItsPlace, Is
        <5>3. QED
          BY <5>1, <5>2 DEF After
      <4>2. CASE DoesReceive(r)
        BY <4>2 DEF DoesReceive, Moves, Types
      <4>3. QED
        BY <2>1, <4>1, <4>2
    <3>5. Takes(r, <<"detached", v, s>>)
      BY <1>1, <2>4, <3>1, <3>4, TakesIs
    <3>6. NeedsForSnapshot(r, v, s, k)'
      BY <1>1, <3>3, <3>4, <3>5, CallsStay DEF NeedsForSnapshot
    <3>7. /\ \A w \in Volumes : k[2] # <<"for-volume", w>>
          /\ \A t \in SnapshotNames : k[2] = <<"for-snapshot", t>> => t = s
      BY <2>2, <3>2
    <3>8. QED
      BY <3>6, <3>7 DEF TemporaryIsHeld
  <2>5. QED
    BY <2>1, <2>3, <2>4, CopyIsNamed DEF DoesTakeTemporary, Goes
<1>4. CASE k[2][1] = "csi"
  <2>1. /\ \A v \in Volumes : k[2] # <<"for-volume", v>>
        /\ \A s \in SnapshotNames : k[2] # <<"for-snapshot", s>>
    BY <1>4
  <2>2. QED
    BY <2>1 DEF TemporaryIsHeld
<1>5. QED
  BY <1>2, <1>3, <1>4

\* The container of a volume's detached snapshots.
LEMMA ContainerStaysUsed ==
  ASSUME Types, Control, SnapshotsAreSound, NEW v \in Volumes, ContainerIsUsed(v), [Next]_vars
  PROVE  ContainerIsUsed(v)'
<1>1. call' = call /\ call \in Plans
  BY WitnessesStay
<1>2. SUFFICES ASSUME Con(v) \in DOMAIN ds'
               PROVE  \/ \E s \in SnapshotNames : Det(v, s) \in DOMAIN ds'
                      \/ \E r \in Requests : /\ Is(r, "CreateSnapshot") /\ call[r].detached
                                             /\ call[r].volume = v /\ Unfinished(r)'
                      \/ \E r \in Requests, s \in SnapshotNames :
                           /\ Drops(r, <<"detached", v, s>>)
                           /\ pc'[r] \in {"pending", "destroy", "uncontain"}
  BY <1>1, CallsStay DEF ContainerIsUsed
<1>3. CASE Con(v) \notin DOMAIN ds
  <2>1. PICK r \in Requests :
           \/ DoesCreate(r) /\ Con(v) = Dest(call[r])
           \/ (DoesClone(r) \/ DoesReceive(r)) /\ Con(v) = Dest(call[r])
           \/ DoesCreateContainer(r) /\ Con(v) = Con(call[r].volume)
    BY <1>2, <1>3, NewContents
  <2>2. Con(v) # Dest(call[r])
    BY <1>1, DestIsNamed, NamesDiffer DEF Vols, Dets
  <2>3. /\ Is(r, "CreateSnapshot") /\ call[r].detached /\ call[r].volume = v
        /\ pc'[r] = After(r, "container")
    BY <2>1, <2>2, NamesDiffer DEF DoesCreateContainer, Goes, Moves, Types
  <2>4. Unfinished(r)'
    BY <2>3 DEF Unfinished, After
  <2>5. QED
    BY <2>3, <2>4
<1>4. ASSUME NEW s \in SnapshotNames, Det(v, s) \in DOMAIN ds, Det(v, s) \notin DOMAIN ds'
      PROVE  \E r \in Requests : Drops(r, <<"detached", v, s>>) /\ pc'[r] = "uncontain"
  <2>1. PICK r \in Requests : Drops(r, <<"detached", v, s>>) /\ DoesDestroyDetached(r)
    BY <1>4, DetachedSteps
  <2>2. pc'[r] = After(r, "destroy") /\ call[r].method = "DeleteSnapshot"
    BY <2>1 DEF DoesDestroyDetached, Goes, Moves, Types, Is
  <2>3. QED
    BY <2>1, <2>2 DEF After
<1>5. ASSUME NEW r \in Requests, Is(r, "CreateSnapshot"), call[r].detached, call[r].volume = v,
             Unfinished(r), ~ Unfinished(r)'
      PROVE  \E s \in SnapshotNames : Det(v, s) \in DOMAIN ds'
  <2>1. pc[r] = "reply" /\ ds' = ds
    <3>1. pc'[r] \in {"idle", "done"} /\ pc[r] \notin {"idle", "done"}
      BY <1>5 DEF Unfinished
    <3>2. QED
      <4>1. pc'[r] # "idle"
        BY <3>1, WitnessesStay DEF Sent
      <4>2. pc'[r] = "done" /\ pc'[r] # pc[r]
        BY <3>1, <4>1
      <4>3. QED
        BY <1>5, <4>2, TakingSteps DEF pool
  <2>2. PICK s \in SnapshotNames : call[r].name = s
    BY <1>1, <1>5, CallsAre DEF Is
  <2>3. Takes(r, <<"detached", v, s>>)
    BY <1>1, <1>5, <2>2, TakesOf
  <2>4. QED
    BY <2>1, <2>3, RepliedSnapshotIs
<1>6. ASSUME NEW r \in Requests, NEW s \in SnapshotNames, Drops(r, <<"detached", v, s>>),
             pc[r] \in {"pending", "destroy", "uncontain"},
             pc'[r] \notin {"pending", "destroy", "uncontain"}, Con(v) \in DOMAIN ds
      PROVE  \E t \in SnapshotNames : Det(v, t) \in DOMAIN ds'
  <2>1. /\ call[r].method = "DeleteSnapshot" /\ call[r].source = <<"detached", v, s>>
        /\ call[r].source[1] = "detached" /\ call[r].source[2] = v
    BY <1>6 DEF Drops, Is
  <2>2. Works(r) /\ pc'[r] = After(r, pc[r]) /\ Running(r)
    BY <1>6, <2>1, PlacesOfNext DEF First
  <2>3. pc[r] = "uncontain"
    BY <1>6, <2>1, <2>2 DEF After, Running
  <2>4. DoesDestroyContainer(r)
    BY <2>2, <2>3, WorkIs
  <2>5. PICK d \in DOMAIN ds : d[1] = "det" /\ d[2] = v /\ ds' = ds
    BY <1>2, <2>1, <2>4 DEF DoesDestroyContainer, Removes
  <2>6. d \in Vols \cup Cons \cup Dets
    BY DEF Types
  <2>7. PICK u \in Volumes, t \in SnapshotNames : d = Det(u, t)
    BY <2>5, <2>6, NamesAre DEF Vols, Cons, Dets
  <2>8. QED
    BY <2>5, <2>7, NamesAre
<1>7. CASE Con(v) \in DOMAIN ds
  BY <1>4, <1>5, <1>6, <1>7 DEF ContainerIsUsed
<1>8. QED
  BY <1>3, <1>7

\* Nothing is left, as the invariant of the leftovers says.
LEMMA NothingIsLeft ==
  ASSUME Types, PoolIsSound, VolumesAreSound, Leftovers
  PROVE  DeletionsLeaveNothing
<1>1. call \in Plans
  BY DEF Types
<1>2. ASSUME NEW r \in Requests, Is(r, "DeleteVolume"), pc[r] = "done"
      PROVE  Dest(call[r]) \notin DOMAIN ds \cup shares
  <2>1. VolumeGoes(r) /\ Dest(call[r]) = Vol(call[r].volume)
    BY <1>1, <1>2, DestIs DEF VolumesAreSound, Is
  <2>2. QED
    BY <1>2, <2>1 DEF VolumeGoes, PoolIsSound, Is
<1>3. ASSUME \A r \in Requests : ~ Unfinished(r)
      PROVE  /\ \A k \in DOMAIN snap : k[2][1] # "csi" => Clones(k) # {}
             /\ \A v \in Volumes : Con(v) \in DOMAIN ds =>
                  \E s \in SnapshotNames : Det(v, s) \in DOMAIN ds
  <2>1. \A r \in Requests : pc[r] \in {"idle", "done"}
    BY <1>3 DEF Unfinished
  <2>2. ASSUME NEW k \in DOMAIN snap, k[2][1] # "csi" PROVE Clones(k) # {}
    <3>1. TemporaryIsHeld(k) /\ k \in SnapNames
      BY DEF Leftovers, Types
    <3>2. /\ \A s \in SnapshotNames : k[2] # <<"csi", s>>
          /\ \A s \in SnapshotNames : k[2] # <<"for-snapshot", s>>
      <4>1. ASSUME NEW s \in SnapshotNames, k[2] = <<"csi", s>> PROVE FALSE
        BY <2>2, <4>1
      <4>2. ASSUME NEW s \in SnapshotNames, k[2] = <<"for-snapshot", s>> PROVE FALSE
        <5>1. PICK r \in Requests, v \in Volumes : NeedsForSnapshot(r, v, s, k)
          BY <3>1, <4>2 DEF TemporaryIsHeld
        <5>2. QED
          BY <2>1, <5>1 DEF NeedsForSnapshot
      <4>3. QED
        BY <4>1, <4>2
    <3>3. PICK v \in Volumes : k[2] = <<"for-volume", v>>
      BY <3>1, <3>2, SnapNamesAre
    <3>4. QED
      BY <2>1, <3>1, <3>3 DEF TemporaryIsHeld, NeedsForVolume
  <2>3. QED
    BY <1>3, <2>1, <2>2 DEF Leftovers, ContainerIsUsed
<1>4. QED
  BY <1>2, <1>3 DEF DeletionsLeaveNothing

----------------------------------------------------------------------------
(* The invariant, and what follows from it.                                *)

\* The invariant of the controller service.
IInv ==
    /\ Types /\ Control
    /\ PoolIsSound /\ Origins
    /\ VolumesAreSound /\ SnapshotsAreSound
    /\ Data /\ Leftovers

\* It holds of an empty pool, with no request sent.
LEMMA InitIInv == Init => IInv
<1> SUFFICES ASSUME Init PROVE IInv
  OBVIOUS
<1>1. /\ call \in Plans /\ resourceType \in ResourceTypes
      /\ \A r \in Requests : pc[r] = "idle" /\ origin[r] = NoOrigin /\ since[r] = 0
      /\ DOMAIN ds = {} /\ DOMAIN snap = {} /\ shares = {} /\ DOMAIN promised = {}
      /\ DOMAIN captured = {} /\ writes = 0 /\ faults = 0
  BY DEF Init
<1>2. \A r \in Requests : ~ Sent(r) /\ ~ Running(r) /\ ~ Unfinished(r)
  BY <1>1 DEF Sent, Running, Unfinished
<1>3. Types
  <2>1. \A r \in Requests : InItsPlace(r)
    BY <1>1 DEF InItsPlace, Places
  <2>2. /\ pc \in [Requests -> Places] /\ origin \in [Requests -> SnapNames \cup {NoOrigin}]
        /\ answer \in [Requests -> {"none", "OK", "UNKNOWN", "ALREADY_EXISTS", "NOT_FOUND",
                                    "FAILED_PRECONDITION"}]
        /\ since \in [Requests -> 0..MaxWrites]
        /\ writes \in 0..MaxWrites /\ faults \in 0..MaxFaults
    BY OptionsAssumption DEF Init, Places
  <2>3. ds = [d \in DOMAIN ds |-> ds[d]] /\ snap = [k \in DOMAIN snap |-> snap[k]]
    BY DEF Init
  <2>4. QED
    BY <1>1, <2>1, <2>2, <2>3 DEF Types
<1>4. Control
  BY <1>1, <1>2 DEF Control, UnwantedIsSettled, Exclusive, PromisesAreMade, SourceWasMade
<1>5. PoolIsSound /\ Origins
  BY <1>1 DEF PoolIsSound, Origins
<1>6. VolumesAreSound
  <2>1. \A r \in Requests : VolumeStands(r)
    BY <1>1, <1>2 DEF VolumeStands, MadeSteps
  <2>2. \A r \in Requests : VolumeExpands(r) /\ VolumeGoes(r)
    BY <1>1, <1>2 DEF VolumeExpands, VolumeGoes
  <2>3. QED
    BY <1>1, <2>1, <2>2 DEF VolumesAreSound, SizesAreKept
<1>7. SnapshotsAreSound
  BY <1>1, <1>2 DEF SnapshotsAreSound, CsiSnapshot, SnapshotStands, CaptureIsKept,
     OneVolumePerSnapshotName
<1>8. Data
  BY <1>1, <1>2 DEF Data, DataBounded, SnapshotsAreFresh, SourceGrows, VolumeData, DetachedData
<1>9. Leftovers
  BY <1>1 DEF Leftovers, ContainerIsUsed
<1>10. QED
  BY <1>3, <1>4, <1>5, <1>6, <1>7, <1>8, <1>9 DEF IInv

\* It is kept by every step.
LEMMA NextIInv ==
  ASSUME IInv, [Next]_vars
  PROVE  IInv'
<1>1. /\ Types /\ Control /\ PoolIsSound /\ Origins
      /\ VolumesAreSound /\ SnapshotsAreSound /\ Data /\ Leftovers
      /\ \A r \in Requests : SourceGrows(r) /\ VolumeGoes(r)
  BY DEF IInv, Data, VolumesAreSound
<1>2. Types' /\ Control' /\ PoolIsSound' /\ Origins'
  BY <1>1, TypesStay, ControlStays, PoolStaysSound, OriginsStay
<1>3. VolumesAreSound' /\ SnapshotsAreSound' /\ Data'
  BY <1>1, VolumesStay, SnapshotsStay, DataStays
<1>4. Leftovers'
  BY <1>1, TemporaryStaysHeld, ContainerStaysUsed DEF Leftovers
<1>5. QED
  BY <1>2, <1>3, <1>4 DEF IInv

\* It gives the type invariant that the runs check.
LEMMA TypesAreOK ==
  ASSUME Types, PoolIsSound
  PROVE  TypeOK
<1>1. ASSUME NEW r \in Requests
      PROVE  /\ pc[r] \in {"idle", "pending", "reply", "done"}
                            \cup {Steps(call[r])[i] : i \in DOMAIN Steps(call[r])}
             /\ origin[r] = NoOrigin \/ origin[r][1][1] \in {"vol", "det"}
             /\ answer[r] \in {"none", "OK", "UNKNOWN", "ALREADY_EXISTS", "NOT_FOUND",
                               "FAILED_PRECONDITION"}
             /\ since[r] \in 0..MaxWrites
  <2>1. Running(r) /\ pc[r] # "reply" =>
          \E i \in DOMAIN Steps(call[r]) : Steps(call[r])[i] = pc[r]
    BY StepAfterIs DEF Types
  <2>2. origin[r] = NoOrigin \/ origin[r][1][1] \in {"vol", "det"}
    BY SnapNamesAre DEF Types
  <2>3. QED
    BY <2>1, <2>2 DEF Types, Running
<1>2. ASSUME NEW d \in DOMAIN ds
      PROVE  /\ d \in {Vol(v) : v \in Volumes} \cup {Con(v) : v \in Volumes}
                        \cup {Det(v, s) : v \in Volumes, s \in SnapshotNames}
             /\ ds[d].content \in 0..MaxWrites /\ ds[d].size \in Nat
             /\ {ds[d].managed, ds[d].context, ds[d].success} \subseteq BOOLEAN
             /\ ds[d].origin # NoOrigin => ds[d].origin \in DOMAIN snap
  <2>1. ds[d] \in Dataset /\ d \in Vols \cup Cons \cup Dets
    BY DEF Types
  <2>2. QED
    BY <2>1 DEF Dataset, PoolIsSound, Vols, Cons, Dets
<1>3. ASSUME NEW k \in DOMAIN snap
      PROVE  /\ k[1] \in DOMAIN ds /\ k[2][1] \in {"csi", "for-volume", "for-snapshot"}
             /\ snap[k].content \in 0..MaxWrites /\ snap[k].size \in Nat
             /\ {snap[k].managed, snap[k].defer} \subseteq BOOLEAN
  <2>1. k \in SnapNames /\ snap[k] \in Snapshotted
    BY DEF Types
  <2>2. k[2][1] \in {"csi", "for-volume", "for-snapshot"}
    BY <2>1, SnapNamesAre
  <2>3. QED
    BY <2>1, <2>2 DEF Snapshotted, PoolIsSound
<1>4. QED
  BY <1>1, <1>2, <1>3 DEF Types, TypeOK, Vols

\* The invariant of the controller service: it holds in every behaviour, whatever the
\* requests, the faults and the order in which handlers run.
THEOREM Inductive == Spec => []IInv
BY InitIInv, NextIInv, PTL DEF Spec

\* Every variable has its type.
THEOREM TypeCorrect == Spec => []TypeOK
<1>1. IInv => TypeOK
  BY TypesAreOK DEF IInv
<1>2. QED
  BY <1>1, Inductive, PTL

\* A volume that was acknowledged stays complete, shared and of the size promised till
\* its deletion is asked for.
THEOREM VolumesAreUsable == Spec => []AckedVolumesAreUsable
<1>1. IInv => AckedVolumesAreUsable
  BY OwnedVolumesAreUsable DEF IInv
<1>2. QED
  BY <1>1, Inductive, PTL

\* A snapshot that was acknowledged stays, with its data, till its own deletion is asked
\* for.
THEOREM SnapshotsAreKept == Spec => []AckedSnapshotsAreKept
<1>1. IInv => AckedSnapshotsAreKept
  BY OwnedSnapshotsAreKept DEF IInv
<1>2. QED
  BY <1>1, Inductive, PTL

\* A copy holds its source's data, of after the copy was asked for.
THEOREM Faithful == Spec => []CopiesAreFaithful
<1>1. IInv => CopiesAreFaithful
  BY DataIsFaithful DEF IInv
<1>2. QED
  BY <1>1, Inductive, PTL

\* No two volumes have a snapshot of one name and kind.
THEOREM NamesAreUnique == Spec => []OneVolumePerSnapshotName
<1>1. IInv => OneVolumePerSnapshotName
  BY DEF IInv, SnapshotsAreSound
<1>2. QED
  BY <1>1, Inductive, PTL

\* Deletions, and requests that were done, leave nothing behind.
THEOREM NothingRemains == Spec => []DeletionsLeaveNothing
<1>1. IInv => DeletionsLeaveNothing
  BY NothingIsLeft DEF IInv
<1>2. QED
  BY <1>1, Inductive, PTL
=============================================================================
