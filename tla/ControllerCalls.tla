--------------------------- MODULE ControllerCalls ---------------------------
(***************************************************************************)
(* The calls that the controller services of the ZFS drivers are sent: who *)
(* sends them and when, the keys under which the request proxy runs their  *)
(* handlers, and the names of what they make in the pool.                  *)
(*                                                                         *)
(* The pool's datasets are <<"vol", v>>, a volume; <<"det", v, s>>, a      *)
(* detached snapshot; <<"con", v>>, the parent of the detached snapshots   *)
(* of v.  A snapshot is <<dataset, tag>>, its tag <<"csi", s>>,            *)
(* <<"for-volume", v>> or <<"for-snapshot", s>>.                           *)
(*                                                                         *)
(* The container orchestrator (CO) sends a call again until it is          *)
(* answered OK, and names neither a volume nor a snapshot again after      *)
(* asking for its deletion.                                                *)
(***************************************************************************)
EXTENDS Naturals, Sequences

CONSTANTS
    Requests,       \* the CO's requests
    Plans,          \* the assignments of calls to requests to consider
    Names, Volumes, SnapshotNames,
    VolumeIdOf,     \* the volume id of a volume name (idTemplate, idHash)
    ProtectSources  \* the CO keeps the source of an unfinished call

Methods == {"CreateVolume", "DeleteVolume", "ControllerExpandVolume",
            "CreateSnapshot", "DeleteSnapshot"}

\* Snapshot ids: "v@s" of an attached snapshot, "v/s" of a detached one.
SnapshotIds == {"snapshot", "detached"} \X Volumes \X SnapshotNames

Sources == {<<"none">>} \cup ({"volume"} \X Volumes) \cup SnapshotIds

\* detached: detachedVolumesFrom... of CreateVolume, detachedSnapshots of
\* CreateSnapshot.  source: what CreateVolume copies, DeleteSnapshot deletes.
Call == [method : Methods, name : Names \cup SnapshotNames, volume : Volumes,
         source : Sources, detached : BOOLEAN, size : Nat, limit : Nat]

ASSUME VolumeIdAssumption == VolumeIdOf \in [Names -> Volumes]
ASSUME ProtectAssumption == ProtectSources \in BOOLEAN

VARIABLES
    call,       \* call[r]: what request r asks for
    pc,         \* pc[r]: the next step of r's handler
    answer,     \* answer[r]: the last answer r was given
    promised,   \* the size of each volume ever answered OK (ghost)
    captured    \* the data of each snapshot ever answered OK (ghost)

----------------------------------------------------------------------------
(* Names in the pool.                                                      *)
Vol(v) == <<"vol", v>>
Con(v) == <<"con", v>>
Det(v, s) == <<"det", v, s>>
NoOrigin == <<>>

VolumeId(c) == IF c.method = "CreateVolume" THEN VolumeIdOf[c.name] ELSE c.volume

\* Requests for one volume bear one name, and are the same or of sizes that exclude
\* each other.  There is but one request for a volume that is expanded, since another
\* would shrink it; and for one that is received and has snapshots taken of it,
\* since another would strip it of them.
SameVolume(plan, q, r) ==
    LET c == plan[q]  d == plan[r]
        Exact(e) == e.source = <<"none">> /\ e.limit > 0 /\ e.limit = e.size
    IN  /\ c.name = d.name
        /\ c = d \/ (Exact(c) /\ Exact(d))
        /\ \A p \in Requests : plan[p].volume = VolumeId(c) =>
             /\ plan[p].method # "ControllerExpandVolume"
             /\ plan[p].method = "CreateSnapshot" => c.source[1] = "none" \/ ~ c.detached

WellFormed(plan) ==
    \A r \in Requests : LET c == plan[r] IN
      /\ c.method = "CreateVolume" =>
           /\ c.name \in Names
           /\ c.source[1] = "none" \/ c.source[2] # VolumeId(c)
           /\ \A q \in Requests \ {r} :
                plan[q].method = "CreateVolume" /\ VolumeId(plan[q]) = VolumeId(c)
                  => SameVolume(plan, q, r)
      /\ c.method = "CreateSnapshot" => c.name \in SnapshotNames /\ c.source = <<"none">>
      /\ c.method = "DeleteSnapshot" => c.source \in SnapshotIds

ASSUME PlansAssumption ==
    Plans \subseteq [Requests -> Call] /\ \A plan \in Plans : WellFormed(plan)

\* The dataset a call creates, deletes or changes.
Dest(c) ==
    CASE c.method = "CreateSnapshot" -> Det(c.volume, c.name)
      [] c.method = "DeleteSnapshot" -> Det(c.source[2], c.source[3])
      [] OTHER                       -> Vol(VolumeId(c))

\* The dataset a call copies from.
From(c) ==
    CASE c.method = "CreateSnapshot"  -> Vol(c.volume)
      [] c.source[1] = "detached"     -> Det(c.source[2], c.source[3])
      [] OTHER                        -> Vol(c.source[2])

\* Mutant: one temporary snapshot for all the detached snapshots of a volume.
TagWithoutName(c) ==
    CASE c.method = "CreateSnapshot"  -> <<"for-snapshot">>
      [] c.source[1] = "snapshot"     -> <<"csi", c.source[3]>>
      [] OTHER                        -> <<"for-volume", VolumeId(c)>>

\* The snapshot a call copies from, and whether it is a temporary one.
Tag(c) ==
    CASE c.method = "CreateSnapshot"  -> <<"for-snapshot", c.name>>
      [] c.source[1] = "snapshot"     -> <<"csi", c.source[3]>>
      [] OTHER                        -> <<"for-volume", VolumeId(c)>>

CopyFrom(c) == <<From(c), Tag(c)>>

SnapOf(sid) == <<Vol(sid[2]), <<"csi", sid[3]>>>>

IdOf(c) == <<IF c.detached THEN "detached" ELSE "snapshot", c.volume, c.name>>
----------------------------------------------------------------------------
(* Handlers.  What pc names beside these three is a step of one.           *)

Running(r) == pc[r] \notin {"idle", "pending", "done"}

Sent(r) == pc[r] # "idle"

Unfinished(r) == pc[r] \notin {"idle", "done"}

----------------------------------------------------------------------------
(* The lock's keys, and what the CO sends.                                 *)

\* Mutant: CreateSnapshot contends for the snapshot's name only.
KeysWithoutVolume(c) ==
    CASE c.method = "CreateVolume"   -> {<<"create_volume_name", c.name>>}
      [] c.method = "CreateSnapshot" -> {<<"create_snapshot_name", c.name>>}
      [] c.method = "DeleteSnapshot" -> {<<"snapshot_id", c.source>>}
      [] OTHER                       -> {<<"volume_id", c.volume>>}

\* Mutant: CreateSnapshot contends for the source only.
KeysWithoutName(c) ==
    CASE c.method = "CreateVolume"   -> {<<"create_volume_name", c.name>>}
      [] c.method = "DeleteSnapshot" -> {<<"snapshot_id", c.source>>}
      [] OTHER                       -> {<<"volume_id", c.volume>>}

Keys(c) ==
    CASE c.method = "CreateVolume"   -> {<<"create_volume_name", c.name>>}
      [] c.method = "CreateSnapshot" -> {<<"create_snapshot_name", c.name>>,
                                         <<"volume_id", c.volume>>}
      [] c.method = "DeleteSnapshot" -> {<<"snapshot_id", c.source>>}
      [] OTHER                       -> {<<"volume_id", c.volume>>}

Locked(r) == \E q \in Requests \ {r} : Running(q) /\ Keys(call[q]) \cap Keys(call[r]) # {}

Is(r, method) == call[r].method = method

\* The CO may still name v (sid): it was answered OK and its deletion was
\* not asked for.
OwnsVolume(v) ==
    /\ v \in DOMAIN promised
    /\ \A r \in Requests : Is(r, "DeleteVolume") /\ call[r].volume = v => ~ Sent(r)

OwnsSnapshot(sid) ==
    /\ sid \in DOMAIN captured
    /\ \A r \in Requests : Is(r, "DeleteSnapshot") /\ call[r].source = sid => ~ Sent(r)

\* An unfinished call copies v (sid).
Copied(source) ==
    \E r \in Requests :
        /\ Unfinished(r)
        /\ \/ Is(r, "CreateVolume") /\ call[r].source = source
           \/ Is(r, "CreateSnapshot") /\ source = <<"volume", call[r].volume>>

CopiesVolume(c) ==
    \/ c.method = "CreateSnapshot"
    \/ c.method = "CreateVolume" /\ c.source[1] = "volume"

MaySend(r) ==
    LET c == call[r] IN
    CASE c.method = "CreateVolume" ->
           /\ \A q \in Requests : Is(q, "DeleteVolume") /\ call[q].volume = VolumeId(c)
                                    => ~ Sent(q)
           /\ \/ c.source[1] = "none"
              \/ c.source[1] = "volume" /\ OwnsVolume(c.source[2])
              \/ c.source \in SnapshotIds /\ OwnsSnapshot(c.source)
      [] c.method = "DeleteVolume" ->
           /\ OwnsVolume(c.volume)
           /\ \A q \in Requests : Is(q, "CreateVolume") /\ VolumeId(call[q]) = c.volume
                                    => ~ Unfinished(q)
           /\ ProtectSources => ~ Copied(<<"volume", c.volume>>)
      [] c.method = "ControllerExpandVolume" ->
           /\ OwnsVolume(c.volume)
           /\ c.size >= promised[c.volume]
           /\ \A q \in Requests : Is(q, "CreateVolume") /\ VolumeId(call[q]) = c.volume
                                    => pc[q] = "done"
           /\ \A q \in Requests : Is(q, "ControllerExpandVolume")
                                  /\ call[q].volume = c.volume => ~ Unfinished(q)
      [] c.method = "CreateSnapshot" ->
           /\ OwnsVolume(c.volume)
           /\ \A q \in Requests : Is(q, "DeleteSnapshot") /\ call[q].source = IdOf(c)
                                    => ~ Sent(q)
      [] c.method = "DeleteSnapshot" ->
           /\ OwnsSnapshot(c.source)
           /\ \A q \in Requests : Is(q, "CreateSnapshot") /\ IdOf(call[q]) = c.source
                                    => ~ Unfinished(q)
           /\ ProtectSources => ~ Copied(c.source)

Larger(m, n) == IF m > n THEN m ELSE n

\* What the CO may rely on once c is answered OK.
Promised(c) ==
    IF c.method \notin {"CreateVolume", "ControllerExpandVolume"} THEN promised
    ELSE [v \in DOMAIN promised \cup {VolumeId(c)} |->
            IF v # VolumeId(c) THEN promised[v]
            ELSE IF v \in DOMAIN promised THEN Larger(promised[v], c.size) ELSE c.size]
=============================================================================
