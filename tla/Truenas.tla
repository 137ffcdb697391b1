------------------------------ MODULE Truenas ------------------------------
(***************************************************************************)
(* A TrueNAS server as the FreeNAS drivers use it (freenas/http/api.js):   *)
(* the pool, the replication jobs and the tables of the sharing services.  *)
(* What a call asks for that is there already, or is to be deleted and is  *)
(* not there, counts as done.                                              *)
(*                                                                         *)
(* A row of a table has an id that the server chooses.  Its content is     *)
(* what identifies it to the driver: the volume it was named after and the *)
(* ids of the rows it refers to.                                           *)
(***************************************************************************)
EXTENDS ControllerCalls

CONSTANT Ids        \* bound: the ids of a table
ASSUME IdsAssumption == Ids \subseteq Nat \ {0}

VARIABLES
    ds,         \* the pool's datasets
    snap,       \* the pool's snapshots
    table,      \* table[t][i]: the row of table t with id i
    reuse       \* are the ids of deleted rows given away again?

pool == <<ds, snap>>

Tables == {"nfs", "smb", "target", "extent", "lun", "subsys", "namespace", "port"}

Free == <<>>
Spent == <<"no", "such", "row">>

Rows(t) == {i \in Ids : table[t][i] \notin {Free, Spent}}

----------------------------------------------------------------------------
(* Datasets and snapshots.  A dataset is whole unless a replication job is *)
(* still filling it; has: the user properties that are set; ids: those     *)
(* that hold the id of a row, 0 when unset.                                *)

Unset == [t \in Tables |-> 0]

Clones(k) == {d \in DOMAIN ds : ds[d].origin = k}

SnapsOf(d) == {k \in DOMAIN snap : k[1] = d}

HasClones(d) == \E k \in SnapsOf(d) : Clones(k) # {}

Dataset(org, size, has, whole) ==
    [origin |-> org, size |-> size, has |-> has, ids |-> Unset, whole |-> whole]

Put(d, new) ==
    ds' = IF d \in DOMAIN ds THEN ds
          ELSE [x \in DOMAIN ds \cup {d} |-> IF x = d THEN new ELSE ds[x]]

DatasetCreate(d, size, has) == Put(d, Dataset(NoOrigin, size, has, TRUE))

\* The clone is as large as its origin, whatever is asked for.
CloneCreate(k, d) == Put(d, Dataset(k, snap[k].size, {"managed"}, TRUE))

\* user_properties_update of a dataset that exists.
DatasetSet(d, props) == ds' = [ds EXCEPT ![d] = props]

\* A recursive deletion; no dependent clones.
DatasetDelete(d) ==
    LET released == {k \in DOMAIN snap : snap[k].defer /\ Clones(k) = {d}}
    IN  /\ ds' = [x \in DOMAIN ds \ {d} |-> ds[x]]
        /\ snap' = [k \in DOMAIN snap \ (SnapsOf(d) \cup released) |-> snap[k]]

SnapshotCreate(k, managed) ==
    snap' = IF k \in DOMAIN snap THEN snap
            ELSE [x \in DOMAIN snap \cup {k} |->
                    IF x = k THEN [size |-> ds[k[1]].size, managed |-> managed, defer |-> FALSE]
                             ELSE snap[x]]

\* With defer: at once, or with the last clone.
SnapshotDelete(k) ==
    snap' = IF k \in DOMAIN snap /\ Clones(k) # {}
              THEN [snap EXCEPT ![k].defer = TRUE]
              ELSE [x \in DOMAIN snap \ {k} |-> snap[x]]

\* With defer, each of them.
DatasetDestroySnapshots(d) ==
    snap' = [k \in {x \in DOMAIN snap : x[1] = d => Clones(x) # {}} |->
               IF k[1] = d THEN [snap[k] EXCEPT !.defer = TRUE] ELSE snap[k]]

----------------------------------------------------------------------------
(* Replication jobs: one that is accepted makes the target at once and     *)
(* fills it later; it only starts from scratch.                            *)

\* Why a job for target d from snapshot k ends before it has begun, if so.
Rejection(k, d) ==
    CASE d \in DOMAIN ds -> "already-exists"
      [] /\ d \notin DOMAIN ds
         /\ k \notin DOMAIN snap \/ (d[1] = "det" /\ Con(d[2]) \notin DOMAIN ds)
                         -> "FAILED"
      [] OTHER           -> "RUNNING"

ReplicationBegins(k, d) ==
    IF Rejection(k, d) = "RUNNING"
    THEN Put(d, Dataset(NoOrigin, snap[k].size, {}, FALSE))
    ELSE UNCHANGED ds

\* The data has arrived, and the snapshot with it.
ReplicationEnds(k, d) ==
    /\ DatasetSet(d, [ds[d] EXCEPT !.whole = TRUE])
    /\ snap' = [x \in DOMAIN snap \cup {<<d, k[2]>>} |->
                  IF x \in DOMAIN snap THEN snap[x]
                  ELSE [size |-> ds[d].size, managed |-> FALSE, defer |-> FALSE]]

\* The dataset and the snapshot of a job that is under way: nobody destroys them.
Receiving(d) == d \in DOMAIN ds /\ ~ ds[d].whole

\* What was received in part is destroyed.
ReplicationBreaks(d) == ds' = [x \in DOMAIN ds \ {d} |-> ds[x]] /\ UNCHANGED snap

----------------------------------------------------------------------------
(* Rows.                                                                   *)

\* Two rows that the server does not keep side by side: of one path or name,
\* of one device, on one LUN of a target or of one extent.
Conflicting(t, a, b) ==
    CASE t = "lun"  -> a[1] = b[1] \/ a[2] = b[2]
      [] t = "port" -> a = b
      [] OTHER      -> a[1] = b[1]

\* What the driver takes for the row it has asked for: the name, a namespace's
\* subsystem, a LUN's target and extent.
Same(t, a, b) == IF t = "target" THEN a[1] = b[1] ELSE a = b

Conflicts(t, row) == {i \in Rows(t) : Conflicting(t, table[t][i], row)}

Insert(t, i, row) == table' = [table EXCEPT ![t][i] = row]

\* Row j of table u refers to row i of table t.
RefersTo(u, j, t, i) ==
    /\ j \in Rows(u)
    /\ \/ u = "lun" /\ t = "target" /\ table[u][j][1] = i
       \/ u = "lun" /\ t = "extent" /\ table[u][j][2] = i
       \/ u = "namespace" /\ t = "subsys" /\ table[u][j][2] = i
       \/ u = "port" /\ t = "subsys" /\ table[u][j][1] = i

\* A row goes with what refers to it.
Erase(t, i) ==
    table' = [u \in Tables |-> [j \in Ids |->
                IF <<u, j>> = <<t, i>> \/ RefersTo(u, j, t, i)
                THEN IF reuse THEN Free ELSE Spent
                ELSE table[u][j]]]

EmptyTables == [t \in Tables |-> [i \in Ids |-> Free]]
=============================================================================
