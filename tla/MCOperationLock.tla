--------------------------- MODULE MCOperationLock ---------------------------
(* Workloads for model-checking OperationLock. *)
EXTENDS OperationLock

\* The arguments a call has and does not use are fixed, to keep calls distinct.
Req(m, n, v, s) == [method |-> m, name |-> n, volume |-> v, snapshot |-> s]

\* Snapshots of two volumes under one name, which contend for the name and,
\* each, for its volume; a call of the node on one of the volumes, a snapshot
\* deletion and a call without keys.
MixedWorkload ==
    {Req("CreateSnapshot", "s", v, "x") : v \in Volumes}
      \cup {Req("NodeUnstageVolume", "s", "v1", "x"),
            Req("DeleteSnapshot", "s", "v1", "x"),
            Req("ListVolumes", "s", "v1", "x")}
=============================================================================
