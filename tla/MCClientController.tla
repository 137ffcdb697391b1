------------------------- MODULE MCClientController -------------------------
(* Instances of ClientController for TLC: the plans of the runs. *)
EXTENDS ClientController, Sequences

Req(m, v, n, d, src) == [method |-> m, volume |-> v, name |-> n, driver |-> d, source |-> src]

NewVolume(v, src) == Req("CreateVolume", v, "s", "filecopy", src)
None == <<"none">>
CopyOf(v) == <<"volume", v>>
SnapshotOf(r) == <<"snapshot", r>>
DropVolume(v) == Req("DeleteVolume", v, "s", "filecopy", None)
Cutting(v, n, d) == Req("CreateSnapshot", v, n, d, None)
DropSnapshot(r) == Req("DeleteSnapshot", "a", "s", "filecopy", SnapshotOf(r))

PlansOf(sequences) ==
    {[r \in Requests |-> q[r]] : q \in sequences}

A == NewVolume("a", None)

\* A volume, a copy of it, and their deletion.
ClonePlans == {<<A, NewVolume("b", CopyOf("a")), DropVolume("a"), DropVolume("b")>>}

\* A snapshot, a volume from it, and its deletion.
SnapshotPlans ==
    {<<A, Cutting("a", "s", d), NewVolume("b", SnapshotOf(2)), DropSnapshot(2)>> : d \in Drivers}

\* The same snapshot asked for twice, or two snapshots, with a deletion.
TwicePlans ==
    {<<A, Cutting("a", "s", d), Cutting("a", n, d), DropSnapshot(2)>> :
        d \in {"restic", "kopia"}, n \in {"s", "t"}}

AllPlans == PlansOf(ClonePlans \cup SnapshotPlans \cup TwicePlans)

FilecopyPlans == PlansOf({<<A, Cutting("a", "s", "filecopy")>>})
=============================================================================
