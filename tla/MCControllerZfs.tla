-------------------------- MODULE MCControllerZfs --------------------------
(* Instances of ControllerZfs for TLC: the plans of the runs.              *)
EXTENDS ControllerZfs, ControllerPlans

\* A volume, a copy of it, and their deletion in any order, the source first.
ClonePlans ==
    {<<A, CloneOfA(d), Delete("a"), Delete("b")>> : d \in BOOLEAN}

\* A snapshot of a volume, a volume from it, and deletions.
SnapshotPlans ==
    {<<A, TakeOf("a", "s", FALSE), Volume("b", Attached("a", "s"), d, 1),
       Drop(Attached("a", "s")), Delete("a")>> : d \in BOOLEAN}

\* A detached snapshot, a volume or another snapshot, and deletions.
DetachedPlans ==
    {<<A, TakeOf("a", "s", TRUE), Volume("b", Detached("a", "s"), d, 1),
       Delete("a"), Drop(Detached("a", "s"))>> : d \in BOOLEAN}
      \cup {<<A, TakeOf("a", "s", TRUE), TakeOf("a", "t", TRUE),
              Drop(Detached("a", "s")), Drop(Detached("a", "t"))>>}

\* Calls a CO that lost its state sends twice; conflicting sizes and names.
ConflictPlans ==
    {<<A, A, B, Expand("b", 2), Delete("a")>>,
     <<VolumeUpTo("a", 1, 1), VolumeUpTo("a", 2, 2), VolumeUpTo("a", 1, 1),
       CloneOfA(TRUE), CloneOfA(TRUE)>>,
     <<A, B, TakeOf("a", "s", FALSE), TakeOf("a", "s", FALSE), TakeOf("b", "s", FALSE)>>,
     <<A, B, TakeOf("a", "s", TRUE), TakeOf("b", "s", TRUE), Delete("a")>>}

SafetyPlans == PlansOf(ClonePlans \cup SnapshotPlans \cup DetachedPlans \cup ConflictPlans)

\* Requests that all can succeed, whatever the order they are sent in.
ProgressPlans == PlansOf(
    ClonePlans \cup
    {<<A, TakeOf("a", "s", FALSE), Drop(Attached("a", "s")), Delete("a")>>,
     <<A, TakeOf("a", "s", TRUE), Delete("a"), Drop(Detached("a", "s"))>>})
=============================================================================
