---------------------------- MODULE MCFreenasApi ----------------------------
(* Instances of FreenasApi: two volumes shared, copied and deleted.        *)
EXTENDS FreenasApi, ControllerPlans

With(k, again, lost, n, plans) ==
    [kind |-> k, reuse |-> again, drops |-> lost, faults |-> n, plans |-> plans]

\* A volume, and its deletion or expansion; another one beside it; both deleted.
OnePlans == PlansOf({<<A, Delete("a")>>, <<A, Expand("a", 2)>>})
TwoPlans == PlansOf({<<A, B, Delete("a")>>})
BothPlans == PlansOf({<<A, B, Delete("a"), Delete("b")>>})

\* Copies of a volume, and deletions in any order.
CopyPlans == PlansOf(
    {<<A, CloneOfA(d), Delete("a"), Delete("b")>> : d \in BOOLEAN} \cup
    {<<A, TakeOf("a", "s", FALSE), Volume("b", Attached("a", "s"), FALSE, 1),
       Drop(Attached("a", "s"))>>,
     <<A, TakeOf("a", "s", FALSE), Drop(Attached("a", "s")), Delete("a")>>,
     <<A, TakeOf("a", "s", TRUE), Delete("a"), Drop(Detached("a", "s"))>>} \cup
    {<<A, TakeOf("a", "s", TRUE), Volume("b", Detached("a", "s"), d, 1),
       Drop(Detached("a", "s"))>> : d \in BOOLEAN} \cup
    {<<A, TakeOf("a", "s", TRUE), TakeOf("a", "t", TRUE), Drop(Detached("a", "s"))>>})

AllPlans == OnePlans \cup TwoPlans \cup BothPlans \cup CopyPlans

AllSetups ==
    {With("nfs", TRUE, FALSE, 2, BothPlans), With("nfs", FALSE, TRUE, 1, BothPlans),
     With("smb", FALSE, TRUE, 1, BothPlans),
     With("iscsi", TRUE, FALSE, 2, OnePlans), With("iscsi", TRUE, FALSE, 1, TwoPlans),
     With("nvmeof", FALSE, TRUE, 2, OnePlans), With("nvmeof", FALSE, FALSE, 0, TwoPlans),
     With("nfs", FALSE, FALSE, 2, CopyPlans)}
=============================================================================
