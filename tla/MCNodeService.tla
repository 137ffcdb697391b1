--------------------------- MODULE MCNodeService ---------------------------
(* Instances of NodeService: two pods. *)
EXTENDS NodeService

CONSTANTS t1, t2

Volume(k, a, changes, faults, outages) ==
    [kind |-> k, access |-> a, changes |-> changes, faults |-> faults,
     outages |-> outages]

AllSetups ==
    {Volume(k, "mount", 4, 3, 1) : k \in {"nfs", "smb", "hostpath"}}
      \cup {Volume("nvmeof", a, 4, 3, 2) : a \in {"mount", "block"}}

=============================================================================
