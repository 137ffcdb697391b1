---------------------------- MODULE MCIscsiNode ----------------------------
(* Instances of IscsiNode: one volume, on one portal or on two. *)
EXTENDS IscsiNode

CONSTANTS v, p, q

Named(ps) == [embedded |-> TRUE, portals |-> ps]
Foreign(ps) == [embedded |-> FALSE, portals |-> ps]

\* A setup in which all volumes are alike.
Alike(volume, wishes, errors, failures) ==
    [layout |-> [u \in Volumes |-> volume],
     changes |-> wishes, faults |-> errors, outages |-> failures]

\* Outages go with one portal: a target fails at all of its portals at once.
AllSetups ==
    {Alike(Named({p}), 3, 2, 2), Alike(Foreign({p}), 3, 2, 2),
     Alike(Named({p, q}), 2, 2, 0)}

BusyMount == {Alike(Named({p}), 2, 1, 0)}

OneOutage == {Alike(Named({p}), 2, 1, 1)}

=============================================================================
