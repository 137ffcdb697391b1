-------------------------- MODULE ControllerPlans --------------------------
(* What the models' CO is told to ask for: calls, and plans made of them.  *)
EXTENDS ControllerCalls

VolumeIdDef == [n \in Names |-> n]

None == <<"none">>

Volume(n, src, det, sz) ==
    [method |-> "CreateVolume", name |-> n, volume |-> n, source |-> src,
     detached |-> det, size |-> sz, limit |-> 0]

VolumeUpTo(n, sz, lim) == [Volume(n, None, FALSE, sz) EXCEPT !.limit = lim]

Delete(v) == [Volume(v, None, FALSE, 0) EXCEPT !.method = "DeleteVolume"]

Expand(v, sz) == [Volume(v, None, FALSE, sz) EXCEPT !.method = "ControllerExpandVolume"]

TakeOf(v, s, det) ==
    [Volume(v, None, det, 0) EXCEPT !.method = "CreateSnapshot", !.name = s]

Drop(sid) == [Volume(sid[2], sid, FALSE, 0) EXCEPT !.method = "DeleteSnapshot"]

Attached(v, s) == <<"snapshot", v, s>>
Detached(v, s) == <<"detached", v, s>>

\* A call the CO never has a reason to send.
Never == Drop(Detached("b", "t"))

\* Request i carries the i-th call of a sequence.
PlansOf(sequences) ==
    {[r \in Requests |-> IF r \in DOMAIN q THEN q[r] ELSE Never] : q \in sequences}

A == Volume("a", None, FALSE, 1)
B == Volume("b", None, FALSE, 1)
CloneOfA(det) == Volume("b", <<"volume", "a">>, det, 1)
=============================================================================
