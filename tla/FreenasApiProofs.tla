---------------------------- MODULE FreenasApiProofs ----------------------------
(***************************************************************************)
(* Theorems about FreenasApi: its safety properties, from the inductive    *)
(* invariant of FreenasApiInvariant.                                       *)
(***************************************************************************)
EXTENDS FreenasApiInvariant, TLAPS

------------------------------------------------------------
(* Names.                                                 *)

\* The names of datasets tell what they are of.
LEMMA NamesAre ==
  /\ \A v : Vol(v)[1] = "vol" /\ Vol(v)[2] = v
  /\ \A v : Con(v)[1] = "con" /\ Con(v)[2] = v
  /\ \A v, s : Det(v, s)[1] = "det" /\ Det(v, s)[2] = v /\ Det(v, s)[3] = s
BY DEF Vol, Con, Det

\* So no two are the same.
LEMMA NamesDiffer ==
  /\ \A u, v : Vol(u) = Vol(v) => u = v
  /\ \A u, v : Con(u) = Con(v) => u = v
  /\ \A u, v, s, t : Det(u, s) = Det(v, t) => u = v /\ s = t
  /\ \A u, v : Vol(u) # Con(v)
  /\ \A u, v, s : Vol(u) # Det(v, s) /\ Con(u) # Det(v, s)
BY NamesAre

\* The snapshots' names.
LEMMA SnapNamesAre ==
  ASSUME NEW k \in SnapNames
  PROVE  /\ k = <<k[1], k[2]>> /\ k # NoOrigin
         /\ k[1] \in Vols \cup Dets /\ k[1][1] \in {"vol", "det"}
         /\ k[2] \in Tags
         /\ \/ \E s \in SnapshotNames : k[2] = <<"csi", s>>
            \/ \E v \in Volumes : k[2] = <<"for-volume", v>>
            \/ \E s \in SnapshotNames : k[2] = <<"for-snapshot", s>>
<1>1. k = <<k[1], k[2]>> /\ k[1] \in Vols \cup Dets /\ k[2] \in Tags
  BY DEF SnapNames
<1>2. k[1][1] \in {"vol", "det"}
  BY <1>1, NamesAre DEF Vols, Dets
<1>3. \/ \E s \in SnapshotNames : k[2] = <<"csi", s>>
      \/ \E v \in Volumes : k[2] = <<"for-volume", v>>
      \/ \E s \in SnapshotNames : k[2] = <<"for-snapshot", s>>
  BY <1>1 DEF Tags
<1>4. k # NoOrigin
  <2>1. Len(<<k[1], k[2]>>) = 2 /\ Len(NoOrigin) = 0
    BY DEF NoOrigin
  <2>2. QED
    BY <1>1, <2>1
<1>5. QED
  BY <1>1, <1>2, <1>3, <1>4

\* The setup, and its plan.
LEMMA SetupsAre ==
  ASSUME SetupIs
  PROVE  /\ call \in Plans /\ kind \in Kinds /\ reuse \in BOOLEAN /\ drops \in BOOLEAN
         /\ faults \in Nat
         /\ reuse => ~ drops /\ kind # "nvmeof"
         /\ \A r \in Requests : Is(r, "CreateVolume") /\ call[r].source[1] = "snapshot"
                                  => ~ call[r].detached
<1>1. PICK s \in Setups : /\ kind = s.kind /\ reuse = s.reuse /\ drops = s.drops
                          /\ call \in s.plans /\ faults \in 0 .. s.faults
  BY DEF SetupIs
<1>2. s \in Setup
  BY SetupsAssumption
<1>3. /\ s.kind \in Kinds /\ s.reuse \in BOOLEAN /\ s.drops \in BOOLEAN /\ s.faults \in Nat
      /\ s.plans \subseteq Plans
  BY <1>2 DEF Setup
<1>4. reuse => ~ drops /\ kind # "nvmeof"
  BY <1>1, ReuseAssumption
<1>5. \A r \in Requests : Is(r, "CreateVolume") /\ call[r].source[1] = "snapshot"
                            => ~ call[r].detached
  BY <1>1, CopiesAssumption DEF Is
<1>6. QED
  BY <1>1, <1>3, <1>4, <1>5

\* The calls of a plan.
LEMMA CallsAre ==
  ASSUME call \in Plans, NEW r \in Requests
  PROVE  /\ call[r] \in Call
         /\ call[r].method \in Methods /\ call[r].volume \in Volumes
         /\ call[r].name \in Names \cup SnapshotNames /\ call[r].source \in Sources
         /\ call[r].detached \in BOOLEAN /\ call[r].size \in Nat /\ call[r].limit \in Nat
         /\ call[r].method = "CreateVolume" => call[r].name \in Names
         /\ call[r].method = "CreateSnapshot" =>
              /\ call[r].name \in SnapshotNames /\ IdOf(call[r]) \in SnapshotIds
              /\ call[r].source = <<"none">>
         /\ call[r].method = "DeleteSnapshot" => call[r].source \in SnapshotIds
         /\ VolumeId(call[r]) \in Volumes
<1>1. call[r] \in Call /\ WellFormed(call)
  BY PlansAssumption
<1>2. /\ call[r].method \in Methods /\ call[r].volume \in Volumes
      /\ call[r].name \in Names \cup SnapshotNames /\ call[r].source \in Sources
      /\ call[r].detached \in BOOLEAN /\ call[r].size \in Nat /\ call[r].limit \in Nat
  BY <1>1 DEF Call
<1>3. /\ call[r].method = "CreateVolume" => call[r].name \in Names
      /\ call[r].method = "CreateSnapshot" =>
           call[r].name \in SnapshotNames /\ call[r].source = <<"none">>
      /\ call[r].method = "DeleteSnapshot" => call[r].source \in SnapshotIds
  BY <1>1 DEF WellFormed
<1>4. call[r].method = "CreateSnapshot" => IdOf(call[r]) \in SnapshotIds
  BY <1>2, <1>3 DEF IdOf, SnapshotIds
<1>5. VolumeId(call[r]) \in Volumes
  BY <1>2, <1>3, VolumeIdAssumption DEF VolumeId
<1>6. QED
  BY <1>1, <1>2, <1>3, <1>4, <1>5

\* What a call may copy.
LEMMA SourcesAre ==
  ASSUME call \in Plans, NEW r \in Requests
  PROVE  LET src == call[r].source IN
         \/ src = <<"none">> /\ src[1] = "none"
         \/ \E v \in Volumes : src = <<"volume", v>> /\ src[1] = "volume" /\ src[2] = v
         \/ \E v \in Volumes, s \in SnapshotNames :
              /\ src \in {<<"snapshot", v, s>>, <<"detached", v, s>>}
              /\ src \in SnapshotIds /\ src[2] = v /\ src[3] = s
<1>1. call[r].source \in Sources
  BY CallsAre
<1>2. QED
  BY <1>1 DEF Sources, SnapshotIds

\* Calls for one volume.
LEMMA CallsAreWellFormed ==
  ASSUME call \in Plans, NEW q \in Requests, NEW r \in Requests, NEW v \in Volumes,
         Creates(r, v)
  PROVE  /\ call[r].source[1] # "none" => call[r].source[2] # v
         /\ Creates(q, v) /\ q # r =>
              /\ call[q].name = call[r].name
              /\ \/ call[q] = call[r]
                 \/ /\ call[q].source[1] = "none"
                    /\ call[q].limit > 0 /\ call[q].limit = call[q].size
                    /\ call[r].source[1] = "none"
                    /\ call[r].limit > 0 /\ call[r].limit = call[r].size
              /\ \A p \in Requests :
                   /\ ~ Expands(p, v)
                   /\ Is(p, "CreateSnapshot") /\ call[p].volume = v
                        => call[r].source[1] = "none" \/ ~ call[r].detached
<1>1. WellFormed(call)
  BY PlansAssumption
<1>2. call[r].source[1] # "none" => call[r].source[2] # v
  BY <1>1 DEF WellFormed, Creates, Is
<1>3. CASE Creates(q, v) /\ q # r
  <2>1. SameVolume(call, r, q) /\ SameVolume(call, q, r)
    BY <1>1, <1>3 DEF WellFormed, Creates, Is
  <2>2. QED
    BY <2>1, <1>2, <1>3 DEF SameVolume, Creates, Is, Expands
<1>4. QED
  BY <1>2, <1>3

\* What a call's dataset is, case by case.
LEMMA DestIs ==
  ASSUME call \in Plans, NEW r \in Requests
  PROVE  /\ call[r].method \in {"CreateVolume", "DeleteVolume", "ControllerExpandVolume"}
              => Dest(call[r]) = Vol(VolumeId(call[r]))
         /\ Is(r, "CreateSnapshot") => Dest(call[r]) = Det(call[r].volume, call[r].name)
         /\ Is(r, "DeleteSnapshot") => Dest(call[r]) = Det(call[r].source[2], call[r].source[3])
         /\ Dest(call[r]) \in Vols \cup Dets
<1>1. /\ call[r].method \in {"CreateVolume", "DeleteVolume", "ControllerExpandVolume"}
              => Dest(call[r]) = Vol(VolumeId(call[r]))
      /\ Is(r, "CreateSnapshot") => Dest(call[r]) = Det(call[r].volume, call[r].name)
      /\ Is(r, "DeleteSnapshot") => Dest(call[r]) = Det(call[r].source[2], call[r].source[3])
  BY DEF Dest, Is
<1>2. /\ call[r].method \in Methods /\ VolumeId(call[r]) \in Volumes
      /\ call[r].volume \in Volumes
      /\ Is(r, "CreateSnapshot") => call[r].name \in SnapshotNames
      /\ Is(r, "DeleteSnapshot") => call[r].source \in SnapshotIds
  BY CallsAre DEF Is
<1>3. Is(r, "DeleteSnapshot") =>
        call[r].source[2] \in Volumes /\ call[r].source[3] \in SnapshotNames
  BY <1>2 DEF SnapshotIds
<1>4. Dest(call[r]) \in Vols \cup Dets
  BY <1>1, <1>2, <1>3 DEF Is, Methods, Vols, Dets
<1>5. QED
  BY <1>1, <1>4

\* What a call copies from, when it copies.
LEMMA CopyIs ==
  ASSUME call \in Plans, NEW r \in Requests,
         Is(r, "CreateSnapshot") \/ (Is(r, "CreateVolume") /\ call[r].source[1] # "none")
  PROVE  /\ CopyFrom(call[r]) \in SnapNames
         /\ From(call[r]) \in Vols \cup Dets
         /\ Tag(call[r]) \in Tags
         /\ CopyFrom(call[r])[1] = From(call[r]) /\ CopyFrom(call[r])[2] = Tag(call[r])
<1>1. /\ VolumeId(call[r]) \in Volumes /\ call[r].volume \in Volumes
      /\ Is(r, "CreateSnapshot") =>
           call[r].name \in SnapshotNames /\ call[r].source[1] = "none"
  BY CallsAre DEF Is
<1>2. From(call[r]) \in Vols \cup Dets /\ Tag(call[r]) \in Tags
  <2>1. CASE Is(r, "CreateSnapshot")
    BY <1>1, <2>1 DEF From, Tag, Is, Vols, Tags
  <2>2. CASE Is(r, "CreateVolume") /\ call[r].source[1] # "none"
    <3>1. \/ call[r].source[1] = "volume" /\ call[r].source[2] \in Volumes
          \/ /\ call[r].source[1] \in {"snapshot", "detached"} /\ call[r].source[2] \in Volumes
             /\ call[r].source[3] \in SnapshotNames
      BY <2>2, SourcesAre
    <3>2. QED
      BY <1>1, <2>2, <3>1 DEF From, Tag, Is, Vols, Dets, Tags
  <2>3. QED
    BY <2>1, <2>2
<1>3. QED
  BY <1>2 DEF CopyFrom, SnapNames

------------------------------------------------------------
(* The steps of the handlers.                             *)

\* The names of the steps that concern a table.
LEMMA TableStepsAre ==
  /\ Keep("nfs") = "keep-nfs" /\ Keep("smb") = "keep-smb" /\ Keep("target") = "keep-target"
  /\ Keep("extent") = "keep-extent" /\ Keep("lun") = "keep-lun"
  /\ Keep("subsys") = "keep-subsys" /\ Keep("namespace") = "keep-namespace"
  /\ Keep("port") = "keep-port"
  /\ Ask("nfs") = "ask-nfs" /\ Ask("smb") = "ask-smb" /\ Ask("target") = "ask-target"
  /\ Ask("extent") = "ask-extent" /\ Ask("lun") = "ask-lun" /\ Ask("subsys") = "ask-subsys"
  /\ Ask("namespace") = "ask-namespace" /\ Ask("port") = "ask-port"
  /\ Remove("nfs") = "delete-nfs" /\ Remove("smb") = "delete-smb"
  /\ Remove("target") = "delete-target" /\ Remove("extent") = "delete-extent"
  /\ Remove("lun") = "delete-lun" /\ Remove("subsys") = "delete-subsys"
  /\ Remove("namespace") = "delete-namespace" /\ Remove("port") = "delete-port"
  /\ Inherit("nfs") = "inherit-nfs" /\ Inherit("smb") = "inherit-smb"
  /\ Inherit("target") = "inherit-target" /\ Inherit("extent") = "inherit-extent"
  /\ Inherit("lun") = "inherit-lun" /\ Inherit("subsys") = "inherit-subsys"
  /\ Inherit("namespace") = "inherit-namespace" /\ Inherit("port") = "inherit-port"
BY DEF Keep, Ask, Remove, Inherit, KeepSteps, AskSteps, RemoveSteps, InheritSteps

------------------------------------------------------------
(* What comes after each step.                            *)

\* One sequence after the other.
LEMMA JoinIs ==
  ASSUME NEW N, NEW a \in Seq(N), NEW b \in Seq(N)
  PROVE  /\ a \o b \in Seq(N) /\ Len(a \o b) = Len(a) + Len(b)
         /\ \A i \in 1..Len(a) : (a \o b)[i] = a[i]
         /\ \A i \in 1..Len(b) : (a \o b)[Len(a) + i] = b[i]
OBVIOUS

\* Sequences of different steps, one after the other.
LEMMA JoinIsSimple ==
  ASSUME NEW A, NEW B, A \cap B = {}, NEW a \in Seq(A), NEW b \in Seq(B), Simple(a), Simple(b)
  PROVE  Join(a, b) \in Seq(A \cup B) /\ Simple(Join(a, b))
<1> DEFINE w == a \o b
<1>0. a \in Seq(A \cup B) /\ b \in Seq(A \cup B)
  OBVIOUS
<1>1. /\ w \in Seq(A \cup B) /\ Len(w) = Len(a) + Len(b)
      /\ \A i \in 1..Len(a) : w[i] = a[i]
      /\ \A i \in 1..Len(b) : w[Len(a) + i] = b[i]
  BY <1>0, JoinIs
<1>a. (\A i \in 1..Len(a) : a[i] \in A) /\ (\A i \in 1..Len(b) : b[i] \in B)
  OBVIOUS
<1>2. Len(a) \in Nat /\ Len(b) \in Nat
  OBVIOUS
<1> HIDE DEF w
<1>3. ASSUME NEW i \in 1..Len(w), NEW j \in 1..Len(w), w[i] = w[j] PROVE i = j
  <2>1. i \in 1..Len(a) \/ (i > Len(a) /\ i - Len(a) \in 1..Len(b) /\ i = Len(a) + (i - Len(a)))
    BY <1>1, <1>2
  <2>2. j \in 1..Len(a) \/ (j > Len(a) /\ j - Len(a) \in 1..Len(b) /\ j = Len(a) + (j - Len(a)))
    BY <1>1, <1>2
  <2>3. CASE i \in 1..Len(a) /\ j \in 1..Len(a)
    BY <1>1, <1>3, <2>3 DEF Simple
  <2>4. CASE i \notin 1..Len(a) /\ j \notin 1..Len(a)
    <3>1. i - Len(a) = j - Len(a)
      <4>1. b[i - Len(a)] = b[j - Len(a)]
        BY <1>1, <1>3, <2>1, <2>2, <2>4
      <4>2. QED
        BY <2>1, <2>2, <2>4, <4>1 DEF Simple
    <3>2. QED
      BY <3>1, <2>1, <2>2, <1>2
  <2>5. QED
    BY <1>1, <1>a, <1>3, <2>1, <2>2, <2>3, <2>4
<1>4. QED
  BY <1>1, <1>3 DEF w, Simple, Join

\* What comes after the steps of a call.
LEMMA StepsFollow ==
  ASSUME NEW c, NEW N, Steps(c) \in Seq(N), Simple(Steps(c))
  PROVE  Leads(c, Steps(c), "reply")
<1> DEFINE s == Steps(c)
           steps == Append(s, "reply")
<1>0. DOMAIN s = 1..Len(s)
  OBVIOUS
<1> SUFFICES ASSUME NEW i \in 1..Len(s)
             PROVE  StepAfter(c, s[i]) = IF i = Len(s) THEN "reply" ELSE s[i + 1]
  BY <1>0 DEF Leads, StepOf
<1> DEFINE j == CHOOSE n \in 1..Len(s) : steps[n] = s[i]
<1>1. \A n \in 1..Len(s) : steps[n] = s[n]
  OBVIOUS
<1>2. j \in 1..Len(s) /\ steps[j] = s[i]
  BY <1>1
<1>3. j = i
  BY <1>1, <1>2 DEF Simple
<1>5. StepAfter(c, s[i]) = steps[1 + j]
  BY <1>0 DEF StepAfter
<1> HIDE DEF j
<1>6. StepAfter(c, s[i]) = steps[1 + i]
  BY <1>3, <1>5
<1>7. steps[1 + i] = IF i = Len(s) THEN "reply" ELSE s[i + 1]
  OBVIOUS
<1>8. QED
  BY <1>6, <1>7

\* The first of two sequences leads to the second.
LEMMA JoinLeads ==
  ASSUME NEW c, NEW N, NEW a \in Seq(N), NEW b \in Seq(N), Len(a) > 0, Len(b) > 0,
         NEW next, Leads(c, Join(a, b), next)
  PROVE  Leads(c, a, b[1]) /\ Leads(c, b, next)
<1> DEFINE w == a \o b
<1>0. a \in Seq(N) /\ b \in Seq(N)
  OBVIOUS
<1>1. /\ w \in Seq(N) /\ Len(w) = Len(a) + Len(b)
      /\ \A i \in 1..Len(a) : w[i] = a[i]
      /\ \A i \in 1..Len(b) : w[Len(a) + i] = b[i]
  BY <1>0, JoinIs
<1>2. Len(a) \in Nat /\ Len(b) \in Nat
  OBVIOUS
<1>3. \A i \in 1..Len(w) :
        /\ StepOf(c, w[i])
        /\ StepAfter(c, w[i]) = IF i = Len(w) THEN next ELSE w[i + 1]
  BY DEF Leads, Join
<1> HIDE DEF w
<1>4. ASSUME NEW i \in 1..Len(a)
      PROVE  StepOf(c, a[i]) /\ StepAfter(c, a[i]) = IF i = Len(a) THEN b[1] ELSE a[i + 1]
  <2>1. i \in 1..Len(w) /\ w[i] = a[i] /\ i # Len(w)
    BY <1>1, <1>2
  <2>2. IF i = Len(a) THEN i + 1 = Len(a) + 1 /\ 1 \in 1..Len(b) ELSE i + 1 \in 1..Len(a)
    BY <1>2
  <2>3. w[i + 1] = IF i = Len(a) THEN b[1] ELSE a[i + 1]
    BY <1>1, <2>2
  <2>4. QED
    BY <1>3, <2>1, <2>3
<1>5. ASSUME NEW i \in 1..Len(b)
      PROVE  StepOf(c, b[i]) /\ StepAfter(c, b[i]) = IF i = Len(b) THEN next ELSE b[i + 1]
  <2>1. Len(a) + i \in 1..Len(w) /\ (Len(a) + i = Len(w) <=> i = Len(b))
    <3>1. Len(a) + i \in 1..(Len(a) + Len(b)) /\ (Len(a) + i = Len(a) + Len(b) <=> i = Len(b))
      BY <1>2
    <3>2. QED
      BY <1>1, <3>1
  <2>2. w[Len(a) + i] = b[i] /\ (i # Len(b) => w[Len(a) + (i + 1)] = b[i + 1])
    BY <1>1, <1>2
  <2>3. Len(a) + i + 1 = Len(a) + (i + 1)
    BY <1>2
  <2>4. QED
    BY <1>3, <2>1, <2>2, <2>3
<1>6. QED
  BY <1>4, <1>5 DEF Leads

\* What comes after the steps of a call that has three parts.
LEMMA PartsLead ==
  ASSUME NEW c, NEW A, NEW B, NEW D, A \cap B = {}, (A \cup B) \cap D = {},
         NEW a \in Seq(A), NEW b \in Seq(B), NEW d \in Seq(D),
         Simple(a), Simple(b), Simple(d), Len(a) > 0, Len(b) > 0, Len(d) > 0,
         Steps(c) = Join(Join(a, b), d)
  PROVE  /\ Leads(c, a, b[1]) /\ Leads(c, b, d[1]) /\ Leads(c, d, "reply")
         /\ Head(Steps(c)) = a[1]
<1> DEFINE N == (A \cup B) \cup D
           w == a \o b
           x == w \o d
<1>1. w \in Seq(A \cup B) /\ Simple(w)
  BY JoinIsSimple DEF Join
<1>2. a \in Seq(N) /\ b \in Seq(N) /\ d \in Seq(N)
  OBVIOUS
<1>3. w \in Seq(N) /\ Len(w) = Len(a) + Len(b) /\ w[1] = a[1]
  BY <1>2, JoinIs
<1> HIDE DEF w
<1>4. x \in Seq(N) /\ Simple(x)
  BY <1>1, JoinIsSimple DEF Join
<1> HIDE DEF N
<1>b. w \in Seq(N) /\ d \in Seq(N)
  BY <1>2, <1>3
<1>5. /\ x \in Seq(N) /\ Len(x) = Len(w) + Len(d)
      /\ \A i \in 1..Len(w) : x[i] = w[i]
      /\ \A i \in 1..Len(d) : x[Len(w) + i] = d[i]
  BY <1>b, JoinIs
<1> HIDE DEF x
<1>6. x = Steps(c)
  BY DEF w, x, Join
<1>7. Leads(c, x, "reply")
  BY <1>4, <1>6, StepsFollow
<1>8. Leads(c, w, d[1]) /\ Leads(c, d, "reply")
  BY <1>2, <1>3, <1>5, <1>7, JoinLeads DEF x, Join
<1>9. Leads(c, a, b[1]) /\ Leads(c, b, d[1])
  BY <1>2, <1>8, JoinLeads DEF w, Join
<1>10. Head(x) = x[1] /\ x[1] = w[1]
  BY <1>2, <1>3, <1>5
<1>11. QED
  BY <1>3, <1>6, <1>8, <1>9, <1>10

\* The steps of a creation up to its share are different.
LEMMA MakingIs ==
  ASSUME NEW f
  PROVE  f \in {<<"check", "create", "size">>, <<"check", "clone", "size">>, <<"check", "tmp",
                 "run", "poll", "props", "strip", "untmp", "size">>, <<"check", "tmp", "clone",
                 "untmp", "size">>, <<"check", "tmp", "clone", "size">>}
           => f \in Seq(Making) /\ Simple(f) /\ Len(f) > 0 /\ f[1] = "check"
<1>1. CASE f = <<"check", "create", "size">>
  BY <1>1 DEF Making, Simple
<1>2. CASE f = <<"check", "clone", "size">>
  BY <1>2 DEF Making, Simple
<1>3. CASE f = <<"check", "tmp", "run", "poll", "props", "strip", "untmp", "size">>
  BY <1>3 DEF Making, Simple
<1>4. CASE f = <<"check", "tmp", "clone", "untmp", "size">>
  BY <1>4 DEF Making, Simple
<1>5. CASE f = <<"check", "tmp", "clone", "size">>
  BY <1>5 DEF Making, Simple
<1>6. QED
  BY <1>1, <1>2, <1>3, <1>4, <1>5

\* Those of createShare().
LEMMA SharingIs ==
  ASSUME NEW f
  PROVE  f \in {<<"look", "nfs", "keep-nfs">>, <<"look", "smb", "keep-smb">>, <<"look", "target",
                 "groups", "keep-target", "extent", "keep-extent", "lun", "keep-lun", "name">>,
                 <<"look", "subsys", "keep-subsys", "namespace", "keep-namespace", "port",
                 "name">>}
           => f \in Seq(MakingShare) /\ Simple(f) /\ Len(f) > 0 /\ f[1] = "look"
<1>1. CASE f = <<"look", "nfs", "keep-nfs">>
  BY <1>1 DEF MakingShare, Simple
<1>2. CASE f = <<"look", "smb", "keep-smb">>
  BY <1>2 DEF MakingShare, Simple
<1>3. CASE f = <<"look", "target", "groups", "keep-target", "extent", "keep-extent", "lun",
      "keep-lun", "name">>
  BY <1>3 DEF MakingShare, Simple
<1>4. CASE f = <<"look", "subsys", "keep-subsys", "namespace", "keep-namespace", "port",
      "name">>
  BY <1>4 DEF MakingShare, Simple
<1>5. QED
  BY <1>1, <1>2, <1>3, <1>4

\* Those of deleteShare().
LEMMA UnsharingIs ==
  ASSUME NEW f
  PROVE  f \in {<<"find", "ask-nfs", "delete-nfs", "inherit-nfs">>, <<"find", "ask-smb",
                 "delete-smb", "inherit-smb">>, <<"find", "ask-target", "delete-target",
                 "inherit-target", "ask-extent", "delete-extent", "inherit-extent">>, <<"find",
                 "delete-namespace", "inherit-namespace", "delete-subsys", "inherit-subsys">>}
           => f \in Seq(RemovingShare) /\ Simple(f) /\ Len(f) > 0 /\ f[1] = "find"
<1>1. CASE f = <<"find", "ask-nfs", "delete-nfs", "inherit-nfs">>
  BY <1>1 DEF RemovingShare, Simple
<1>2. CASE f = <<"find", "ask-smb", "delete-smb", "inherit-smb">>
  BY <1>2 DEF RemovingShare, Simple
<1>3. CASE f = <<"find", "ask-target", "delete-target", "inherit-target", "ask-extent",
      "delete-extent", "inherit-extent">>
  BY <1>3 DEF RemovingShare, Simple
<1>4. CASE f = <<"find", "delete-namespace", "inherit-namespace", "delete-subsys",
      "inherit-subsys">>
  BY <1>4 DEF RemovingShare, Simple
<1>5. QED
  BY <1>1, <1>2, <1>3, <1>4

\* The steps of createShare() and of deleteShare(), for each kind of share.
LEMMA ShareStepsAre ==
  ASSUME kind \in Kinds
  PROVE  LET s == CreateShare[kind]  u == DeleteShare[kind] IN
         \/ /\ kind = "nfs"
            /\ s = <<"look", "nfs", "keep-nfs">>
            /\ u = <<"find", "ask-nfs", "delete-nfs", "inherit-nfs">>
         \/ /\ kind = "smb"
            /\ s = <<"look", "smb", "keep-smb">>
            /\ u = <<"find", "ask-smb", "delete-smb", "inherit-smb">>
         \/ /\ kind = "iscsi"
            /\ s = <<"look", "target", "groups", "keep-target", "extent", "keep-extent",
                    "lun", "keep-lun", "name">>
            /\ u = <<"find", "ask-target", "delete-target", "inherit-target", "ask-extent",
                    "delete-extent", "inherit-extent">>
         \/ /\ kind = "nvmeof"
            /\ s = <<"look", "subsys", "keep-subsys", "namespace", "keep-namespace", "port",
                    "name">>
            /\ u = <<"find", "delete-namespace", "inherit-namespace", "delete-subsys",
                    "inherit-subsys">>
<1>1. /\ CreateShare["nfs"] = CreateNfs /\ CreateShare["smb"] = CreateSmb
      /\ CreateShare["iscsi"] = CreateIscsi /\ CreateShare["nvmeof"] = CreateNvmeof
      /\ DeleteShare["nfs"] = DeleteNfs /\ DeleteShare["smb"] = DeleteSmb
      /\ DeleteShare["iscsi"] = DeleteIscsi /\ DeleteShare["nvmeof"] = DeleteNvmeof
  BY DEF CreateShare, DeleteShare
<1>2. CASE kind = "nfs"
  BY <1>1, <1>2, TableStepsAre DEF CreateNfs, DeleteNfs
<1>3. CASE kind = "smb"
  BY <1>1, <1>3, TableStepsAre DEF CreateSmb, DeleteSmb
<1>4. CASE kind = "iscsi"
  BY <1>1, <1>4, TableStepsAre DEF CreateIscsi, DeleteIscsi
<1>5. CASE kind = "nvmeof"
  BY <1>1, <1>5, TableStepsAre DEF CreateNvmeof, DeleteNvmeof
<1>6. QED
  BY <1>2, <1>3, <1>4, <1>5 DEF Kinds

\* The steps of CreateVolume.
LEMMA CreationAfter ==
  ASSUME SetupIs, NEW r \in Requests, Is(r, "CreateVolume")
  PROVE  LET c == call[r] IN
         /\ c.source[1] \in {"none", "snapshot", "detached", "volume"}
         /\ Head(Steps(c)) = "check"
         /\ StepAfter(c, "check") = IF c.source[1] = "none" THEN "create"
                                    ELSE IF c.source[1] = "snapshot" THEN "clone" ELSE "tmp"
         /\ c.source[1] = "none" => StepAfter(c, "create") = "size"
         /\ c.source[1] \in {"volume", "detached"} =>
              StepAfter(c, "tmp") = IF c.detached THEN "run" ELSE "clone"
         /\ ByCloning(c) =>
              StepAfter(c, "clone") = IF c.source[1] = "detached" THEN "untmp" ELSE "size"
         /\ c.source[1] # "none" /\ c.detached =>
              /\ c.source[1] # "snapshot"
              /\ StepAfter(c, "run") = "poll" /\ StepAfter(c, "poll") = "props"
              /\ StepAfter(c, "props") = "strip" /\ StepAfter(c, "strip") = "untmp"
         /\ c.source[1] = "detached" \/ (c.source[1] = "volume" /\ c.detached) =>
              StepAfter(c, "untmp") = "size"
         /\ StepAfter(c, "size") = "look"
         /\ StepAfter(c, "look") = CASE kind = "nfs"   -> "nfs"
                                     [] kind = "smb"   -> "smb"
                                     [] kind = "iscsi" -> "target"
                                     [] OTHER          -> "subsys"
         /\ \A t \in Used : StepAfter(c, t) = AfterPost(t)
         /\ \A t \in Used \ {"port"} : StepAfter(c, Keep(t)) = AfterKeep(t)
         /\ kind = "iscsi" => StepAfter(c, "groups") = "keep-target"
         /\ kind \in {"iscsi", "nvmeof"} => StepAfter(c, "name") = "context"
         /\ StepAfter(c, "context") = "success" /\ StepAfter(c, "success") = "reply"
         /\ \A s \in Places(c) : StepOf(c, s)
<1> DEFINE c == call[r]
<1>1. /\ kind \in Kinds /\ c.method = "CreateVolume" /\ c.detached \in BOOLEAN
      /\ c.source[1] = "snapshot" => ~ c.detached
      /\ c.source[1] \in {"none", "snapshot", "detached", "volume"}
  BY SetupsAre, CallsAre, SourcesAre DEF Is
<1> HIDE DEF c
<1>2. PICK a : a = VolumeSteps(c)
  OBVIOUS
<1>3. PICK b : b = CreateShare[kind]
  OBVIOUS
<1>4. PICK d : d = <<"context", "success">>
  OBVIOUS
<1>5. /\ c.source[1] = "none" => a = <<"check", "create", "size">>
      /\ c.source[1] = "snapshot" => a = <<"check", "clone", "size">>
      /\ c.source[1] \in {"volume", "detached"} /\ c.detached
           => a = <<"check", "tmp", "run", "poll", "props", "strip", "untmp", "size">>
      /\ c.source[1] = "detached" /\ ~ c.detached
           => a = <<"check", "tmp", "clone", "untmp", "size">>
      /\ c.source[1] = "volume" /\ ~ c.detached => a = <<"check", "tmp", "clone", "size">>
  BY <1>1, <1>2 DEF VolumeSteps
<1>6. /\ kind = "nfs" => b = <<"look", "nfs", "keep-nfs">>
      /\ kind = "smb" => b = <<"look", "smb", "keep-smb">>
      /\ kind = "iscsi" => b = <<"look", "target", "groups", "keep-target", "extent",
                               "keep-extent", "lun", "keep-lun", "name">>
      /\ kind = "nvmeof" => b = <<"look", "subsys", "keep-subsys", "namespace", "keep-namespace",
                               "port", "name">>
  BY <1>1, <1>3, ShareStepsAre
<1>7. a \in Seq(Making) /\ Simple(a) /\ Len(a) > 0 /\ a[1] = "check"
  BY <1>1, <1>5, MakingIs
<1>8. b \in Seq(MakingShare) /\ Simple(b) /\ Len(b) > 0 /\ b[1] = "look"
  BY <1>1, <1>6, SharingIs DEF Kinds
<1>9. /\ d \in Seq({"context", "success"}) /\ Simple(d)
      /\ Len(d) = 2 /\ d[1] = "context" /\ d[2] = "success"
  BY <1>4 DEF Simple
<1>10. Steps(c) = Join(Join(a, b), d)
  BY <1>1, <1>2, <1>3, <1>4 DEF Steps, Join
<1>11. Making \cap MakingShare = {} /\ (Making \cup MakingShare) \cap {"context", "success"} = {}
  BY DEF Making, MakingShare
<1>12. /\ Leads(c, a, b[1]) /\ Leads(c, b, d[1]) /\ Leads(c, d, "reply")
       /\ Head(Steps(c)) = a[1]
  BY <1>7, <1>8, <1>9, <1>10, <1>11, PartsLead, SMTT(30)
<1>13. /\ \A i \in 1..Len(a) :
            /\ StepOf(c, a[i])
            /\ StepAfter(c, a[i]) = IF i = Len(a) THEN "look" ELSE a[i + 1]
       /\ \A i \in 1..Len(b) :
            /\ StepOf(c, b[i])
            /\ StepAfter(c, b[i]) = IF i = Len(b) THEN "context" ELSE b[i + 1]
  BY <1>8, <1>9, <1>12 DEF Leads
<1>14. /\ StepAfter(c, "check") = IF c.source[1] = "none" THEN "create"
                                  ELSE IF c.source[1] = "snapshot" THEN "clone" ELSE "tmp"
       /\ c.source[1] = "none" => StepAfter(c, "create") = "size"
       /\ c.source[1] \in {"volume", "detached"} =>
            StepAfter(c, "tmp") = IF c.detached THEN "run" ELSE "clone"
       /\ ByCloning(c) =>
            StepAfter(c, "clone") = IF c.source[1] = "detached" THEN "untmp" ELSE "size"
       /\ c.source[1] # "none" /\ c.detached =>
            /\ c.source[1] # "snapshot"
            /\ StepAfter(c, "run") = "poll" /\ StepAfter(c, "poll") = "props"
            /\ StepAfter(c, "props") = "strip" /\ StepAfter(c, "strip") = "untmp"
       /\ c.source[1] = "detached" \/ (c.source[1] = "volume" /\ c.detached) =>
            StepAfter(c, "untmp") = "size"
       /\ StepAfter(c, "size") = "look"
       /\ \A s \in {"check", "size"}
                    \cup (IF c.source[1] = "none" THEN {"create"}
                          ELSE IF c.detached THEN {"run", "poll", "props", "strip"} ELSE {"clone"})
                    \cup (IF c.source[1] \in {"volume", "detached"} THEN {"tmp"} ELSE {})
                    \cup (IF c.source[1] = "detached" \/ (c.source[1] = "volume" /\ c.detached)
                          THEN {"untmp"} ELSE {}) : StepOf(c, s)
  <2>1. CASE c.source[1] = "none"
    <3>1. Len(a) = 3 /\ a[1] = "check" /\ a[2] = "create" /\ a[3] = "size"
      BY <1>5, <2>1
    <3>2. QED
      BY <1>1, <1>13, <2>1, <3>1 DEF ByCloning
  <2>2. CASE c.source[1] = "snapshot"
    <3>1. Len(a) = 3 /\ a[1] = "check" /\ a[2] = "clone" /\ a[3] = "size"
      BY <1>5, <2>2
    <3>2. QED
      BY <1>1, <1>13, <2>2, <3>1 DEF ByCloning
  <2>3. CASE c.source[1] \in {"volume", "detached"} /\ c.detached
    <3>1. /\ Len(a) = 8 /\ a[1] = "check" /\ a[2] = "tmp" /\ a[3] = "run" /\ a[4] = "poll"
          /\ a[5] = "props" /\ a[6] = "strip" /\ a[7] = "untmp" /\ a[8] = "size"
      BY <1>5, <2>3
    <3>2. QED
      BY <1>1, <1>13, <2>3, <3>1 DEF ByCloning
  <2>4. CASE c.source[1] = "detached" /\ ~ c.detached
    <3>1. /\ Len(a) = 5 /\ a[1] = "check" /\ a[2] = "tmp" /\ a[3] = "clone" /\ a[4] = "untmp"
          /\ a[5] = "size"
      BY <1>5, <2>4
    <3>2. QED
      BY <1>1, <1>13, <2>4, <3>1 DEF ByCloning
  <2>5. CASE c.source[1] = "volume" /\ ~ c.detached
    <3>1. Len(a) = 4 /\ a[1] = "check" /\ a[2] = "tmp" /\ a[3] = "clone" /\ a[4] = "size"
      BY <1>5, <2>5
    <3>2. QED
      BY <1>1, <1>13, <2>5, <3>1 DEF ByCloning
  <2>6. QED
    BY <1>1, <2>1, <2>2, <2>3, <2>4, <2>5
<1>15. /\ StepAfter(c, "look") = CASE kind = "nfs"   -> "nfs"
                                   [] kind = "smb"   -> "smb"
                                   [] kind = "iscsi" -> "target"
                                   [] OTHER          -> "subsys"
       /\ \A t \in Used : StepAfter(c, t) = AfterPost(t)
       /\ \A t \in Used \ {"port"} : StepAfter(c, Keep(t)) = AfterKeep(t)
       /\ kind = "iscsi" => StepAfter(c, "groups") = "keep-target"
       /\ kind \in {"iscsi", "nvmeof"} => StepAfter(c, "name") = "context"
       /\ \A s \in {"look"} \cup Sharing : StepOf(c, s)
  <2>1. CASE kind = "nfs"
    <3>1. Len(b) = 3 /\ b[1] = "look" /\ b[2] = "nfs" /\ b[3] = "keep-nfs"
      BY <1>6, <2>1
    <3>2. QED
      BY <1>13, <2>1, <3>1, TableStepsAre DEF Used, AfterPost, AfterKeep, Sharing
  <2>2. CASE kind = "smb"
    <3>1. Len(b) = 3 /\ b[1] = "look" /\ b[2] = "smb" /\ b[3] = "keep-smb"
      BY <1>6, <2>2
    <3>2. QED
      BY <1>13, <2>2, <3>1, TableStepsAre DEF Used, AfterPost, AfterKeep, Sharing
  <2>3. CASE kind = "iscsi"
    <3>1. /\ Len(b) = 9 /\ b[1] = "look" /\ b[2] = "target" /\ b[3] = "groups"
          /\ b[4] = "keep-target" /\ b[5] = "extent" /\ b[6] = "keep-extent" /\ b[7] = "lun"
          /\ b[8] = "keep-lun" /\ b[9] = "name"
      BY <1>6, <2>3
    <3>2. QED
      BY <1>13, <2>3, <3>1, TableStepsAre DEF Used, AfterPost, AfterKeep, Sharing
  <2>4. CASE kind = "nvmeof"
    <3>1. /\ Len(b) = 7 /\ b[1] = "look" /\ b[2] = "subsys" /\ b[3] = "keep-subsys"
          /\ b[4] = "namespace" /\ b[5] = "keep-namespace" /\ b[6] = "port" /\ b[7] = "name"
      BY <1>6, <2>4
    <3>2. QED
      BY <1>13, <2>4, <3>1, TableStepsAre DEF Used, AfterPost, AfterKeep, Sharing
  <2>5. QED
    BY <1>1, <2>1, <2>2, <2>3, <2>4 DEF Kinds
<1>16. /\ StepAfter(c, "context") = "success" /\ StepAfter(c, "success") = "reply"
       /\ StepOf(c, "context") /\ StepOf(c, "success")
  BY <1>9, <1>12 DEF Leads
<1>17. \A s \in Places(c) : StepOf(c, s)
  BY <1>1, <1>14, <1>15, <1>16 DEF Places
<1>18. QED
  BY <1>1, <1>7, <1>12, <1>14, <1>15, <1>16, <1>17 DEF c

\* The steps of DeleteVolume.
LEMMA DeletionAfter ==
  ASSUME SetupIs, NEW r \in Requests, Is(r, "DeleteVolume")
  PROVE  LET c == call[r] IN
         /\ Head(Steps(c)) = "read" /\ StepAfter(c, "read") = "find"
         /\ StepAfter(c, "find") = CASE kind = "nfs"   -> "ask-nfs"
                                     [] kind = "smb"   -> "ask-smb"
                                     [] kind = "iscsi" -> "ask-target"
                                     [] OTHER          -> "delete-namespace"
         /\ \A t \in Used \ {"lun", "port", "subsys", "namespace"} :
              StepAfter(c, Ask(t)) = Remove(t)
         /\ \A t \in Used \ {"lun", "port"} :
              StepAfter(c, Remove(t)) = Inherit(t) /\ StepAfter(c, Inherit(t)) = AfterInherit(t)
         /\ StepAfter(c, DeleteShare[kind][Len(DeleteShare[kind])]) = "origin"
         /\ StepAfter(c, "origin") = "managed" /\ StepAfter(c, "managed") = "destroy"
         /\ StepAfter(c, "destroy") = "reply"
         /\ \A s \in Places(c) : StepOf(c, s)
<1> DEFINE c == call[r]
<1>1. kind \in Kinds /\ c.method = "DeleteVolume"
  BY SetupsAre DEF Is
<1> HIDE DEF c
<1>2. PICK a : a = <<"read">>
  OBVIOUS
<1>3. PICK b : b = DeleteShare[kind]
  OBVIOUS
<1>4. PICK d : d = <<"origin", "managed", "destroy">>
  OBVIOUS
<1>5. /\ kind = "nfs" => b = <<"find", "ask-nfs", "delete-nfs", "inherit-nfs">>
      /\ kind = "smb" => b = <<"find", "ask-smb", "delete-smb", "inherit-smb">>
      /\ kind = "iscsi" => b = <<"find", "ask-target", "delete-target", "inherit-target",
                               "ask-extent", "delete-extent", "inherit-extent">>
      /\ kind = "nvmeof" => b = <<"find", "delete-namespace", "inherit-namespace", "delete-subsys",
                               "inherit-subsys">>
  BY <1>1, <1>3, ShareStepsAre
<1>6. a \in Seq({"read"}) /\ Simple(a) /\ Len(a) = 1 /\ a[1] = "read"
  BY <1>2 DEF Simple
<1>7. b \in Seq(RemovingShare) /\ Simple(b) /\ Len(b) > 0 /\ b[1] = "find"
  BY <1>1, <1>5, UnsharingIs DEF Kinds
<1>8. /\ d \in Seq(Unshared) /\ Simple(d)
      /\ Len(d) = 3 /\ d[1] = "origin" /\ d[2] = "managed" /\ d[3] = "destroy"
  BY <1>4 DEF Simple, Unshared
<1>9. Steps(c) = Join(Join(a, b), d)
  BY <1>1, <1>2, <1>3, <1>4 DEF Steps, Join
<1>10. {"read"} \cap RemovingShare = {} /\ ({"read"} \cup RemovingShare) \cap Unshared = {}
  BY DEF RemovingShare, Unshared
<1>11. /\ Leads(c, a, b[1]) /\ Leads(c, b, d[1]) /\ Leads(c, d, "reply")
       /\ Head(Steps(c)) = a[1]
  BY <1>6, <1>7, <1>8, <1>9, <1>10, PartsLead, SMTT(30)
<1>12. \A i \in 1..Len(b) :
         /\ StepOf(c, b[i])
         /\ StepAfter(c, b[i]) = IF i = Len(b) THEN "origin" ELSE b[i + 1]
  BY <1>8, <1>11 DEF Leads
<1>13. /\ StepAfter(c, "find") = CASE kind = "nfs"   -> "ask-nfs"
                                   [] kind = "smb"   -> "ask-smb"
                                   [] kind = "iscsi" -> "ask-target"
                                   [] OTHER          -> "delete-namespace"
       /\ \A t \in Used \ {"lun", "port", "subsys", "namespace"} :
            StepAfter(c, Ask(t)) = Remove(t)
       /\ \A t \in Used \ {"lun", "port"} :
            StepAfter(c, Remove(t)) = Inherit(t) /\ StepAfter(c, Inherit(t)) = AfterInherit(t)
       /\ \A s \in {"find"} \cup Unsharing : StepOf(c, s)
  <2>1. CASE kind = "nfs"
    <3>1. /\ Len(b) = 4 /\ b[1] = "find" /\ b[2] = "ask-nfs" /\ b[3] = "delete-nfs"
          /\ b[4] = "inherit-nfs"
      BY <1>5, <2>1
    <3>2. QED
      BY <1>12, <2>1, <3>1, TableStepsAre DEF Used, AfterInherit, Unsharing
  <2>2. CASE kind = "smb"
    <3>1. /\ Len(b) = 4 /\ b[1] = "find" /\ b[2] = "ask-smb" /\ b[3] = "delete-smb"
          /\ b[4] = "inherit-smb"
      BY <1>5, <2>2
    <3>2. QED
      BY <1>12, <2>2, <3>1, TableStepsAre DEF Used, AfterInherit, Unsharing
  <2>3. CASE kind = "iscsi"
    <3>1. /\ Len(b) = 7 /\ b[1] = "find" /\ b[2] = "ask-target" /\ b[3] = "delete-target"
          /\ b[4] = "inherit-target" /\ b[5] = "ask-extent" /\ b[6] = "delete-extent"
          /\ b[7] = "inherit-extent"
      BY <1>5, <2>3
    <3>2. QED
      BY <1>12, <2>3, <3>1, TableStepsAre DEF Used, AfterInherit, Unsharing
  <2>4. CASE kind = "nvmeof"
    <3>1. /\ Len(b) = 5 /\ b[1] = "find" /\ b[2] = "delete-namespace"
          /\ b[3] = "inherit-namespace" /\ b[4] = "delete-subsys" /\ b[5] = "inherit-subsys"
      BY <1>5, <2>4
    <3>2. QED
      BY <1>12, <2>4, <3>1, TableStepsAre DEF Used, AfterInherit, Unsharing
  <2>5. QED
    BY <1>1, <2>1, <2>2, <2>3, <2>4 DEF Kinds
<1>14. /\ StepAfter(c, "read") = "find" /\ StepOf(c, "read")
       /\ StepAfter(c, "origin") = "managed" /\ StepAfter(c, "managed") = "destroy"
       /\ StepAfter(c, "destroy") = "reply"
       /\ StepOf(c, "origin") /\ StepOf(c, "managed") /\ StepOf(c, "destroy")
  BY <1>6, <1>7, <1>8, <1>11 DEF Leads
<1>15. StepAfter(c, DeleteShare[kind][Len(DeleteShare[kind])]) = "origin"
  <2>1. Len(b) \in 1..Len(b)
    BY <1>7
  <2>2. StepAfter(c, b[Len(b)]) = "origin"
    BY <1>12, <2>1
  <2>3. QED
    BY <1>3, <2>2
<1>16. QED
  BY <1>1, <1>6, <1>11, <1>13, <1>14, <1>15 DEF c, Places, Unshared

\* CreateSnapshot's steps, and those of the calls with one or two.
LEMMA OtherAfter ==
  ASSUME NEW c, c.detached \in BOOLEAN
  PROVE  /\ c.method = "CreateSnapshot" /\ c.detached =>
              /\ Head(Steps(c)) = "check"
              /\ StepAfter(c, "check") = "container" /\ StepAfter(c, "container") = "tmp"
              /\ StepAfter(c, "tmp") = "run" /\ StepAfter(c, "run") = "poll"
              /\ StepAfter(c, "poll") = "props" /\ StepAfter(c, "props") = "strip"
              /\ StepAfter(c, "strip") = "untmp" /\ StepAfter(c, "untmp") = "success"
              /\ StepAfter(c, "success") = "reply"
              /\ \A s \in {"check", "container", "tmp", "run", "poll", "props", "strip", "untmp",
                            "success"} : StepOf(c, s)
         /\ c.method = "CreateSnapshot" /\ ~ c.detached =>
              /\ Head(Steps(c)) = "check"
              /\ StepAfter(c, "check") = "take" /\ StepAfter(c, "take") = "success"
              /\ StepAfter(c, "success") = "reply"
              /\ \A s \in {"check", "take", "success"} : StepOf(c, s)
         /\ c.method = "DeleteSnapshot" /\ c.source[1] = "detached" =>
              /\ Head(Steps(c)) = "destroy"
              /\ StepAfter(c, "destroy") = "uncontain" /\ StepAfter(c, "uncontain") = "reply"
              /\ \A s \in {"destroy", "uncontain"} : StepOf(c, s)
         /\ c.method = "DeleteSnapshot" /\ c.source[1] # "detached" =>
              /\ Head(Steps(c)) = "release"
              /\ StepAfter(c, "release") = "reply"
              /\ \A s \in {"release"} : StepOf(c, s)
         /\ c.method = "ControllerExpandVolume" =>
              /\ Head(Steps(c)) = "resize"
              /\ StepAfter(c, "resize") = "reply"
              /\ \A s \in {"resize"} : StepOf(c, s)
<1>0. PICK f : f = Steps(c)
  OBVIOUS
<1>a. ASSUME NEW N, f \in Seq(N), Simple(f)
      PROVE  \A i \in 1..Len(f) :
               /\ StepOf(c, f[i])
               /\ StepAfter(c, f[i]) = IF i = Len(f) THEN "reply" ELSE f[i + 1]
  BY <1>0, <1>a, StepsFollow DEF Leads
<1>1. CASE c.method = "CreateSnapshot" /\ c.detached
  <2>1. f = <<"check", "container", "tmp", "run", "poll", "props", "strip", "untmp",
             "success">>
    BY <1>0, <1>1 DEF Steps, SnapshotSteps
  <2>2. f \in Seq({"check", "container", "tmp", "run", "poll", "props", "strip", "untmp",
                   "success"}) /\ Simple(f)
    BY <2>1 DEF Simple
  <2>3. /\ Len(f) = 9 /\ f[1] = "check" /\ f[2] = "container" /\ f[3] = "tmp" /\ f[4] = "run"
        /\ f[5] = "poll" /\ f[6] = "props" /\ f[7] = "strip" /\ f[8] = "untmp"
        /\ f[9] = "success" /\ Head(f) = "check"
    BY <2>1
  <2>4. QED
    BY <1>0, <1>a, <1>1, <2>2, <2>3
<1>2. CASE c.method = "CreateSnapshot" /\ ~ c.detached
  <2>1. f = <<"check", "take", "success">>
    BY <1>0, <1>2 DEF Steps, SnapshotSteps
  <2>2. f \in Seq({"check", "take", "success"}) /\ Simple(f)
    BY <2>1 DEF Simple
  <2>3. /\ Len(f) = 3 /\ f[1] = "check" /\ f[2] = "take" /\ f[3] = "success"
        /\ Head(f) = "check"
    BY <2>1
  <2>4. QED
    BY <1>0, <1>a, <1>2, <2>2, <2>3
<1>3. CASE c.method = "DeleteSnapshot" /\ c.source[1] = "detached"
  <2>1. f = <<"destroy", "uncontain">>
    BY <1>0, <1>3 DEF Steps
  <2>2. f \in Seq({"destroy", "uncontain"}) /\ Simple(f)
    BY <2>1 DEF Simple
  <2>3. Len(f) = 2 /\ f[1] = "destroy" /\ f[2] = "uncontain" /\ Head(f) = "destroy"
    BY <2>1
  <2>4. QED
    BY <1>0, <1>a, <1>3, <2>2, <2>3
<1>4. CASE c.method = "DeleteSnapshot" /\ c.source[1] # "detached"
  <2>1. f = <<"release">>
    BY <1>0, <1>4 DEF Steps
  <2>2. f \in Seq({"release"}) /\ Simple(f)
    BY <2>1 DEF Simple
  <2>3. Len(f) = 1 /\ f[1] = "release" /\ Head(f) = "release"
    BY <2>1
  <2>4. QED
    BY <1>0, <1>a, <1>4, <2>2, <2>3
<1>5. CASE c.method = "ControllerExpandVolume"
  <2>1. f = <<"resize">>
    BY <1>0, <1>5 DEF Steps
  <2>2. f \in Seq({"resize"}) /\ Simple(f)
    BY <2>1 DEF Simple
  <2>3. Len(f) = 1 /\ f[1] = "resize" /\ Head(f) = "resize"
    BY <2>1
  <2>4. QED
    BY <1>0, <1>a, <1>5, <2>2, <2>3
<1>6. QED
  BY <1>1, <1>2, <1>3, <1>4, <1>5

\* Every place is a step of its call.
LEMMA PlacesAreSteps ==
  ASSUME SetupIs, NEW r \in Requests
  PROVE  \A s \in Places(call[r]) : StepOf(call[r], s)
<1>1. call[r].method \in Methods /\ call[r].detached \in BOOLEAN
  BY SetupsAre, CallsAre
<1>2. CASE Is(r, "CreateVolume")
  BY <1>2, CreationAfter
<1>3. CASE Is(r, "DeleteVolume")
  BY <1>3, DeletionAfter
<1>4. CASE call[r].method \in {"ControllerExpandVolume", "CreateSnapshot", "DeleteSnapshot"}
  BY <1>1, <1>4, OtherAfter DEF Places
<1>5. QED
  BY <1>1, <1>2, <1>3, <1>4 DEF Methods, Is


------------------------------------------------------------
(* Which calls are where.                                 *)

\* The steps that concern a table are those of the setup's kind.
LEMMA TablePlaceIs ==
  ASSUME SetupIs, NEW r \in Requests, InItsPlace(r), NEW t \in Tables
  PROVE  /\ pc[r] = t => Is(r, "CreateVolume") /\ t \in Used
         /\ pc[r] = Keep(t) => Is(r, "CreateVolume") /\ t \in Used \ {"port"}
         /\ pc[r] = Ask(t) =>
              Is(r, "DeleteVolume") /\ t \in Used \ {"lun", "port", "subsys", "namespace"}
         /\ pc[r] = Remove(t) => Is(r, "DeleteVolume") /\ t \in Used \ {"lun", "port"}
         /\ pc[r] = Inherit(t) => Is(r, "DeleteVolume") /\ t \in Used \ {"lun", "port"}
         /\ pc[r] = "groups" => kind = "iscsi"
         /\ pc[r] = "name" => kind \in {"iscsi", "nvmeof"}
<1>1. call[r].method \in Methods /\ kind \in Kinds
  BY SetupsAre, CallsAre
<1>2. pc[r] \in Places(call[r]) \cup {"idle", "pending", "reply", "done"}
  BY DEF InItsPlace
<1>3. \/ t = "nfs" \/ t = "smb" \/ t = "target" \/ t = "extent" \/ t = "lun" \/ t = "subsys"
      \/ t = "namespace" \/ t = "port"
  BY DEF Tables
<1>4. CASE call[r].method \in {"CreateVolume", "DeleteVolume"}
  <2>1. CASE kind = "nfs"
    BY <1>2, <1>3, <1>4, <2>1, TableStepsAre
       DEF Places, Sharing, Unsharing, Unshared, Is, Used
  <2>2. CASE kind = "smb"
    BY <1>2, <1>3, <1>4, <2>2, TableStepsAre
       DEF Places, Sharing, Unsharing, Unshared, Is, Used
  <2>3. CASE kind = "iscsi"
    BY <1>2, <1>3, <1>4, <2>3, TableStepsAre
       DEF Places, Sharing, Unsharing, Unshared, Is, Used
  <2>4. CASE kind = "nvmeof"
    BY <1>2, <1>3, <1>4, <2>4, TableStepsAre
       DEF Places, Sharing, Unsharing, Unshared, Is, Used
  <2>5. QED
    BY <1>1, <2>1, <2>2, <2>3, <2>4 DEF Kinds
<1>5. CASE call[r].method \in {"ControllerExpandVolume", "CreateSnapshot", "DeleteSnapshot"}
  BY <1>2, <1>3, <1>5, TableStepsAre DEF Places
<1>6. QED
  BY <1>1, <1>4, <1>5 DEF Methods
------------------------------------------------------------
(* What the steps do.                                     *)

\* The operators of the server, as these.
LEMMA ServerIs ==
  ASSUME Types
  PROVE  /\ \A d, new : Put(d, new) => IF d \in DOMAIN ds THEN ds' = ds ELSE Adds(d, new)
         /\ \A d, new : d \in DOMAIN ds /\ DatasetSet(d, new) => Changes(d, new)
         /\ \A d : DatasetDelete(d) =>
              /\ Removes(d)
              /\ Discards(SnapsOf(d) \cup {k \in DOMAIN snap : snap[k].defer /\ Clones(k) = {d}})
         /\ \A k, managed : SnapshotCreate(k, managed) =>
              IF k \in DOMAIN snap THEN snap' = snap
              ELSE Captures(k, [size |-> ds[k[1]].size, managed |-> managed, defer |-> FALSE])
         /\ \A k : SnapshotDelete(k) => Releases({k})
         /\ \A d : DatasetDestroySnapshots(d) => Releases(SnapsOf(d))
         /\ \A t \in Tables : \A i \in Ids : \A row : Insert(t, i, row) => Inserts(t, i, row)
         /\ \A t \in Tables : \A i \in Rows(t) : Erase(t, i) => Erases(t, i)
<1>1. ASSUME NEW d, NEW new, Put(d, new)
      PROVE  IF d \in DOMAIN ds THEN ds' = ds ELSE Adds(d, new)
  BY <1>1 DEF Put, Adds, IsFunction
<1>2. ASSUME NEW d \in DOMAIN ds, NEW new, DatasetSet(d, new) PROVE Changes(d, new)
  BY <1>2 DEF DatasetSet, Changes, IsFunction, Types
<1>3. ASSUME NEW d, DatasetDelete(d)
      PROVE  /\ Removes(d)
             /\ Discards(SnapsOf(d) \cup {k \in DOMAIN snap : snap[k].defer /\ Clones(k) = {d}})
  <2> DEFINE gone == SnapsOf(d) \cup {k \in DOMAIN snap : snap[k].defer /\ Clones(k) = {d}}
  <2>1. ds' = [x \in DOMAIN ds \ {d} |-> ds[x]] /\ snap' = [k \in DOMAIN snap \ gone |-> snap[k]]
    BY <1>3 DEF DatasetDelete
  <2> HIDE DEF gone
  <2>2. Removes(d) /\ Discards(gone)
    BY <2>1 DEF Removes, Discards, IsFunction
  <2>3. QED
    BY <2>2 DEF gone
<1>4. ASSUME NEW k, NEW managed, SnapshotCreate(k, managed)
      PROVE  IF k \in DOMAIN snap THEN snap' = snap
             ELSE Captures(k, [size |-> ds[k[1]].size, managed |-> managed, defer |-> FALSE])
  BY <1>4 DEF SnapshotCreate, Captures, IsFunction
<1>5. ASSUME NEW k, SnapshotDelete(k) PROVE Releases({k})
  <2>1. CASE k \in DOMAIN snap /\ Clones(k) # {}
    BY <1>5, <2>1 DEF SnapshotDelete, Releases, IsFunction, Types
  <2>2. CASE ~ (k \in DOMAIN snap /\ Clones(k) # {})
    BY <1>5, <2>2 DEF SnapshotDelete, Releases, IsFunction
  <2>3. QED
    BY <2>1, <2>2
<1>6. ASSUME NEW d, DatasetDestroySnapshots(d) PROVE Releases(SnapsOf(d))
  <2>1. \A k \in DOMAIN snap : k \in SnapsOf(d) <=> k[1] = d
    BY DEF SnapsOf
  <2> DEFINE dom == {k \in DOMAIN snap : k[1] = d => Clones(k) # {}}
  <2>2. snap' = [k \in dom |-> IF k[1] = d THEN [snap[k] EXCEPT !.defer = TRUE] ELSE snap[k]]
    BY <1>6 DEF DatasetDestroySnapshots
  <2>3. dom = {k \in DOMAIN snap : k \in SnapsOf(d) => Clones(k) # {}}
    BY <2>1
  <2>4. \A k \in dom : k \in DOMAIN snap
    OBVIOUS
  <2> HIDE DEF dom
  <2>5. /\ IsFunction(snap') /\ DOMAIN snap' = dom
        /\ \A k \in dom : snap'[k] = IF k[1] = d THEN [snap[k] EXCEPT !.defer = TRUE] ELSE snap[k]
    BY <2>2 DEF IsFunction
  <2>6. QED
    BY <2>1, <2>3, <2>4, <2>5 DEF Releases
<1>7. ASSUME NEW t \in Tables, NEW i \in Ids, NEW row, Insert(t, i, row) PROVE Inserts(t, i, row)
  <2>1. table = [u \in Tables |-> [j \in Ids |-> table[u][j]]]
    BY DEF Types
  <2>2. table' = [u \in Tables |-> IF u = t THEN [table[t] EXCEPT ![i] = row] ELSE table[u]]
    BY <1>7, <2>1 DEF Insert
  <2>3. \A u \in Tables : table[u] = [j \in Ids |-> table[u][j]]
    BY <2>1
  <2>4. \A u \in Tables : table'[u] = [j \in Ids |-> IF u = t /\ j = i THEN row ELSE table[u][j]]
    BY <2>2, <2>3
  <2>5. table' = [u \in Tables |-> table'[u]]
    BY <2>2
  <2>6. QED
    BY <2>4, <2>5 DEF Inserts, IsTable
<1>8. ASSUME NEW t \in Tables, NEW i \in Rows(t), Erase(t, i) PROVE Erases(t, i)
  <2>1. \A u, j : <<u, j>> = <<t, i>> <=> u = t /\ j = i
    OBVIOUS
  <2>2. table' = [u \in Tables |-> [j \in Ids |->
                    IF <<u, j>> = <<t, i>> \/ RefersTo(u, j, t, i)
                    THEN IF reuse THEN Free ELSE Spent
                    ELSE table[u][j]]]
    BY <1>8 DEF Erase
  <2>3. \A u \in Tables, j \in Ids :
          table'[u][j] = IF (u = t /\ j = i) \/ RefersTo(u, j, t, i)
                         THEN IF reuse THEN Free ELSE Spent
                         ELSE table[u][j]
    BY <2>1, <2>2
  <2>4. IsTable(table')
    BY <2>2 DEF IsTable
  <2>5. QED
    BY <2>3, <2>4 DEF Erases
<1>9. QED
  BY <1>1, <1>2, <1>3, <1>4, <1>5, <1>6, <1>7, <1>8

\* What a fault, and what any other step does to the ghosts.
LEMMA WorsensIs ==
  ASSUME Types, UNCHANGED overlooked, Fault \/ UNCHANGED faults
  PROVE  Worsens
<1>1. faults \in Nat
  BY SetupsAre DEF Types
<1>2. QED
  BY <1>1 DEF Fault, Worsens

\* A step leads on, or the handler ends with an error.
LEMMA AdvanceIs ==
  ASSUME Types, NEW r \in Requests, Running(r)
  PROVE  Handles(r, pc[r])
<1>1. \A step : SkipPast(r, step) => Moves(r, StepAfter(call[r], step))
  BY WorsensIs DEF SkipPast, Moves, options, ghosts
<1>2. Proceed(r) => Moves(r, StepAfter(call[r], pc[r])) /\ UNCHANGED mem
  BY <1>1 DEF Proceed, Advance
<1>3. ASSUME NEW code \in Codes, Throw(r, code) PROVE Stalls(r) /\ UNCHANGED table
  <2>1. /\ UNCHANGED <<faults, overlooked>>
        /\ pc' = [pc EXCEPT ![r] = "pending"] /\ mem' = [mem EXCEPT ![r] = Blank]
        /\ answer' = [answer EXCEPT ![r] = code]
        /\ UNCHANGED <<call, kind, drops, reuse, promised, captured, ds, snap, table>>
    BY <1>3 DEF Throw, Stops, options, ghosts, pool
  <2>2. Worsens
    BY <2>1, WorsensIs
  <2>3. QED
    BY <2>1, <2>2 DEF Stalls
<1>4. {"UNKNOWN", "ALREADY_EXISTS", "NOT_FOUND", "FAILED_PRECONDITION"} \subseteq Codes
  BY DEF Codes
<1>5. ASSUME NEW new, Set(r, new)
      PROVE  \/ Stalls(r) /\ UNCHANGED table
             \/ /\ Moves(r, StepAfter(call[r], pc[r])) /\ UNCHANGED <<mem, snap, table>>
                /\ Changes(Dest(call[r]), new)
  <2>1. CASE Dest(call[r]) \in DOMAIN ds
    BY <1>2, <1>5, <2>1, ServerIs DEF Set, OnlyDs
  <2>2. CASE Dest(call[r]) \notin DOMAIN ds
    BY <1>3, <1>4, <1>5, <2>2 DEF Set
  <2>3. QED
    BY <2>1, <2>2
<1>6. QED
  BY <1>1, <1>2, <1>3, <1>4, <1>5 DEF Handles

\* What is called at each step, and the step after it.
LEMMA StepIs ==
  ASSUME Types, NEW r \in Requests, Running(r)
  PROVE  LET c == call[r]
             p == pc[r]
             n == StepAfter(c, p) IN
         /\ Handles(r, p)
         /\ p = "check" => \/ /\ Is(r, "CreateSnapshot")
                              /\ n = IF c.detached THEN "container" ELSE "take"
                           \/ /\ Is(r, "CreateVolume")
                              /\ n = IF c.source[1] = "none" THEN "create"
                                     ELSE IF c.source[1] = "snapshot" THEN "clone" ELSE "tmp"
         /\ p = "create" => Is(r, "CreateVolume") /\ c.source[1] = "none" /\ n = "size"
         /\ p = "tmp" => Copies(c) /\ n = IF c.detached THEN "run" ELSE "clone"
         /\ p = "clone" => /\ Is(r, "CreateVolume") /\ ByCloning(c)
                           /\ n = IF c.source[1] = "detached" THEN "untmp" ELSE "size"
         /\ p \in {"run", "poll", "props", "strip"} => Replicates(c)
         /\ p = "run" => n = "poll"
         /\ p = "poll" => n = "props"
         /\ p = "props" => n = "strip"
         /\ p = "strip" => n = "untmp"
         /\ p = "untmp" =>
              /\ Copies(c) /\ n = IF Is(r, "CreateSnapshot") THEN "success" ELSE "size"
              /\ Is(r, "CreateVolume") => c.source[1] = "detached" \/ c.detached
         /\ p = "size" => Is(r, "CreateVolume") /\ n = "look"
         /\ p \in {"look", "context"} \cup Sharing => Is(r, "CreateVolume")
         /\ p = "context" => n = "success"
         /\ p = "success" => (Is(r, "CreateVolume") \/ Is(r, "CreateSnapshot")) /\ n = "reply"
         /\ p \in {"read", "find", "origin", "managed"} => Is(r, "DeleteVolume")
         /\ p = "read" => n = "find"
         /\ p = "origin" => n = "managed"
         /\ p = "managed" => n = "destroy"
         /\ p = "destroy" => \/ Is(r, "DeleteVolume") /\ n = "reply"
                             \/ /\ Is(r, "DeleteSnapshot") /\ c.source[1] = "detached"
                                /\ n = "uncontain"
         /\ p = "resize" => Is(r, "ControllerExpandVolume") /\ n = "reply"
         /\ p = "container" => Is(r, "CreateSnapshot") /\ c.detached /\ n = "tmp"
         /\ p = "take" => Is(r, "CreateSnapshot") /\ ~ c.detached /\ n = "success"
         /\ p = "uncontain" => Is(r, "DeleteSnapshot") /\ c.source[1] = "detached" /\ n = "reply"
         /\ p = "release" => Is(r, "DeleteSnapshot") /\ c.source[1] # "detached" /\ n = "reply"
<1>1. /\ call[r].method \in Methods /\ call[r].detached \in BOOLEAN /\ SetupIs
      /\ kind \in {"nfs", "smb", "iscsi", "nvmeof"}
  BY SetupsAre, CallsAre DEF Types, Kinds
<1>2. pc[r] \in Places(call[r]) \cup {"reply"} /\ Handles(r, pc[r])
  BY AdvanceIs DEF Types, InItsPlace, Running
<1>3. CASE Is(r, "CreateVolume")
  BY <1>1, <1>2, <1>3, CreationAfter, SourcesAre, SetupsAre
     DEF Places, Sharing, Is, ByCloning, Replicates, Copies
<1>4. CASE Is(r, "DeleteVolume")
  BY <1>1, <1>2, <1>4, DeletionAfter DEF Places, Sharing, Unsharing, Unshared, Is
<1>5. CASE call[r].method \in {"ControllerExpandVolume", "CreateSnapshot", "DeleteSnapshot"}
  BY <1>1, <1>2, <1>5, OtherAfter DEF Places, Sharing, Is, Replicates, Copies
<1>6. QED
  BY <1>1, <1>3, <1>4, <1>5 DEF Methods, Is

\* The same for the steps that concern a table.
LEMMA TableStepIs ==
  ASSUME Types, NEW r \in Requests, NEW t \in Tables
  PROVE  LET c == call[r]
             p == pc[r]
             n == StepAfter(c, p) IN
         /\ p \in {t, Keep(t), Ask(t), Remove(t), Inherit(t), "groups", "name"} =>
              Running(r) /\ Handles(r, p)
         /\ p = t => Is(r, "CreateVolume") /\ t \in Used /\ n = AfterPost(t)
         /\ p = Keep(t) => Is(r, "CreateVolume") /\ t \in Used \ {"port"} /\ n = AfterKeep(t)
         /\ p = "groups" => Is(r, "CreateVolume") /\ kind = "iscsi" /\ n = "keep-target"
         /\ p = "name" => /\ Is(r, "CreateVolume") /\ kind \in {"iscsi", "nvmeof"}
                          /\ n = "context"
         /\ p \in {Ask(t), Remove(t), Inherit(t)} =>
              Is(r, "DeleteVolume") /\ StepAfter(c, Inherit(t)) = AfterInherit(t)
         /\ p = Ask(t) => t \in Used \ {"lun", "port", "subsys", "namespace"} /\ n = Remove(t)
         /\ p \in {Remove(t), Inherit(t)} => t \in Used \ {"lun", "port"}
         /\ p = Remove(t) => n = Inherit(t)
<1>1. SetupIs /\ InItsPlace(r)
  BY DEF Types
<1>2. ASSUME pc[r] \in {t, Keep(t), Ask(t), Remove(t), Inherit(t), "groups", "name"}
      PROVE  Running(r) /\ Handles(r, pc[r])
  BY <1>2, AdvanceIs, TableStepsAre DEF Running, Tables
<1>3. /\ kind = "iscsi" => "groups" \in Sharing
      /\ kind \in {"iscsi", "nvmeof"} => "name" \in Sharing
  BY DEF Sharing
<1>4. QED
  BY <1>1, <1>2, <1>3, TablePlaceIs, CreationAfter, DeletionAfter, StepIs

------------------------------------------------------------
(* The actions do this, or end with an error.             *)

\* CheckSize: an existing volume must fit.
LEMMA CheckSizeIs ==
  ASSUME Types, NEW r \in Requests, CheckSize(r)
  PROVE  (Stalls(r) /\ UNCHANGED table) \/ DoesCheckSize(r)
<1>1. pc[r] = "check" /\ Running(r)
  BY DEF CheckSize, On, Running
<1>2. QED
  BY <1>1, StepIs DEF Handles, CheckSize, DoesCheckSize, Nothing, pool, Is

\* Create: a new dataset.
LEMMA CreateIs ==
  ASSUME Types, NEW r \in Requests, Create(r)
  PROVE  DoesCreate(r)
<1>1. pc[r] = "create" /\ Running(r)
  BY DEF Create, On, Running
<1>2. QED
  BY <1>1, StepIs, ServerIs DEF Handles, Create, DoesCreate, OnlyDs, DatasetCreate

\* TakeTemporary: a temporary snapshot.
LEMMA TakeTemporaryIs ==
  ASSUME Types, NEW r \in Requests, TakeTemporary(r)
  PROVE  (Stalls(r) /\ UNCHANGED table) \/ DoesTakeTemporary(r)
<1>1. pc[r] = "tmp" /\ Running(r)
  BY DEF TakeTemporary, On, Running
<1>2. QED
  BY <1>1, StepIs, ServerIs DEF Handles, TakeTemporary, DoesTakeTemporary, OnlySnap

\* Clone: a clone of a snapshot.
LEMMA CloneIs ==
  ASSUME Types, NEW r \in Requests, Clone(r)
  PROVE  (Stalls(r) /\ UNCHANGED table) \/ DoesClone(r)
<1>1. pc[r] = "clone" /\ Running(r)
  BY DEF Clone, On, Running
<1>2. QED
  BY <1>1, StepIs, ServerIs DEF Handles, Clone, DoesClone, OnlyDs, CloneCreate

\* RunReplication: a replication job.
LEMMA RunReplicationIs ==
  ASSUME Types, NEW r \in Requests, RunReplication(r)
  PROVE  DoesRunReplication(r)
<1>1. pc[r] = "run" /\ Running(r)
  BY DEF RunReplication, On, Running
<1>2. Replicates(call[r]) /\ Moves(r, "poll") /\ UNCHANGED <<snap, table>>
  BY <1>1, StepIs DEF Handles, RunReplication, Advance
<1>3. LET d == Dest(call[r])  k == CopyFrom(call[r]) IN
        /\ mem' = [mem EXCEPT ![r].job = Rejection(k, d)]
        /\ IF Rejection(k, d) = "RUNNING"
           THEN d \notin DOMAIN ds /\ Put(d, Dataset(NoOrigin, snap[k].size, {}, FALSE))
           ELSE ds' = ds
  BY DEF RunReplication, ReplicationBegins, Rejection
<1>4. QED
  BY <1>1, <1>2, <1>3, ServerIs DEF DoesRunReplication

\* WaitForJob: its end.
LEMMA WaitForJobIs ==
  ASSUME Types, NEW r \in Requests, WaitForJob(r)
  PROVE  (Stalls(r) /\ UNCHANGED table) \/ DoesWaitForJob(r)
<1>1. pc[r] = "poll" /\ Running(r)
  BY DEF WaitForJob, On, Running
<1>2. QED
  BY <1>1, StepIs DEF Handles, WaitForJob, DoesWaitForJob, Nothing, pool

\* SetProperties: the copy's properties.
LEMMA SetPropertiesIs ==
  ASSUME Types, NEW r \in Requests, SetProperties(r)
  PROVE  (Stalls(r) /\ UNCHANGED table) \/ DoesSetProperties(r)
<1>1. pc[r] = "props" /\ Running(r)
  BY DEF SetProperties, On, Running
<1>2. QED
  BY <1>1, StepIs DEF Handles, SetProperties, DoesSetProperties, Has

\* StripSnapshots: the copy's snapshots.
LEMMA StripSnapshotsIs ==
  ASSUME Types, NEW r \in Requests, StripSnapshots(r)
  PROVE  DoesStripSnapshots(r)
<1>1. pc[r] = "strip" /\ Running(r)
  BY DEF StripSnapshots, On, Running
<1>2. QED
  BY <1>1, StepIs, ServerIs DEF Handles, StripSnapshots, DoesStripSnapshots, OnlySnap

\* DropTemporary: the temporary snapshot.
LEMMA DropTemporaryIs ==
  ASSUME Types, NEW r \in Requests, DropTemporary(r)
  PROVE  (Stalls(r) /\ UNCHANGED table) \/ DoesDropTemporary(r)
<1>1. pc[r] = "untmp" /\ Running(r)
  BY DEF DropTemporary, On, Running
<1>2. QED
  BY <1>1, StepIs, ServerIs DEF Handles, DropTemporary, DoesDropTemporary, BeingSent, OnlySnap

\* SetSize: a volume's size.
LEMMA SetSizeIs ==
  ASSUME Types, NEW r \in Requests, SetSize(r)
  PROVE  (Stalls(r) /\ UNCHANGED table) \/ DoesSetSize(r)
<1>1. pc[r] = "size" /\ Running(r)
  BY DEF SetSize, On, Running
<1>2. QED
  BY <1>1, StepIs DEF Handles, SetSize, DoesSetSize, SizeOf, Nothing, pool

\* Resize: an expansion.
LEMMA ResizeIs ==
  ASSUME Types, NEW r \in Requests, Resize(r)
  PROVE  (Stalls(r) /\ UNCHANGED table) \/ DoesResize(r)
<1>1. pc[r] = "resize" /\ Running(r)
  BY DEF Resize, On, Running
<1>2. QED
  BY <1>1, StepIs DEF Handles, Resize, DoesResize, SizeOf, Nothing, pool

\* SetContext: a volume's context.
LEMMA SetContextIs ==
  ASSUME Types, NEW r \in Requests, SetContext(r)
  PROVE  (Stalls(r) /\ UNCHANGED table) \/ DoesSetContext(r)
<1>1. pc[r] = "context" /\ Running(r)
  BY DEF SetContext, On, Running
<1>2. QED
  BY <1>1, StepIs DEF Handles, SetContext, DoesSetContext, Has

\* SetSuccess: the last property of a creation.
LEMMA SetSuccessIs ==
  ASSUME Types, NEW r \in Requests, SetSuccess(r)
  PROVE  (Stalls(r) /\ UNCHANGED table) \/ DoesSetSuccess(r)
<1>1. pc[r] = "success" /\ Running(r)
  BY DEF SetSuccess, On, Running
<1>2. QED
  BY <1>1, StepIs DEF Handles, SetSuccess, DoesSetSuccess, Has, Nothing, pool

\* LookUp: a share that is complete is not made again.
LEMMA LookUpIs ==
  ASSUME Types, NEW r \in Requests, LookUp(r)
  PROVE  (Stalls(r) /\ UNCHANGED table) \/ DoesLookUp(r)
<1>1. pc[r] = "look" /\ Running(r)
  BY DEF LookUp, On, Running
<1>2. /\ SetupIs /\ kind \in Kinds
      /\ Is(r, "CreateVolume") /\ Handles(r, "look")
  BY <1>1, StepIs, SetupsAre DEF Types
<1>3. /\ StepAfter(call[r], "look") = CASE kind = "nfs"   -> "nfs"
                                        [] kind = "smb"   -> "smb"
                                        [] kind = "iscsi" -> "target"
                                        [] OTHER          -> "subsys"
      /\ kind = "iscsi" => StepAfter(call[r], Keep("lun")) = "name"
      /\ kind \in {"nfs", "smb"} => StepAfter(call[r], Keep(kind)) = "context"
  BY <1>2, CreationAfter, TableStepsAre DEF Used, AfterKeep
<1>4. CASE Dest(call[r]) \notin DOMAIN ds
  BY <1>2, <1>4 DEF Handles, LookUp
<1>5. CASE Dest(call[r]) \in DOMAIN ds
  <2> DEFINE full == Complete(ds[Dest(call[r])].ids)
             step == IF ~ full THEN "look"
                     ELSE IF kind = "iscsi" THEN Keep("lun") ELSE Keep(kind)
  <2>1. SkipPast(r, step) /\ UNCHANGED <<mem, ds, snap, table>>
    BY <1>5 DEF LookUp, pool
  <2>2. Moves(r, StepAfter(call[r], step))
    BY <1>2, <2>1 DEF Handles
  <2>3. full => kind # "nvmeof"
    BY DEF Complete
  <2>4. StepAfter(call[r], step) = IF full THEN IF kind = "iscsi" THEN "name" ELSE "context"
                                   ELSE CASE kind = "nfs"   -> "nfs"
                                          [] kind = "smb"   -> "smb"
                                          [] kind = "iscsi" -> "target"
                                          [] OTHER          -> "subsys"
    <3> HIDE DEF full
    <3>1. CASE full
      BY <1>2, <1>3, <2>3, <3>1 DEF Kinds
    <3>2. CASE ~ full
      BY <1>3, <3>2
    <3>3. QED
      BY <3>1, <3>2
  <2>5. QED
    BY <1>1, <1>2, <1>5, <2>1, <2>2, <2>4 DEF DoesLookUp
<1>6. QED
  BY <1>4, <1>5

\* Post: a row is made or found.
LEMMA PostIs ==
  ASSUME Types, NEW r \in Requests, NEW t \in Tables, Post(r, t)
  PROVE  (Stalls(r) /\ UNCHANGED table) \/ DoesPost(r, t)
<1>1. pc[r] = t
  BY DEF Post, On
<1>2. Running(r) /\ Handles(r, t) /\ Is(r, "CreateVolume") /\ t \in Used
      /\ StepAfter(call[r], t) = AfterPost(t)
  BY <1>1, TableStepIs
<1> DEFINE row == RowOf(r, t)
           found == {i \in Conflicts(t, row) : Same(t, table[t][i], row)}
<1>3. CASE /\ Absent(r, t)
           /\ \E i \in FreeIds(t) : Insert(t, i, row) /\ Gets(r, t, i)
           /\ Advance(r) /\ UNCHANGED pool
  <2>1. PICK i \in FreeIds(t) : Insert(t, i, row) /\ Gets(r, t, i)
    BY <1>3
  <2>2. i \in Ids /\ table[t][i] = Free /\ mem' = [mem EXCEPT ![r].ids[t] = i]
    BY <2>1 DEF FreeIds, Gets
  <2>3. Inserts(t, i, RowOf(r, t))
    BY <2>1, <2>2, ServerIs
  <2>4. Moves(r, AfterPost(t)) /\ UNCHANGED <<ds, snap>>
    BY <1>1, <1>2, <1>3 DEF Handles, Advance, pool
  <2>5. QED
    BY <1>1, <1>2, <1>3, <2>2, <2>3, <2>4 DEF DoesPost
<1>4. CASE /\ ~ Absent(r, t) /\ found # {}
           /\ \E i \in found : Gets(r, t, i)
           /\ Advance(r) /\ UNCHANGED <<pool, table>>
  <2>1. PICK i \in found : Gets(r, t, i)
    BY <1>4
  <2>2. /\ i \in Ids /\ mem' = [mem EXCEPT ![r].ids[t] = i]
        /\ i \in Conflicts(t, RowOf(r, t)) /\ Same(t, table[t][i], RowOf(r, t))
    BY <2>1 DEF Gets, Conflicts, Rows
  <2>3. Moves(r, AfterPost(t)) /\ UNCHANGED <<ds, snap, table>>
    BY <1>1, <1>2, <1>4 DEF Handles, Advance, pool
  <2>4. QED
    BY <1>1, <1>2, <2>2, <2>3 DEF DoesPost
<1>5. CASE ~ Absent(r, t) /\ found = {} /\ Throw(r, "UNKNOWN")
  BY <1>2, <1>5 DEF Handles
<1>6. QED
  BY <1>3, <1>4, <1>5 DEF Post

\* SetGroups: a target's groups.
LEMMA SetGroupsIs ==
  ASSUME Types, NEW r \in Requests, SetGroups(r)
  PROVE  (Stalls(r) /\ UNCHANGED table) \/ DoesSetGroups(r)
<1>1. "target" \in Tables /\ pc[r] = "groups"
  BY DEF Tables, SetGroups, On
<1>2. QED
  BY <1>1, TableStepIs, ServerIs
     DEF Handles, SetGroups, DoesSetGroups, OnlyTable, Target, pool, Rows

\* KeepId: the id of a row.
LEMMA KeepIdIs ==
  ASSUME Types, NEW r \in Requests, NEW t \in Tables, KeepId(r, t)
  PROVE  (Stalls(r) /\ UNCHANGED table) \/ DoesKeepId(r, t)
<1>1. pc[r] = Keep(t)
  BY DEF KeepId, On
<1>2. QED
  BY <1>1, TableStepIs DEF Handles, KeepId, DoesKeepId

\* SetName: the name of the rows.
LEMMA SetNameIs ==
  ASSUME Types, NEW r \in Requests, SetName(r)
  PROVE  (Stalls(r) /\ UNCHANGED table) \/ DoesSetName(r)
<1>1. "target" \in Tables /\ pc[r] = "name"
  BY DEF Tables, SetName, On
<1>2. QED
  BY <1>1, TableStepIs
     DEF Handles, SetName, DoesSetName, Has

\* FindShare: the ids are read.
LEMMA FindShareIs ==
  ASSUME Types, NEW r \in Requests, FindShare(r)
  PROVE  DoesFindShare(r)
<1>1. pc[r] = "find" /\ Running(r)
  BY DEF FindShare, On, Running
<1>2. SetupIs /\ Is(r, "DeleteVolume") /\ Handles(r, "find")
  BY <1>1, StepIs DEF Types
<1>3. /\ StepAfter(call[r], "find") = CASE kind = "nfs"   -> "ask-nfs"
                                        [] kind = "smb"   -> "ask-smb"
                                        [] kind = "iscsi" -> "ask-target"
                                        [] OTHER          -> "delete-namespace"
      /\ StepAfter(call[r], DeleteShare[kind][Len(DeleteShare[kind])]) = "origin"
  BY <1>2, DeletionAfter
<1>4. QED
  BY <1>1, <1>2, <1>3 DEF Handles, FindShare, DoesFindShare, Advance, pool

\* AskFor: a row is asked for.
LEMMA AskForIs ==
  ASSUME Types, NEW r \in Requests, NEW t \in Tables, AskFor(r, t)
  PROVE  DoesAskFor(r, t)
<1>1. pc[r] = Ask(t)
  BY DEF AskFor, On
<1>2. QED
  BY <1>1, TableStepIs DEF Handles, AskFor, DoesAskFor, pool

\* Overlook: the row that is asked for is taken for gone.
LEMMA OverlookIs ==
  ASSUME Types, NEW r \in Requests, NEW t \in Tables, Overlook(r, t)
  PROVE  DoesAskFor(r, t)
<1>1. pc[r] = Ask(t)
  BY DEF Overlook, On
<1>2. /\ Is(r, "DeleteVolume") /\ t \in Used \ {"lun", "port", "subsys", "namespace"}
      /\ Running(r) /\ StepAfter(call[r], Inherit(t)) = AfterInherit(t)
  BY <1>1, TableStepIs
<1>3. Mine(r) = call[r].volume /\ call[r].volume \in Volumes /\ t \in NamedTables
  BY <1>2, SetupsAre, CallsAre DEF Types, Is, Mine, VolumeId, Tables, NamedTables
<1>4. overlooked' = overlooked \cup {<<t, call[r].volume>>}
  BY <1>3 DEF Overlook
<1>5. Worsens
  <2>1. faults' \in 0 .. faults
    BY SetupsAre DEF Types, Overlook, Fault
  <2>2. QED
    BY <1>3, <1>4, <2>1 DEF Worsens
<1>6. Moves(r, AfterInherit(t)) /\ UNCHANGED <<mem, ds, snap, table>>
  BY <1>2, <1>5 DEF Overlook, Moves, options, pool
<1>7. QED
  BY <1>1, <1>2, <1>4, <1>6 DEF DoesAskFor

\* DeleteRow: a row is deleted.
LEMMA DeleteRowIs ==
  ASSUME Types, NEW r \in Requests, NEW t \in Tables, DeleteRow(r, t)
  PROVE  (Stalls(r) /\ UNCHANGED table) \/ DoesDeleteRow(r, t)
<1>1. pc[r] = Remove(t)
  BY DEF DeleteRow, On
<1>2. QED
  BY <1>1, TableStepIs, ServerIs DEF Handles, DeleteRow, DoesDeleteRow, OnlyTable, Nothing, pool

\* InheritId: an id is forgotten.
LEMMA InheritIdIs ==
  ASSUME Types, NEW r \in Requests, NEW t \in Tables, InheritId(r, t)
  PROVE  (Stalls(r) /\ UNCHANGED table) \/ DoesInheritId(r, t)
<1>1. pc[r] = Inherit(t)
  BY DEF InheritId, On
<1>2. QED
  BY <1>1, TableStepIs DEF Handles, InheritId, DoesInheritId

\* ReadDataset: the origin and the snapshots are read.
LEMMA ReadDatasetIs ==
  ASSUME Types, NEW r \in Requests, ReadDataset(r)
  PROVE  DoesReadDataset(r)
<1>1. pc[r] = "read" /\ Running(r)
  BY DEF ReadDataset, On, Running
<1>2. QED
  BY <1>1, StepIs DEF Handles, ReadDataset, DoesReadDataset, Advance, pool

\* DeferOrigin: the origin is marked.
LEMMA DeferOriginIs ==
  ASSUME Types, NEW r \in Requests, DeferOrigin(r)
  PROVE  DoesDeferOrigin(r)
<1>1. pc[r] = "origin" /\ Running(r)
  BY DEF DeferOrigin, On, Running
<1>2. QED
  BY <1>1, StepIs, ServerIs DEF Handles, DeferOrigin, DoesDeferOrigin, OnlySnap

\* CheckManaged: the snapshots are looked at.
LEMMA CheckManagedIs ==
  ASSUME Types, NEW r \in Requests, CheckManaged(r)
  PROVE  (Stalls(r) /\ UNCHANGED table) \/ DoesCheckManaged(r)
<1>1. pc[r] = "managed" /\ Running(r)
  BY DEF CheckManaged, On, Running
<1>2. QED
  BY <1>1, StepIs DEF Handles, CheckManaged, DoesCheckManaged, Nothing, pool

\* DestroyVolume: the volume goes.
LEMMA DestroyVolumeIs ==
  ASSUME Types, NEW r \in Requests, DestroyVolume(r)
  PROVE  (Stalls(r) /\ UNCHANGED table) \/ DoesDestroyVolume(r)
<1>1. pc[r] = "destroy" /\ Running(r)
  BY DEF DestroyVolume, On, Running
<1>2. QED
  BY <1>1, StepIs, ServerIs DEF Handles, DestroyVolume, DoesDestroyVolume, Is

\* CheckName: the name must be free.
LEMMA CheckNameIs ==
  ASSUME Types, NEW r \in Requests, CheckName(r)
  PROVE  (Stalls(r) /\ UNCHANGED table) \/ DoesCheckName(r)
<1>1. pc[r] = "check" /\ Running(r)
  BY DEF CheckName, On, Running
<1>2. QED
  BY <1>1, StepIs DEF Handles, CheckName, DoesCheckName, Nothing, pool, Is

\* TakeSnapshot: an attached snapshot.
LEMMA TakeSnapshotIs ==
  ASSUME Types, NEW r \in Requests, TakeSnapshot(r)
  PROVE  (Stalls(r) /\ UNCHANGED table) \/ DoesTakeSnapshot(r)
<1>1. pc[r] = "take" /\ Running(r)
  BY DEF TakeSnapshot, On, Running
<1>2. QED
  BY <1>1, StepIs, ServerIs DEF Handles, TakeSnapshot, DoesTakeSnapshot, OnlySnap

\* CreateContainer: a container.
LEMMA CreateContainerIs ==
  ASSUME Types, NEW r \in Requests, CreateContainer(r)
  PROVE  DoesCreateContainer(r)
<1>1. pc[r] = "container" /\ Running(r)
  BY DEF CreateContainer, On, Running
<1>2. QED
  BY <1>1, StepIs, ServerIs DEF Handles, CreateContainer, DoesCreateContainer, OnlyDs, DatasetCreate

\* ReleaseSnapshot: an attached snapshot is deleted.
LEMMA ReleaseSnapshotIs ==
  ASSUME Types, NEW r \in Requests, ReleaseSnapshot(r)
  PROVE  DoesReleaseSnapshot(r)
<1>1. pc[r] = "release" /\ Running(r)
  BY DEF ReleaseSnapshot, On, Running
<1>2. QED
  BY <1>1, StepIs, ServerIs DEF Handles, ReleaseSnapshot, DoesReleaseSnapshot, OnlySnap

\* DestroyDetached: a detached snapshot goes.
LEMMA DestroyDetachedIs ==
  ASSUME Types, NEW r \in Requests, DestroyDetached(r)
  PROVE  (Stalls(r) /\ UNCHANGED table) \/ DoesDestroyDetached(r)
<1>1. pc[r] = "destroy" /\ Running(r)
  BY DEF DestroyDetached, On, Running
<1>2. QED
  BY <1>1, StepIs, ServerIs DEF Handles, DestroyDetached, DoesDestroyDetached, Is

\* DestroyContainer: an empty container goes.
LEMMA DestroyContainerIs ==
  ASSUME Types, NEW r \in Requests, DestroyContainer(r)
  PROVE  DoesDestroyContainer(r)
<1>1. pc[r] = "uncontain" /\ Running(r)
  BY DEF DestroyContainer, On, Running
<1>2. Is(r, "DeleteSnapshot") /\ call[r].source[1] = "detached"
  BY <1>1, StepIs
<1>3. OnlyDs(r) => Moves(r, "reply") /\ UNCHANGED <<mem, snap, table>>
  BY <1>1, StepIs DEF Handles, OnlyDs
<1>4. ASSUME NEW d, ds' = [x \in DOMAIN ds \ {d} |-> ds[x]] PROVE Removes(d)
  BY <1>4 DEF Removes, IsFunction
<1>5. QED
  BY <1>1, <1>2, <1>3, <1>4 DEF DestroyContainer, DoesDestroyContainer

------------------------------------------------------------
(* The steps of the specification.                        *)

\* Where the steps that concern a table lead.
LEMMA TableNextAre ==
  ASSUME kind \in Kinds, NEW t \in Used
  PROVE  /\ t \in Tables /\ AfterPost(t) \in Sharing
         /\ t # "port" => AfterKeep(t) \in Sharing \cup {"context"}
         /\ t \notin {"lun", "port"} =>
              /\ Remove(t) \in Unsharing /\ Inherit(t) \in Unsharing
              /\ AfterInherit(t) \in Unsharing \cup {"origin"}
<1>1. CASE kind = "nfs"
  BY <1>1, TableStepsAre
     DEF Used, Tables, AfterPost, AfterKeep, AfterInherit, Sharing, Unsharing
<1>2. CASE kind = "smb"
  BY <1>2, TableStepsAre
     DEF Used, Tables, AfterPost, AfterKeep, AfterInherit, Sharing, Unsharing
<1>3. CASE kind = "iscsi"
  BY <1>3, TableStepsAre
     DEF Used, Tables, AfterPost, AfterKeep, AfterInherit, Sharing, Unsharing
<1>4. CASE kind = "nvmeof"
  BY <1>4, TableStepsAre
     DEF Used, Tables, AfterPost, AfterKeep, AfterInherit, Sharing, Unsharing
<1>5. QED
  BY <1>1, <1>2, <1>3, <1>4 DEF Kinds

\* The places of a call, by its method.
LEMMA PlacesAre ==
  ASSUME SetupIs, NEW r \in Requests
  PROVE  LET c == call[r] IN
         /\ Is(r, "CreateVolume") =>
              /\ Places(c) \subseteq {"check", "create", "tmp", "clone", "run", "poll", "props",
                                      "strip", "untmp", "size", "look", "context", "success"}
                                       \cup Sharing
              /\ {"check", "size", "look", "context", "success"} \cup Sharing \subseteq Places(c)
              /\ c.source[1] = "none" => "create" \in Places(c)
              /\ c.source[1] # "none" /\ c.detached =>
                   {"run", "poll", "props", "strip"} \subseteq Places(c)
              /\ ByCloning(c) => "clone" \in Places(c)
              /\ c.source[1] \in {"volume", "detached"} => "tmp" \in Places(c)
              /\ c.source[1] = "detached" \/ (c.source[1] = "volume" /\ c.detached)
                   => "untmp" \in Places(c)
         /\ Is(r, "DeleteVolume") => Places(c) = {"read", "find"} \cup Unsharing \cup Unshared
         /\ Is(r, "ControllerExpandVolume") => Places(c) = {"resize"}
         /\ Is(r, "CreateSnapshot") =>
              Places(c) = IF c.detached
                          THEN {"check", "container", "tmp", "run", "poll", "props", "strip",
                                "untmp", "success"}
                          ELSE {"check", "take", "success"}
         /\ Is(r, "DeleteSnapshot") =>
              Places(c) = IF c.source[1] = "detached" THEN {"destroy", "uncontain"}
                                                      ELSE {"release"}
         /\ Sharing \cap {"idle", "pending", "reply", "done"} = {}
         /\ Unsharing \cap {"idle", "pending", "reply", "done"} = {}
         /\ Places(c) \cap {"idle", "pending", "reply", "done"} = {}
<1>1. kind \in Kinds /\ call[r].method \in Methods
  BY SetupsAre, CallsAre
<1>2. /\ Sharing \cap {"idle", "pending", "reply", "done"} = {}
      /\ Unsharing \cap {"idle", "pending", "reply", "done"} = {}
  BY <1>1 DEF Sharing, Unsharing, Kinds
<1>3. CASE Is(r, "CreateVolume")
  <2> DEFINE c == call[r]
             a == IF c.source[1] = "none" THEN {"create"}
                  ELSE IF c.detached THEN {"run", "poll", "props", "strip"} ELSE {"clone"}
             b == IF c.source[1] \in {"volume", "detached"} THEN {"tmp"} ELSE {}
             e == IF c.source[1] = "detached" \/ (c.source[1] = "volume" /\ c.detached)
                  THEN {"untmp"} ELSE {}
  <2>1. Places(c) = {"check", "size", "look", "context", "success"} \cup Sharing
                      \cup a \cup b \cup e
    BY <1>3 DEF Places, Is
  <2>2. /\ a \subseteq {"create", "run", "poll", "props", "strip", "clone"}
        /\ b \subseteq {"tmp"} /\ e \subseteq {"untmp"}
    OBVIOUS
  <2>3. /\ c.source[1] = "none" => "create" \in a
        /\ c.source[1] # "none" /\ c.detached => {"run", "poll", "props", "strip"} \subseteq a
        /\ ByCloning(c) => "clone" \in a
        /\ c.source[1] \in {"volume", "detached"} => "tmp" \in b
        /\ c.source[1] = "detached" \/ (c.source[1] = "volume" /\ c.detached) => "untmp" \in e
    BY DEF ByCloning
  <2> HIDE DEF a, b, e
  <2>4. QED
    BY <1>2, <1>3, <2>1, <2>2, <2>3 DEF Is
<1>4. CASE Is(r, "DeleteVolume")
  BY <1>2, <1>4 DEF Places, Is, Unshared
<1>5. CASE Is(r, "ControllerExpandVolume") \/ Is(r, "CreateSnapshot") \/ Is(r, "DeleteSnapshot")
  BY <1>2, <1>5 DEF Places, Is
<1>6. QED
  BY <1>1, <1>3, <1>4, <1>5 DEF Methods, Is

\* An action moves its handler to another place of its call.
LEMMA WorksMoves ==
  ASSUME Types, NEW r \in Requests, Works(r)
  PROVE  /\ Running(r) /\ pc[r] # "reply"
         /\ \E p \in Places(call[r]) \cup {"reply"} : Moves(r, p)
<1>1. SetupIs /\ InItsPlace(r) /\ kind \in Kinds /\ call[r].method \in Methods
  BY SetupsAre, CallsAre DEF Types
<1>2. /\ "reply" \notin Tables
      /\ \A t \in Tables : "reply" \notin {Keep(t), Ask(t), Remove(t), Inherit(t)}
  BY TableStepsAre DEF Tables
<1>a. Places(call[r]) \cap {"reply"} = {}
  BY <1>1, PlacesAre
<1>b. /\ call[r].source[1] \in {"none", "volume", "snapshot", "detached"}
      /\ call[r].detached \in BOOLEAN
      /\ Is(r, "CreateVolume") /\ call[r].source[1] = "snapshot" => ~ call[r].detached
  <2>1. call \in Plans
    BY <1>1, SetupsAre
  <2>2. QED
    BY <1>1, <2>1, CallsAre, SourcesAre, SetupsAre
<1>3. CASE \/ DoesCreate(r) \/ DoesTakeTemporary(r) \/ DoesClone(r) \/ DoesRunReplication(r)
           \/ DoesWaitForJob(r) \/ DoesSetProperties(r) \/ DoesStripSnapshots(r)
           \/ DoesDropTemporary(r)
  <2> USE <1>1, <1>b, <1>3, PlacesAre
      DEF DoesCreate, DoesTakeTemporary, DoesClone, DoesRunReplication, DoesWaitForJob,
      DoesSetProperties, DoesStripSnapshots, DoesDropTemporary, Is, ByCloning, Copies, Replicates
  <2>1. \E p \in Places(call[r]) : Moves(r, p)
    <3>1. CASE call[r].method = "CreateVolume" /\ call[r].source[1] = "none"
      BY <3>1
    <3>2. CASE call[r].method = "CreateVolume" /\ call[r].source[1] = "snapshot"
      BY <3>2
    <3>3. CASE call[r].method = "CreateVolume" /\ call[r].source[1] \in {"volume", "detached"}
      BY <3>3
    <3>4. CASE call[r].method = "CreateSnapshot" /\ call[r].detached
      <4>1. Is(r, "CreateSnapshot")
        BY <3>4
      <4>2. Places(call[r]) = {"check", "container", "tmp", "run", "poll", "props", "strip",
                               "untmp", "success"}
        BY <1>1, <3>4, <4>1, PlacesAre
      <4>3. QED
        BY <3>4, <4>2
    <3>5. QED
      BY <3>1, <3>2, <3>3, <3>4
  <2>2. pc[r] # "reply"
    OBVIOUS
  <2>3. QED
    BY <2>1, <2>2 DEF Moves
<1>4. CASE \/ DoesCheckSize(r) \/ DoesSetSize(r) \/ DoesResize(r) \/ DoesSetContext(r)
           \/ DoesSetSuccess(r) \/ DoesLookUp(r) \/ DoesSetGroups(r) \/ DoesSetName(r)
  <2>1. \E p \in Places(call[r]) \cup {"reply"} : Moves(r, p)
    BY <1>1, <1>b, <1>4, PlacesAre
       DEF DoesCheckSize, DoesSetSize, DoesResize, DoesSetContext, DoesSetSuccess, DoesLookUp,
       DoesSetGroups, DoesSetName, Is, ByCloning, Sharing, Kinds, Complete
  <2>2. pc[r] # "reply"
    BY <1>4 DEF DoesCheckSize, DoesSetSize, DoesResize, DoesSetContext, DoesSetSuccess,
       DoesLookUp, DoesSetGroups, DoesSetName
  <2>3. QED
    BY <2>1, <2>2 DEF Moves
<1>5. CASE \/ DoesFindShare(r) \/ DoesReadDataset(r) \/ DoesDeferOrigin(r) \/ DoesCheckManaged(r)
           \/ DoesDestroyVolume(r)
  <2>1. Is(r, "DeleteVolume") /\ pc[r] # "reply"
    BY <1>5 DEF DoesFindShare, DoesReadDataset, DoesDeferOrigin, DoesCheckManaged,
       DoesDestroyVolume
  <2>2. \E p \in {"find", "reply"} \cup Unsharing \cup Unshared : Moves(r, p)
    BY <1>1, <1>5 DEF DoesFindShare, DoesReadDataset, DoesDeferOrigin, DoesCheckManaged,
       DoesDestroyVolume, Unsharing, Unshared, Kinds
  <2>3. {"find"} \cup Unsharing \cup Unshared \subseteq Places(call[r])
    BY <1>1, <2>1, PlacesAre
  <2>4. QED
    BY <2>1, <2>2, <2>3 DEF Moves
<1>6. CASE DoesCheckName(r) \/ DoesTakeSnapshot(r) \/ DoesCreateContainer(r)
  <2>1. Is(r, "CreateSnapshot") /\ pc[r] # "reply"
    BY <1>6 DEF DoesCheckName, DoesTakeSnapshot, DoesCreateContainer
  <2>2. \E p \in IF call[r].detached THEN {"container", "tmp"} ELSE {"take", "success"} :
          Moves(r, p)
    BY <1>b, <1>6 DEF DoesCheckName, DoesTakeSnapshot, DoesCreateContainer
  <2>3. QED
    BY <1>1, <2>1, <2>2, PlacesAre DEF Moves
<1>7. CASE DoesReleaseSnapshot(r) \/ DoesDestroyDetached(r) \/ DoesDestroyContainer(r)
  <2>1. \E p \in Places(call[r]) \cup {"reply"} : Moves(r, p) /\ pc[r] # "reply"
    BY <1>1, <1>7, PlacesAre
       DEF DoesReleaseSnapshot, DoesDestroyDetached, DoesDestroyContainer, Is
  <2>2. QED
    BY <2>1 DEF Moves
<1>8. ASSUME NEW t \in Tables, DoesPost(r, t) \/ DoesKeepId(r, t)
      PROVE  Running(r) /\ pc[r] # "reply" /\ \E p \in Places(call[r]) : Moves(r, p)
  <2>1. \E p \in Sharing \cup {"context"} : Moves(r, p)
    BY <1>1, <1>8, TableNextAre DEF DoesPost, DoesKeepId
  <2>2. QED
    BY <1>1, <1>2, <1>8, <2>1, PlacesAre DEF DoesPost, DoesKeepId, Moves
<1>9. ASSUME NEW t \in Tables, DoesAskFor(r, t) \/ DoesDeleteRow(r, t) \/ DoesInheritId(r, t)
      PROVE  Running(r) /\ pc[r] # "reply" /\ \E p \in Places(call[r]) : Moves(r, p)
  <2>1. \E p \in Unsharing \cup Unshared : Moves(r, p)
    BY <1>1, <1>9, TableNextAre DEF DoesAskFor, DoesDeleteRow, DoesInheritId, Unshared
  <2>2. Is(r, "DeleteVolume") /\ pc[r] # "reply"
    BY <1>2, <1>9 DEF DoesAskFor, DoesDeleteRow, DoesInheritId
  <2>3. Unsharing \cup Unshared \subseteq Places(call[r])
    BY <1>1, <2>2, PlacesAre
  <2>4. QED
    BY <2>1, <2>2, <2>3 DEF Moves
<1>10. QED
  BY <1>3, <1>4, <1>5, <1>6, <1>7, <1>8, <1>9 DEF Works

\* The server's half of a call whose other half is lost.
LEMMA HalfPostIs ==
  ASSUME Types, NEW r \in Requests, HalfPost(r)
  PROVE  HalfPosts(r)
<1>1. pc[r] = "target" /\ Running(r)
  BY DEF HalfPost, On, Running
<1>2. "target" \in Tables
  BY DEF Tables
<1>3. kind \in Kinds
  BY SetupsAre DEF Types
<1>4. Is(r, "CreateVolume") /\ "target" \in Used
  BY <1>1, <1>2, TableStepIs
<1>5. kind = "iscsi"
  BY <1>3, <1>4 DEF Used, Kinds
<1>6. Stalls(r)
  <2>1. Worsens
    BY WorsensIs DEF HalfPost, ghosts
  <2>2. "UNKNOWN" \in Codes
    BY DEF Codes
  <2>3. QED
    BY <1>1, <2>1, <2>2 DEF HalfPost, Stops, Stalls, options, pool, ghosts
<1>7. Absent(r, "target")
  BY DEF HalfPost
<1>8. PICK i \in FreeIds("target") : Insert("target", i, Target(Mine(r), FALSE))
  BY DEF HalfPost
<1>9. i \in Ids /\ table["target"][i] = Free
  BY <1>8 DEF FreeIds
<1>10. Inserts("target", i, <<Mine(r), FALSE>>)
  BY <1>2, <1>8, <1>9, ServerIs DEF Target
<1>11. QED
  BY <1>1, <1>4, <1>5, <1>6, <1>7, <1>9, <1>10 DEF HalfPosts

\* A call that is made again.
LEMMA RepeatIs ==
  ASSUME Types, NEW r \in Requests, NEW t \in Tables, DropPost(r, t) \/ DropDelete(r, t)
  PROVE  Repeats(r, t)
<1>2. Worsens
  BY WorsensIs DEF DropPost, DropDelete, ghosts
<1>3. CASE DropPost(r, t)
  <2>1. pc[r] = t /\ t \in {"nfs", "smb"} /\ drops
    BY <1>3 DEF DropPost, On
  <2>2. Is(r, "CreateVolume") /\ t \in Used /\ Running(r)
    BY <2>1, TableStepIs
  <2>3. StaysPut /\ Absent(r, t)
    BY <1>2, <1>3 DEF DropPost, StaysPut, options, ghosts, pool
  <2>4. PICK i \in FreeIds(t) : Insert(t, i, RowOf(r, t))
    BY <1>3 DEF DropPost
  <2>5. i \in Ids /\ table[t][i] = Free
    BY <2>4 DEF FreeIds
  <2>6. Inserts(t, i, RowOf(r, t))
    BY <2>4, <2>5, ServerIs
  <2>7. QED
    BY <2>1, <2>2, <2>3, <2>5, <2>6 DEF Repeats
<1>4. CASE DropDelete(r, t)
  <2>1. pc[r] = Remove(t) /\ drops /\ mem[r].ids[t] \in Rows(t)
    BY <1>4 DEF DropDelete, On
  <2>2. Is(r, "DeleteVolume") /\ t \in Used \ {"lun", "port"} /\ Running(r)
    BY <2>1, TableStepIs
  <2>3. StaysPut
    BY <1>2, <1>4 DEF DropDelete, StaysPut, options, ghosts, pool
  <2>4. Erases(t, mem[r].ids[t])
    BY <1>4, <2>1, ServerIs DEF DropDelete
  <2>5. QED
    BY <2>1, <2>2, <2>3, <2>4 DEF Repeats
<1>5. QED
  BY <1>3, <1>4

\* The end of a replication job.
LEMMA JobClosesIs ==
  ASSUME Types, NEW r \in Requests, JobEnds(r) \/ JobBreaks(r)
  PROVE  JobCloses(r)
<1> DEFINE c == call[r]
           d == Dest(c)
           k == <<d, Tag(c)>>
<1>1. Worsens
  BY WorsensIs DEF JobEnds, JobBreaks, ghosts
<1>2. \A state : Jobs(d, state) => JobIs(d, state)
  BY DEF Jobs, JobIs, IsFunction
<1>3. CASE JobEnds(r)
  <2>1. /\ Filling(r)
        /\ UNCHANGED <<call, kind, drops, reuse, pc, answer, promised, captured, table>>
        /\ JobIs(d, "SUCCESS")
    BY <1>2, <1>3 DEF JobEnds, options, ghosts
  <2>2. d \in DOMAIN ds /\ CopyFrom(c)[2] = Tag(c)
    BY <2>1 DEF Filling, Receiving, CopyFrom
  <2>3. ReplicationEnds(CopyFrom(c), d)
    BY <1>3 DEF JobEnds
  <2> HIDE DEF c, d
  <2>4. Changes(d, [ds[d] EXCEPT !.whole = TRUE])
    BY <2>2, <2>3, ServerIs DEF ReplicationEnds
  <2>5. snap' = [x \in DOMAIN snap \cup {k} |->
                  IF x \in DOMAIN snap THEN snap[x]
                  ELSE [size |-> ds[d].size, managed |-> FALSE, defer |-> FALSE]]
    BY <2>2, <2>3 DEF ReplicationEnds
  <2> HIDE DEF k
  <2>6. IF k \in DOMAIN snap THEN snap' = snap
        ELSE Captures(k, [size |-> ds[d].size, managed |-> FALSE, defer |-> FALSE])
    <3>1. CASE k \in DOMAIN snap
      BY <2>5, <3>1 DEF Types
    <3>2. CASE k \notin DOMAIN snap
      BY <2>5, <3>2 DEF Captures, IsFunction
    <3>3. QED
      BY <3>1, <3>2
  <2>7. QED
    BY <1>1, <2>1, <2>4, <2>6 DEF JobCloses, c, d, k
<1>4. CASE JobBreaks(r)
  <2>1. /\ Filling(r)
        /\ UNCHANGED <<call, kind, drops, reuse, pc, answer, promised, captured, table>>
        /\ JobIs(d, "FAILED")
    BY <1>2, <1>4 DEF JobBreaks, options, ghosts
  <2>2. Removes(d) /\ snap' = snap
    BY <1>4 DEF JobBreaks, ReplicationBreaks, Removes, IsFunction
  <2>3. QED
    BY <1>1, <2>1, <2>2 DEF JobCloses
<1>5. QED
  BY <1>3, <1>4

\* The process dies.
LEMMA RestartIs ==
  ASSUME Types, Restart
  PROVE  /\ pc' = [q \in Requests |-> IF Running(q) THEN "pending" ELSE pc[q]]
         /\ mem' = [q \in Requests |-> Blank]
         /\ Worsens
         /\ UNCHANGED <<call, kind, drops, reuse, answer, promised, captured, ds, snap, table>>
BY WorsensIs DEF Restart, options, ghosts, pool

\* The steps of the specification.
LEMMA StepsOfNext ==
  ASSUME Types, [Next]_vars
  PROVE  \/ UNCHANGED vars
         \/ Restart
         \/ \E r \in Requests :
              \/ Start(r) \/ Works(r) \/ Reply(r) \/ (Stalls(r) /\ UNCHANGED table)
              \/ HalfPosts(r) \/ JobCloses(r) \/ \E t \in Tables : Repeats(r, t)
<1>1. ASSUME NEW r \in Requests, VolumeStep(r)
      PROVE  (Stalls(r) /\ UNCHANGED table) \/ Works(r)
  BY <1>1, CheckSizeIs, CreateIs, CloneIs, SetSizeIs, ResizeIs, SetContextIs, ReadDatasetIs,
     DeferOriginIs, CheckManagedIs, DestroyVolumeIs DEF VolumeStep, Works
<1>2. ASSUME NEW r \in Requests, CopyStep(r)
      PROVE  (Stalls(r) /\ UNCHANGED table) \/ Works(r)
  BY <1>2, TakeTemporaryIs, RunReplicationIs, WaitForJobIs, SetPropertiesIs, StripSnapshotsIs,
     DropTemporaryIs DEF CopyStep, Works
<1>3. ASSUME NEW r \in Requests, ShareStep(r)
      PROVE  (Stalls(r) /\ UNCHANGED table) \/ Works(r)
  BY <1>3, LookUpIs, SetGroupsIs, SetNameIs, FindShareIs, PostIs, KeepIdIs, AskForIs,
     DeleteRowIs, InheritIdIs DEF ShareStep, Works
<1>4. ASSUME NEW r \in Requests, SnapshotStep(r)
      PROVE  (Stalls(r) /\ UNCHANGED table) \/ Works(r)
  BY <1>4, CheckNameIs, TakeSnapshotIs, CreateContainerIs, ReleaseSnapshotIs, DestroyDetachedIs,
     DestroyContainerIs DEF SnapshotStep, Works
<1>5. ASSUME NEW r \in Requests, SetSuccess(r)
      PROVE  (Stalls(r) /\ UNCHANGED table) \/ Works(r)
  BY <1>5, SetSuccessIs DEF Works
<1>6. ASSUME NEW r \in Requests, Handle(r)
      PROVE  (Stalls(r) /\ UNCHANGED table) \/ Works(r) \/ Reply(r)
  BY <1>1, <1>2, <1>3, <1>4, <1>5, <1>6 DEF Handle
<1>7. ASSUME NEW r \in Requests, Fail(r)
      PROVE  Stalls(r) /\ UNCHANGED table
  <2>2. Worsens
    BY <1>7, WorsensIs DEF Fail, ghosts
  <2>3. "UNKNOWN" \in Codes
    BY DEF Codes
  <2>4. QED
    BY <1>7, <2>2, <2>3 DEF Fail, Stops, Stalls, options, pool, ghosts
<1>8. QED
  BY <1>6, <1>7, HalfPostIs, RepeatIs, JobClosesIs, OverlookIs DEF Next, Quiet, Works

\* The two other steps of a request.
LEMMA StartIs ==
  ASSUME Types, NEW r \in Requests, Start(r)
  PROVE  /\ pc[r] \in {"idle", "pending"} /\ (pc[r] = "idle" => MaySend(r))
         /\ \A q \in Requests \ {r} :
              ~ (Running(q) /\ Keys(call[q]) \cap Keys(call[r]) # {})
         /\ pc' = [pc EXCEPT ![r] = First(call[r])] /\ First(call[r]) \in Places(call[r])
         /\ answer' = [answer EXCEPT ![r] = "none"]
         /\ UNCHANGED <<call, kind, drops, reuse, mem, promised, captured, ds, snap, table>>
         /\ Worsens
<1>1. SetupIs /\ call \in Plans /\ call[r].method \in Methods /\ call[r].detached \in BOOLEAN
  BY SetupsAre, CallsAre DEF Types
<1>2. Head(Steps(call[r])) = First(call[r])
  <2>1. CASE Is(r, "CreateVolume") \/ Is(r, "DeleteVolume")
    BY <1>1, <2>1, CreationAfter, DeletionAfter DEF First, Is
  <2>2. CASE call[r].method \in {"ControllerExpandVolume", "CreateSnapshot", "DeleteSnapshot"}
    BY <1>1, <2>2, OtherAfter DEF First
  <2>3. QED
    BY <1>1, <2>1, <2>2 DEF Methods, Is
<1>3. First(call[r]) \in Places(call[r])
  BY <1>1, PlacesAre DEF First, Methods, Is
<1>4. QED
  BY <1>2, <1>3, WorsensIs DEF Start, Locked, options, ghosts, pool

\* A reply ends the call, and settles what was promised and captured.
LEMMA ReplyIs ==
  ASSUME Types, NEW r \in Requests, Reply(r)
  PROVE  /\ pc[r] = "reply" /\ Running(r)
         /\ pc' = [pc EXCEPT ![r] = "done"]
         /\ mem' = [mem EXCEPT ![r] = Blank] /\ answer' = [answer EXCEPT ![r] = "OK"]
         /\ promised' = Promised(call[r]) /\ captured' = Captured(call[r])
         /\ UNCHANGED <<call, kind, drops, reuse, ds, snap, table>> /\ Worsens
BY WorsensIs DEF Reply, On, Stops, options, pool, Running

------------------------------------------------------------
(* What may change on the server, and by which step.      *)

\* The steps that change the datasets, the snapshots and the rows.
LEMMA PoolSteps ==
  ASSUME Types, [Next]_vars
  PROVE  /\ \/ ds' = ds
            \/ \E r \in Requests :
                 \/ DoesCreate(r) \/ DoesClone(r) \/ DoesRunReplication(r)
                 \/ DoesCreateContainer(r) \/ Adjusts(r) \/ JobCloses(r)
                 \/ DoesDestroyVolume(r) \/ DoesDestroyDetached(r) \/ DoesDestroyContainer(r)
         /\ \/ snap' = snap
            \/ \E r \in Requests :
                 \/ DoesTakeTemporary(r) \/ DoesTakeSnapshot(r) \/ JobCloses(r)
                 \/ DoesStripSnapshots(r) \/ DoesDropTemporary(r) \/ DoesDeferOrigin(r)
                 \/ DoesReleaseSnapshot(r) \/ DoesDestroyVolume(r) \/ DoesDestroyDetached(r)
         /\ \/ table' = table
            \/ \E r \in Requests :
                 \/ HalfPosts(r) \/ DoesSetGroups(r)
                 \/ \E t \in Tables : DoesPost(r, t) \/ DoesDeleteRow(r, t) \/ Repeats(r, t)
<1>1. CASE UNCHANGED vars
  BY <1>1 DEF vars, pool
<1>2. CASE Restart
  BY <1>2, RestartIs
<1>3. ASSUME NEW r \in Requests, Start(r) \/ Reply(r) \/ (Stalls(r) /\ UNCHANGED table)
      PROVE  UNCHANGED <<ds, snap, table>>
  <2>1. Start(r) => UNCHANGED <<ds, snap, table>>
    BY StartIs
  <2>2. Reply(r) => UNCHANGED <<ds, snap, table>>
    BY ReplyIs
  <2>3. Stalls(r) /\ UNCHANGED table => UNCHANGED <<ds, snap, table>>
    BY DEF Stalls
  <2>4. QED
    BY <1>3, <2>1, <2>2, <2>3
<1>4. ASSUME NEW r \in Requests, HalfPosts(r) \/ \E t \in Tables : Repeats(r, t)
      PROVE  UNCHANGED <<ds, snap>>
  BY <1>4 DEF HalfPosts, Stalls, Repeats, StaysPut
<1>5. ASSUME NEW r \in Requests, JobCloses(r) PROVE table' = table
  BY <1>5 DEF JobCloses
<1>6. ASSUME NEW r \in Requests, Works(r)
      PROVE  /\ \/ ds' = ds
                \/ DoesCreate(r) \/ DoesClone(r) \/ DoesRunReplication(r)
                \/ DoesCreateContainer(r) \/ Adjusts(r)
                \/ DoesDestroyVolume(r) \/ DoesDestroyDetached(r) \/ DoesDestroyContainer(r)
             /\ \/ snap' = snap
                \/ DoesTakeTemporary(r) \/ DoesTakeSnapshot(r)
                \/ DoesStripSnapshots(r) \/ DoesDropTemporary(r) \/ DoesDeferOrigin(r)
                \/ DoesReleaseSnapshot(r) \/ DoesDestroyVolume(r) \/ DoesDestroyDetached(r)
             /\ \/ table' = table
                \/ DoesSetGroups(r)
                \/ \E t \in Tables : DoesPost(r, t) \/ DoesDeleteRow(r, t)
  <2>1. DoesCheckSize(r) \/ DoesWaitForJob(r) \/ DoesLookUp(r) \/ DoesFindShare(r)
          \/ DoesReadDataset(r) \/ DoesCheckManaged(r) \/ DoesCheckName(r)
          \/ (\E t \in Tables : DoesAskFor(r, t)) => UNCHANGED <<ds, snap, table>>
    BY DEF DoesCheckSize, DoesWaitForJob, DoesLookUp, DoesFindShare, DoesReadDataset,
           DoesCheckManaged, DoesCheckName, DoesAskFor
  <2>2. DoesCreate(r) \/ DoesClone(r) \/ DoesRunReplication(r) \/ DoesCreateContainer(r)
          \/ DoesDestroyContainer(r) => UNCHANGED <<snap, table>>
    BY DEF DoesCreate, DoesClone, DoesRunReplication, DoesCreateContainer, DoesDestroyContainer
  <2>3. Adjusts(r) => UNCHANGED <<snap, table>>
    BY DEF Adjusts, DoesSetProperties, DoesSetSize, DoesResize, DoesSetContext, DoesSetSuccess,
           DoesSetName, DoesKeepId, DoesInheritId
  <2>4. DoesTakeTemporary(r) \/ DoesTakeSnapshot(r) \/ DoesStripSnapshots(r)
          \/ DoesDropTemporary(r) \/ DoesDeferOrigin(r) \/ DoesReleaseSnapshot(r)
          => UNCHANGED <<ds, table>>
    BY DEF DoesTakeTemporary, DoesTakeSnapshot, DoesStripSnapshots, DoesDropTemporary,
           DoesDeferOrigin, DoesReleaseSnapshot
  <2>5. DoesDestroyVolume(r) \/ DoesDestroyDetached(r) => table' = table
    BY DEF DoesDestroyVolume, DoesDestroyDetached
  <2>6. DoesSetGroups(r) \/ (\E t \in Tables : DoesPost(r, t) \/ DoesDeleteRow(r, t))
          => UNCHANGED <<ds, snap>>
    BY DEF DoesSetGroups, DoesPost, DoesDeleteRow
  <2>7. QED
    BY <1>6, <2>1, <2>2, <2>3, <2>4, <2>5, <2>6 DEF Works, Adjusts
<1>7. QED
  BY <1>1, <1>2, <1>3, <1>4, <1>5, <1>6, StepsOfNext

\* A dataset that is new.
LEMMA NewDatasets ==
  ASSUME Types, [Next]_vars, NEW d \in DOMAIN ds', d \notin DOMAIN ds
  PROVE  \E r \in Requests :
           \/ /\ DoesCreate(r) /\ d = Dest(call[r])
              /\ ds'[d] = Dataset(NoOrigin, IF Zvols THEN call[r].size ELSE 0, {"managed"}, TRUE)
           \/ /\ DoesClone(r) /\ d = Dest(call[r])
              /\ LET k == CopyFrom(call[r]) IN
                 k \in DOMAIN snap /\ ds'[d] = Dataset(k, snap[k].size, {"managed"}, TRUE)
           \/ /\ DoesRunReplication(r) /\ d = Dest(call[r])
              /\ LET k == CopyFrom(call[r]) IN
                 k \in DOMAIN snap /\ ds'[d] = Dataset(NoOrigin, snap[k].size, {}, FALSE)
              /\ d[1] = "det" => Con(d[2]) \in DOMAIN ds
           \/ /\ DoesCreateContainer(r) /\ d = Con(call[r].volume)
              /\ ds'[d] = Dataset(NoOrigin, 0, {}, TRUE)
<1>1. ASSUME NEW r \in Requests, Adjusts(r) \/ JobCloses(r) \/ DoesDestroyVolume(r)
               \/ DoesDestroyDetached(r) \/ DoesDestroyContainer(r)
      PROVE  d \in DOMAIN ds
  <2>1. (\E x, new : Changes(x, new)) \/ (\E x : Removes(x)) \/ ds' = ds
    BY <1>1 DEF Adjusts, DoesSetProperties, DoesSetSize, DoesResize, DoesSetContext,
       DoesSetSuccess, DoesSetName, DoesKeepId, DoesInheritId, JobCloses, DoesDestroyVolume,
       DoesDestroyDetached, DoesDestroyContainer
  <2>2. QED
    BY <2>1 DEF Changes, Removes
<1>2. PICK r \in Requests :
        DoesCreate(r) \/ DoesClone(r) \/ DoesRunReplication(r) \/ DoesCreateContainer(r)
  BY <1>1, PoolSteps
<1>3. CASE DoesCreate(r)
  BY <1>3 DEF DoesCreate, Adds
<1>4. CASE DoesClone(r)
  BY <1>4 DEF DoesClone, Adds
<1>5. CASE DoesRunReplication(r)
  <2>1. Rejection(CopyFrom(call[r]), Dest(call[r])) = "RUNNING"
    BY <1>5 DEF DoesRunReplication
  <2>2. /\ CopyFrom(call[r]) \in DOMAIN snap
        /\ Dest(call[r])[1] = "det" => Con(Dest(call[r])[2]) \in DOMAIN ds
    BY <2>1 DEF Rejection
  <2>3. QED
    BY <1>5, <2>1, <2>2 DEF DoesRunReplication, Adds
<1>6. CASE DoesCreateContainer(r)
  BY <1>6 DEF DoesCreateContainer, Adds
<1>7. QED
  BY <1>2, <1>3, <1>4, <1>5, <1>6

\* One that is gone.
LEMMA LostDatasets ==
  ASSUME Types, [Next]_vars, NEW d \in DOMAIN ds, d \notin DOMAIN ds'
  PROVE  \E r \in Requests :
           \/ /\ DoesDestroyVolume(r) \/ DoesDestroyDetached(r)
              /\ d = Dest(call[r]) /\ ds[d].whole
           \/ /\ DoesDestroyContainer(r)
              /\ d = Con(call[r].source[2]) /\ Details(call[r].source[2]) = {}
           \/ /\ JobCloses(r) /\ snap' = snap /\ Removes(d)
              /\ d = Dest(call[r]) /\ ~ ds[d].whole
<1>1. ASSUME NEW r \in Requests,
             DoesCreate(r) \/ DoesClone(r) \/ DoesRunReplication(r) \/ DoesCreateContainer(r)
               \/ Adjusts(r)
      PROVE  d \in DOMAIN ds'
  <2>1. (\E x, new : Changes(x, new)) \/ (\E x, new : Adds(x, new)) \/ ds' = ds
    BY <1>1 DEF Adjusts, DoesSetProperties, DoesSetSize, DoesResize, DoesSetContext,
       DoesSetSuccess, DoesSetName, DoesKeepId, DoesInheritId, DoesCreate, DoesClone,
       DoesRunReplication, DoesCreateContainer
  <2>2. QED
    BY <2>1 DEF Changes, Adds
<1>2. PICK r \in Requests : \/ DoesDestroyVolume(r) \/ DoesDestroyDetached(r)
                            \/ DoesDestroyContainer(r) \/ JobCloses(r)
  BY <1>1, PoolSteps
<1>3. CASE DoesDestroyVolume(r)
  BY <1>3 DEF DoesDestroyVolume, Removes, Receiving
<1>4. CASE DoesDestroyDetached(r)
  BY <1>4 DEF DoesDestroyDetached, Removes, Receiving
<1>5. CASE DoesDestroyContainer(r)
  BY <1>5 DEF DoesDestroyContainer, Removes
<1>6. CASE JobCloses(r)
  <2>1. /\ snap' = snap /\ Removes(Dest(call[r])) /\ ~ ds[Dest(call[r])].whole
    BY <1>6 DEF JobCloses, Changes, Filling, Receiving
  <2>2. QED
    BY <1>6, <2>1 DEF Removes
<1>7. QED
  BY <1>2, <1>3, <1>4, <1>5, <1>6

\* One that stays: it keeps what it has, and its properties change by the steps of calls
\* that are for it.
LEMMA KeptDatasets ==
  ASSUME Types, [Next]_vars, NEW d \in DOMAIN ds, d \in DOMAIN ds'
  PROVE  \/ ds'[d] = ds[d]
         \/ \E r \in Requests :
              /\ d = Dest(call[r]) /\ Dest(call[r]) \in DOMAIN ds
              /\ \/ /\ DoesSetProperties(r)
                    /\ ds'[d] = [ds[d] EXCEPT !.has = ds[d].has \cup {"managed"}]
                 \/ /\ DoesSetContext(r)
                    /\ ds'[d] = [ds[d] EXCEPT !.has = ds[d].has \cup {"context"}]
                 \/ /\ DoesSetSuccess(r)
                    /\ ds'[d] = [ds[d] EXCEPT !.has = ds[d].has \cup {"success"}]
                 \/ /\ DoesSetName(r)
                    /\ ds'[d] = [ds[d] EXCEPT !.has = ds[d].has \cup {"name"}]
                 \/ /\ (DoesSetSize(r) \/ DoesResize(r)) /\ Zvols
                    /\ ds'[d] = [ds[d] EXCEPT !.size = call[r].size]
                 \/ \E t \in Tables : /\ DoesKeepId(r, t)
                                      /\ ds'[d] = [ds[d] EXCEPT !.ids[t] = mem[r].ids[t]]
                 \/ \E t \in Tables : /\ DoesInheritId(r, t)
                                      /\ ds'[d] = [ds[d] EXCEPT !.ids[t] = 0]
                 \/ /\ JobCloses(r) /\ ~ ds[d].whole
                    /\ ds'[d] = [ds[d] EXCEPT !.whole = TRUE]
<1>1. ASSUME NEW r \in Requests,
             DoesCreate(r) \/ DoesClone(r) \/ DoesRunReplication(r) \/ DoesCreateContainer(r)
               \/ DoesDestroyVolume(r) \/ DoesDestroyDetached(r) \/ DoesDestroyContainer(r)
      PROVE  ds'[d] = ds[d]
  <2>1. (\E x, new : Adds(x, new)) \/ (\E x : Removes(x)) \/ ds' = ds
    BY <1>1 DEF DoesCreate, DoesClone, DoesRunReplication, DoesCreateContainer,
       DoesDestroyVolume, DoesDestroyDetached, DoesDestroyContainer
  <2>2. QED
    BY <2>1 DEF Adds, Removes
<1>2. CASE \E r \in Requests : Adjusts(r) \/ JobCloses(r)
  <2>1. PICK r \in Requests : Adjusts(r) \/ JobCloses(r)
    BY <1>2
  <2> DEFINE e == Dest(call[r])
  <2>2. ASSUME NEW new, Changes(e, new)
        PROVE  e \in DOMAIN ds /\ (ds'[d] = ds[d] \/ (d = e /\ ds'[d] = new))
    BY <2>2 DEF Changes
  <2>3. CASE DoesSetProperties(r)
    <3>1. Changes(e, [ds[e] EXCEPT !.has = ds[e].has \cup {"managed"}])
      BY <2>3 DEF DoesSetProperties
    <3>2. QED
      BY <2>2, <2>3, <3>1
  <2>4. CASE DoesSetContext(r)
    <3>1. Changes(e, [ds[e] EXCEPT !.has = ds[e].has \cup {"context"}])
      BY <2>4 DEF DoesSetContext
    <3>2. QED
      BY <2>2, <2>4, <3>1
  <2>5. CASE DoesSetSuccess(r)
    <3>1. Changes(e, [ds[e] EXCEPT !.has = ds[e].has \cup {"success"}]) \/ ds' = ds
      BY <2>5 DEF DoesSetSuccess
    <3>2. QED
      BY <2>2, <2>5, <3>1
  <2>6. CASE DoesSetName(r)
    <3>1. Changes(e, [ds[e] EXCEPT !.has = ds[e].has \cup {"name"}])
      BY <2>6 DEF DoesSetName
    <3>2. QED
      BY <2>2, <2>6, <3>1
  <2>7. CASE DoesSetSize(r) \/ DoesResize(r)
    <3>1. (Zvols /\ Changes(e, [ds[e] EXCEPT !.size = call[r].size])) \/ ds' = ds
      BY <2>7 DEF DoesSetSize, DoesResize
    <3>2. QED
      BY <2>2, <2>7, <3>1
  <2>8. ASSUME NEW t \in Tables, DoesKeepId(r, t)
        PROVE  \/ ds'[d] = ds[d]
               \/ /\ d = e /\ e \in DOMAIN ds
                  /\ ds'[d] = [ds[d] EXCEPT !.ids[t] = mem[r].ids[t]]
    <3>1. Changes(e, [ds[e] EXCEPT !.ids[t] = mem[r].ids[t]])
      BY <2>8 DEF DoesKeepId
    <3>2. QED
      BY <2>2, <3>1
  <2>9. ASSUME NEW t \in Tables, DoesInheritId(r, t)
        PROVE  \/ ds'[d] = ds[d]
               \/ d = e /\ e \in DOMAIN ds /\ ds'[d] = [ds[d] EXCEPT !.ids[t] = 0]
    <3>1. Changes(e, [ds[e] EXCEPT !.ids[t] = 0])
      BY <2>9 DEF DoesInheritId
    <3>2. QED
      BY <2>2, <3>1
  <2>10. CASE JobCloses(r)
    <3>1. Changes(e, [ds[e] EXCEPT !.whole = TRUE]) \/ Removes(e)
      BY <2>10 DEF JobCloses
    <3>2. ~ ds[e].whole
      BY <2>10 DEF JobCloses, Filling, Receiving
    <3>3. CASE Removes(e)
      BY <3>3 DEF Removes
    <3>4. CASE Changes(e, [ds[e] EXCEPT !.whole = TRUE])
      BY <2>2, <2>10, <3>2, <3>4
    <3>5. QED
      BY <3>1, <3>3, <3>4
  <2>11. QED
    BY <2>1, <2>3, <2>4, <2>5, <2>6, <2>7, <2>8, <2>9, <2>10 DEF Adjusts
<1>3. QED
  BY <1>1, <1>2, PoolSteps

------------------------------------------------------------
(* Where a step leads.                                    *)

\* No place bears the name of a state.
LEMMA PlacesAreNoStates ==
  ASSUME SetupIs, NEW r \in Requests
  PROVE  Places(call[r]) \cap {"idle", "pending", "reply", "done"} = {}
BY PlacesAre

\* Most steps go onward.
LEMMA OnwardIs ==
  ASSUME Types, [Next]_vars
  PROVE  Onward \/ \E r \in Requests : Start(r) \/ Reply(r)
<1>1. /\ DOMAIN pc = Requests /\ pc = [q \in Requests |-> pc[q]] /\ IsFunction(pc)
      /\ UNCHANGED <<faults, overlooked>> => Worsens
  BY WorsensIs DEF Types, IsFunction
<1>2. ASSUME NEW r \in Requests, NEW p \in Places(call[r]) \cup {"reply", "pending"}, Running(r),
             pc' = [pc EXCEPT ![r] = p]
      PROVE  /\ DOMAIN pc' = Requests /\ IsFunction(pc')
             /\ \A q \in Requests :
                  \/ pc'[q] = pc[q]
                  \/ Running(q) /\ pc'[q] \in Places(call[q]) \cup {"reply", "pending"}
  BY <1>1, <1>2 DEF IsFunction
<1>3. CASE UNCHANGED vars
  BY <1>1, <1>3 DEF vars, options, ghosts, Onward
<1>4. CASE Restart
  <2>1. /\ pc' = [q \in Requests |-> IF Running(q) THEN "pending" ELSE pc[q]]
        /\ UNCHANGED <<call, kind, drops, reuse, promised, captured>> /\ Worsens
    BY <1>4, RestartIs
  <2>2. QED
    BY <2>1 DEF Onward, IsFunction
<1>5. ASSUME NEW r \in Requests, Works(r) PROVE Onward
  <2>1. PICK p \in Places(call[r]) \cup {"reply"} : Moves(r, p)
    BY <1>5, WorksMoves
  <2>2. QED
    BY <1>1, <1>2, <2>1 DEF Onward, Moves
<1>6. ASSUME NEW r \in Requests, Stalls(r) PROVE Onward
  BY <1>2, <1>6 DEF Onward, Stalls
<1>7. ASSUME NEW r \in Requests, HalfPosts(r) \/ JobCloses(r) \/ \E t \in Tables : Repeats(r, t)
      PROVE  Onward
  <2>1. HalfPosts(r) => Onward
    BY <1>6 DEF HalfPosts
  <2>2. JobCloses(r) => Onward
    BY <1>1 DEF JobCloses, Onward
  <2>3. (\E t \in Tables : Repeats(r, t)) => Onward
    BY <1>1 DEF Repeats, StaysPut, Onward
  <2>4. QED
    BY <1>7, <2>1, <2>2, <2>3
<1>8. QED
  BY <1>3, <1>4, <1>5, <1>6, <1>7, StepsOfNext

\* What was sent stays sent.
LEMMA ForwardIs ==
  ASSUME Types, [Next]_vars
  PROVE  Forward
<1>1. SetupIs
  BY DEF Types
<1>2. CASE Onward
  <2>1. \A q \in Requests : "idle" \notin Places(call[q]) \cup {"reply", "pending"}
    BY <1>1, PlacesAreNoStates
  <2>2. QED
    BY <1>2, <2>1 DEF Onward, Forward, Sent, Running
<1>3. ASSUME NEW r \in Requests, Start(r) PROVE Forward
  <2>1. First(call[r]) # "idle" /\ pc[r] # "done" /\ pc' = [pc EXCEPT ![r] = First(call[r])]
    BY <1>1, <1>3, StartIs, PlacesAreNoStates
  <2>2. UNCHANGED <<call, kind, drops, reuse, promised, captured>> /\ Worsens
    BY <1>3, StartIs
  <2>3. \A q \in Requests : pc'[q] = IF q = r THEN First(call[r]) ELSE pc[q]
    BY <2>1 DEF Types
  <2>4. QED
    BY <1>1, <2>1, <2>2, <2>3 DEF Forward, Sent
<1>4. ASSUME NEW r \in Requests, Reply(r) PROVE Forward
  <2>1. DOMAIN promised \subseteq DOMAIN promised'
    <3>1. promised' = Promised(call[r])
      BY <1>4, ReplyIs
    <3>2. QED
      BY <3>1 DEF Promised
  <2>2. DOMAIN captured \subseteq DOMAIN captured'
    BY <1>4, ReplyIs DEF Captured
  <2>3. QED
    BY <1>1, <1>4, <2>1, <2>2, ReplyIs DEF Forward, Sent, Types
<1>5. QED
  BY <1>2, <1>3, <1>4, OnwardIs

\* Nobody begins by going onward, or by a reply.
LEMMA RunnersRan ==
  ASSUME Types, Onward \/ \E p \in Requests : Reply(p)
  PROVE  \A x \in Requests : /\ Unfinished(x)' => Unfinished(x)
                             /\ Sent(x)' => Sent(x)
                             /\ Running(x)' => Running(x)
<1>1. SetupIs
  BY DEF Types
<1>2. CASE Onward
  <2>1. \A q \in Requests : \/ pc'[q] = pc[q]
                            \/ Running(q)
    BY <1>2 DEF Onward
  <2>2. QED
    BY <2>1 DEF Unfinished, Sent, Running
<1>3. ASSUME NEW p \in Requests, Reply(p)
      PROVE  \A x \in Requests : /\ Unfinished(x)' => Unfinished(x)
                                 /\ Sent(x)' => Sent(x)
                                 /\ Running(x)' => Running(x)
  BY <1>3, ReplyIs DEF Unfinished, Sent, Running, Types
<1>4. QED
  BY <1>2, <1>3

------------------------------------------------------------
(* Who may be at what.                                    *)

\* Calls do not change, nor what they are for.
LEMMA CallsStay ==
  ASSUME call' = call
  PROVE  \A q \in Requests :
           /\ \A m : Is(q, m)' <=> Is(q, m)
           /\ \A v : /\ Creates(q, v)' <=> Creates(q, v)
                     /\ Deletes(q, v)' <=> Deletes(q, v)
                     /\ Expands(q, v)' <=> Expands(q, v)
           /\ \A sid : (Takes(q, sid)' <=> Takes(q, sid)) /\ (Drops(q, sid)' <=> Drops(q, sid))
BY DEF Is, Creates, Deletes, Expands, Takes, Drops

\* A call is first sent when it may be.
LEMMA SendingIsAllowed ==
  ASSUME Types, NEW r \in Requests, pc[r] = "idle", Start(r)
  PROVE  /\ \A v \in Volumes, q \in Requests :
              /\ Creates(r, v) /\ Deletes(q, v) => ~ Sent(q)
              /\ Deletes(r, v) /\ Creates(q, v) => ~ Unfinished(q)
              /\ Expands(r, v) /\ Creates(q, v) => pc[q] = "done"
              /\ Expands(r, v) /\ Expands(q, v) => ~ Unfinished(q)
         /\ \A sid \in SnapshotIds, q \in Requests :
              /\ Takes(r, sid) /\ Drops(q, sid) => ~ Sent(q)
              /\ Drops(r, sid) /\ Takes(q, sid) => ~ Unfinished(q)
         /\ call[r].method \in {"DeleteVolume", "ControllerExpandVolume", "CreateSnapshot"}
              => OwnsVolume(call[r].volume)
         /\ Is(r, "ControllerExpandVolume") => call[r].size >= promised[call[r].volume]
         /\ Is(r, "DeleteSnapshot") => OwnsSnapshot(call[r].source)
         /\ Is(r, "CreateVolume") =>
              \/ call[r].source[1] = "none"
              \/ call[r].source[1] = "volume" /\ OwnsVolume(call[r].source[2])
              \/ call[r].source \in SnapshotIds /\ OwnsSnapshot(call[r].source)
<1> DEFINE c == call[r]
<1>1. MaySend(r) /\ c.method \in Methods
  BY StartIs, SetupsAre, CallsAre DEF Types
<1>2. CASE c.method = "CreateVolume"
  BY <1>1, <1>2 DEF MaySend, Creates, Deletes, Expands, Takes, Drops, Is
<1>3. CASE c.method = "DeleteVolume"
  BY <1>1, <1>3 DEF MaySend, Creates, Deletes, Expands, Takes, Drops, Is
<1>4. CASE c.method = "ControllerExpandVolume"
  BY <1>1, <1>4 DEF MaySend, Creates, Deletes, Expands, Takes, Drops, Is
<1>5. CASE c.method = "CreateSnapshot"
  BY <1>1, <1>5 DEF MaySend, Creates, Deletes, Expands, Takes, Drops, Is
<1>6. CASE c.method = "DeleteSnapshot"
  BY <1>1, <1>6 DEF MaySend, Creates, Deletes, Expands, Takes, Drops, Is
<1>7. QED
  BY <1>1, <1>2, <1>3, <1>4, <1>5, <1>6 DEF Methods

\* Nothing unwanted is being made.
LEMMA UnwantedStaysSettled ==
  ASSUME Types, UnwantedIsSettled, [Next]_vars
  PROVE  UnwantedIsSettled'
<1>1. call' = call
  BY ForwardIs DEF Forward
<1>2. SUFFICES ASSUME NEW q \in Requests, NEW r \in Requests, Sent(q)'
               PROVE  /\ \A v \in Volumes : Deletes(q, v) /\ Creates(r, v) => ~ Unfinished(r)'
                      /\ \A v \in Volumes : Expands(q, v) /\ Creates(r, v) => pc'[r] = "done"
                      /\ \A v \in Volumes : Expands(q, v) /\ Expands(r, v) /\ q # r
                                              => ~ (Unfinished(q)' /\ Unfinished(r)')
                      /\ \A sid \in SnapshotIds : Drops(q, sid) /\ Takes(r, sid)
                                              => ~ Unfinished(r)'
  BY <1>1, CallsStay DEF UnwantedIsSettled
<1>3. Sent(q) =>
      /\ \A v \in Volumes : Deletes(q, v) /\ Creates(r, v) => ~ Unfinished(r)
      /\ \A v \in Volumes : Expands(q, v) /\ Creates(r, v) => pc[r] = "done"
      /\ \A v \in Volumes : Expands(q, v) /\ Expands(r, v) /\ q # r
                               => ~ (Unfinished(q) /\ Unfinished(r))
      /\ \A sid \in SnapshotIds : Drops(q, sid) /\ Takes(r, sid) => ~ Unfinished(r)
  BY DEF UnwantedIsSettled
<1>4. CASE Sent(q) /\ (Unfinished(q)' => Unfinished(q)) /\ (Unfinished(r)' => Unfinished(r))
  <2>1. pc[r] = "done" => pc'[r] = "done"
    BY ForwardIs DEF Forward
  <2>2. QED
    BY <1>3, <1>4, <2>1
<1>5. CASE Onward \/ \E p \in Requests : Reply(p)
  <2>1. \A x \in Requests : (Unfinished(x)' => Unfinished(x)) /\ (Sent(x)' => Sent(x))
    BY <1>5, RunnersRan
  <2>2. QED
    BY <1>2, <1>4, <2>1
<1>6. ASSUME NEW p \in Requests, Start(p)
      PROVE  /\ \A v \in Volumes : Deletes(q, v) /\ Creates(r, v) => ~ Unfinished(r)'
             /\ \A v \in Volumes : Expands(q, v) /\ Creates(r, v) => pc'[r] = "done"
             /\ \A v \in Volumes : Expands(q, v) /\ Expands(r, v) /\ q # r
                                     => ~ (Unfinished(q)' /\ Unfinished(r)')
             /\ \A sid \in SnapshotIds : Drops(q, sid) /\ Takes(r, sid) => ~ Unfinished(r)'
  <2>1. \A x \in Requests \ {p} : pc'[x] = pc[x]
    BY <1>6, StartIs DEF Types
  <2>2. CASE pc[p] = "pending"
    <3>1. \A x \in Requests : (Unfinished(x)' => Unfinished(x)) /\ (Sent(x)' => Sent(x))
      BY <2>1, <2>2 DEF Unfinished, Sent
    <3>2. QED
      BY <1>2, <1>4, <3>1
  <2>3. CASE pc[p] = "idle"
    <3>1. CASE q = p /\ r = p
      BY <3>1 DEF Deletes, Creates, Expands, Drops, Takes, Is
    <3>2. CASE q = p /\ r # p
      <4>1. pc'[r] = pc[r]
        BY <2>1, <3>2
      <4>2. QED
        BY <1>6, <2>3, <3>2, <4>1, SendingIsAllowed DEF Unfinished
    <3>3. CASE q # p /\ r = p
      <4>1. pc'[q] = pc[q] /\ Sent(q)
        BY <1>2, <2>1, <3>3 DEF Sent
      <4>2. QED
        BY <1>3, <1>6, <2>3, <3>3, <4>1, SendingIsAllowed DEF Unfinished
    <3>4. CASE q # p /\ r # p
      <4>1. pc'[q] = pc[q] /\ pc'[r] = pc[r]
        BY <2>1, <3>4
      <4>2. QED
        BY <1>2, <1>4, <4>1 DEF Sent, Unfinished
    <3>5. QED
      BY <3>1, <3>2, <3>3, <3>4
  <2>4. QED
    BY <1>6, <2>2, <2>3, StartIs
<1>7. QED
  BY <1>5, <1>6, OnwardIs

\* The keys of two handlers that run are different.
LEMMA ExclusiveStays ==
  ASSUME Types, Exclusive, [Next]_vars
  PROVE  Exclusive'
<1>1. call' = call
  BY ForwardIs DEF Forward
<1>2. CASE Onward \/ \E p \in Requests : Reply(p)
  <2>1. \A x \in Requests : Running(x)' => Running(x)
    BY <1>2, RunnersRan
  <2>2. QED
    BY <1>1, <2>1 DEF Exclusive
<1>3. ASSUME NEW p \in Requests, Start(p) PROVE Exclusive'
  <2>1. \A x \in Requests \ {p} : Running(x)' => Running(x)
    BY <1>3, StartIs DEF Running, Types
  <2>2. \A x \in Requests \ {p} : Running(x) => Keys(call[x]) \cap Keys(call[p]) = {}
    BY <1>3, StartIs
  <2>3. QED
    BY <1>1, <2>1, <2>2 DEF Exclusive
<1>4. QED
  BY <1>2, <1>3, OnwardIs

\* What a call names was answered OK.
LEMMA SourcesStayMade ==
  ASSUME Types, \A r \in Requests : SourceWasMade(r), [Next]_vars
  PROVE  \A r \in Requests : SourceWasMade(r)'
<1> SUFFICES ASSUME NEW r \in Requests
             PROVE  SourceWasMade(r)'
  OBVIOUS
<1>1. Forward
  BY ForwardIs
<1>2. CASE Sent(r)
  BY <1>1, <1>2 DEF Forward, SourceWasMade
<1>3. CASE ~ Sent(r) /\ Start(r)
  <2>1. pc[r] = "idle"
    BY <1>3 DEF Sent
  <2>2. /\ call[r].method \in {"DeleteVolume", "ControllerExpandVolume", "CreateSnapshot"}
              => call[r].volume \in DOMAIN promised
        /\ call[r].method = "DeleteSnapshot" => call[r].source \in DOMAIN captured
        /\ call[r].method = "CreateVolume" =>
             \/ call[r].source[1] = "none"
             \/ call[r].source[1] = "volume" /\ call[r].source[2] \in DOMAIN promised
             \/ call[r].source \in SnapshotIds /\ call[r].source \in DOMAIN captured
    BY <1>3, <2>1, SendingIsAllowed DEF Is, OwnsVolume, OwnsSnapshot
  <2>3. call[r].source \in SnapshotIds => call[r].source[1] \in {"snapshot", "detached"}
    BY DEF SnapshotIds
  <2>4. QED
    BY <1>1, <2>2, <2>3 DEF Forward, SourceWasMade
<1>4. CASE ~ Sent(r) /\ ~ Start(r)
  <2>1. ~ Sent(r)'
    <3>1. CASE Onward \/ \E p \in Requests : Reply(p)
      BY <1>4, <3>1, RunnersRan
    <3>2. ASSUME NEW p \in Requests, Start(p) PROVE ~ Sent(r)'
      BY <1>4, <3>2, StartIs DEF Sent, Types
    <3>3. QED
      BY <3>1, <3>2, OnwardIs
  <2>2. QED
    BY <2>1 DEF SourceWasMade
<1>5. QED
  BY <1>2, <1>3, <1>4

\* What was promised has been made, and its size was asked for.
LEMMA PromisesStayMade ==
  ASSUME Types, PromisesAreMade, \A r \in Requests : SourceWasMade(r), [Next]_vars
  PROVE  /\ PromisesAreMade'
         /\ DOMAIN promised' \subseteq Volumes /\ \A v \in DOMAIN promised' : promised'[v] \in Nat
         /\ DOMAIN captured' \subseteq SnapshotIds
<1>1. Forward
  BY ForwardIs
<1>2. \A q \in Requests : pc[q] = "done" => pc'[q] = "done"
  BY <1>1 DEF Forward
<1>3. \A q \in Requests : \A v, sid :
        /\ Creates(q, v)' <=> Creates(q, v)
        /\ Expands(q, v)' <=> Expands(q, v)
        /\ Takes(q, sid)' <=> Takes(q, sid)
  BY <1>1, CallsStay DEF Forward
<1>4. CASE UNCHANGED <<promised, captured>>
  <2>1. \A v \in DOMAIN promised' : \E q \in Requests : Creates(q, v)' /\ pc'[q] = "done"
    BY <1>2, <1>3, <1>4 DEF PromisesAreMade
  <2>2. \A sid \in DOMAIN captured' : \E q \in Requests : Takes(q, sid)' /\ pc'[q] = "done"
    BY <1>2, <1>3, <1>4 DEF PromisesAreMade
  <2>3. \A v \in DOMAIN promised' : \E q \in Requests :
          (Creates(q, v)' \/ Expands(q, v)') /\ pc'[q] = "done" /\ call'[q].size = promised'[v]
    BY <1>1, <1>2, <1>3, <1>4 DEF PromisesAreMade, Forward
  <2>4. QED
    BY <1>4, <2>1, <2>2, <2>3 DEF PromisesAreMade, Types
<1>5. ASSUME NEW r \in Requests, Reply(r)
      PROVE  /\ PromisesAreMade'
             /\ DOMAIN promised' \subseteq Volumes
             /\ \A v \in DOMAIN promised' : promised'[v] \in Nat
             /\ DOMAIN captured' \subseteq SnapshotIds
  <2> DEFINE c == call[r]
             made == c.method \in {"CreateVolume", "ControllerExpandVolume"}
             w == VolumeId(c)
  <2>1. pc'[r] = "done" /\ Sent(r) /\ call' = call
    BY <1>5, ReplyIs DEF Types, Sent
  <2>2. c \in Call /\ w \in Volumes /\ c.size \in Nat
    BY SetupsAre, CallsAre DEF Types
  <2>3. ~ made => promised' = promised
    BY <1>5, ReplyIs DEF Promised
  <2>4. made => /\ DOMAIN promised' = DOMAIN promised \cup {w}
                /\ \A v \in DOMAIN promised : v # w => promised'[v] = promised[v]
                /\ promised'[w] = c.size
                     \/ (w \in DOMAIN promised /\ promised'[w] = promised[w])
    <3>1. promised' = Promised(c)
      BY <1>5, ReplyIs
    <3>2. QED
      BY <3>1 DEF Promised, Larger
  <2>5. c.method = "ControllerExpandVolume" => w \in DOMAIN promised
    BY <2>1 DEF SourceWasMade, VolumeId
  <2>6. /\ c.method = "CreateVolume" => Creates(r, w)
        /\ c.method = "ControllerExpandVolume" => Expands(r, w)
    BY DEF Creates, Expands, Is, VolumeId
  <2>7. /\ DOMAIN promised' \subseteq Volumes
        /\ \A v \in DOMAIN promised' : promised'[v] \in Nat
    BY <2>2, <2>3, <2>4 DEF Types
  <2>8. \A v \in DOMAIN promised' : \E q \in Requests : Creates(q, v) /\ pc'[q] = "done"
    BY <1>2, <2>1, <2>3, <2>4, <2>5, <2>6 DEF PromisesAreMade
  <2>9. \A v \in DOMAIN promised' : \E q \in Requests :
          (Creates(q, v) \/ Expands(q, v)) /\ pc'[q] = "done" /\ call'[q].size = promised'[v]
    BY <1>2, <2>1, <2>3, <2>4, <2>5, <2>6 DEF PromisesAreMade
  <2>10. c.method = "CreateSnapshot" => IdOf(c) \in SnapshotIds /\ Takes(r, IdOf(c))
    BY SetupsAre, CallsAre DEF Takes, Is, Types
  <2>11. \A sid \in DOMAIN captured' :
           \/ sid \in DOMAIN captured
           \/ c.method = "CreateSnapshot" /\ sid = IdOf(c)
    <3>1. captured' = Captured(c)
      BY <1>5, ReplyIs
    <3>2. CASE c.method # "CreateSnapshot"
      BY <3>1, <3>2 DEF Captured
    <3>3. CASE c.method = "CreateSnapshot"
      <4>1. captured' = [sid \in DOMAIN captured \cup {IdOf(c)} |-> 0]
        BY <3>1, <3>3 DEF Captured
      <4>2. QED
        BY <3>3, <4>1
    <3>4. QED
      BY <3>2, <3>3
  <2>12. \A sid \in DOMAIN captured' : \E q \in Requests : Takes(q, sid) /\ pc'[q] = "done"
    <3>1. \A sid \in DOMAIN captured : \E q \in Requests : Takes(q, sid) /\ pc'[q] = "done"
      BY <1>2 DEF PromisesAreMade
    <3>2. QED
      BY <2>1, <2>10, <2>11, <3>1
  <2>13. DOMAIN captured' \subseteq SnapshotIds
    BY <2>10, <2>11 DEF Types
  <2>14. /\ \A v \in DOMAIN promised' : \E q \in Requests : Creates(q, v)' /\ pc'[q] = "done"
         /\ \A v \in DOMAIN promised' : \E q \in Requests :
              (Creates(q, v)' \/ Expands(q, v)') /\ pc'[q] = "done"
                /\ call'[q].size = promised'[v]
    BY <1>3, <2>8, <2>9
  <2>15. \A sid \in DOMAIN captured' : \E q \in Requests : Takes(q, sid)' /\ pc'[q] = "done"
    BY <1>3, <2>12
  <2>16. PromisesAreMade'
    BY <2>14, <2>15 DEF PromisesAreMade
  <2>17. QED
    BY <2>7, <2>13, <2>16
<1>6. UNCHANGED <<promised, captured>> \/ \E r \in Requests : Reply(r)
  BY OnwardIs, StartIs DEF Onward
<1>7. QED
  BY <1>4, <1>5, <1>6

\* What a handler's step changes in memory.
LEMMA WorksLearn ==
  ASSUME NEW r \in Requests, Works(r)
  PROVE  mem' = mem \/ DoesRunReplication(r) \/ DoesFindShare(r) \/ DoesReadDataset(r)
           \/ \E t \in Tables : DoesPost(r, t)
BY DEF Works, DoesCheckSize, DoesCreate, DoesTakeTemporary, DoesClone, DoesWaitForJob,
   DoesSetProperties, DoesStripSnapshots, DoesDropTemporary, DoesSetSize, DoesResize,
   DoesSetContext, DoesSetSuccess, DoesLookUp, DoesSetGroups, DoesSetName, DoesDeferOrigin,
   DoesCheckManaged, DoesDestroyVolume, DoesCheckName, DoesTakeSnapshot, DoesCreateContainer,
   DoesReleaseSnapshot, DoesDestroyDetached, DoesDestroyContainer, DoesKeepId, DoesAskFor,
   DoesDeleteRow, DoesInheritId

\* A handler's step leaves the memory of the others alone.
LEMMA WorksRemember ==
  ASSUME Types, NEW r \in Requests, Works(r)
  PROVE  \A q \in Requests \ {r} : mem'[q] = mem[q]
<1>1. mem' = mem \/ DoesRunReplication(r) \/ DoesFindShare(r) \/ DoesReadDataset(r)
        \/ \E t \in Tables : DoesPost(r, t)
  BY WorksLearn
<1>2. DoesRunReplication(r) => \E new : mem' = [mem EXCEPT ![r] = new]
  BY DEF DoesRunReplication
<1>3. DoesFindShare(r) => mem' = mem \/ \E new : mem' = [mem EXCEPT ![r] = new]
  BY DEF DoesFindShare
<1>4. DoesReadDataset(r) => mem' = mem \/ \E new : mem' = [mem EXCEPT ![r] = new]
  BY DEF DoesReadDataset
<1>5. \A t \in Tables : DoesPost(r, t) => \E new : mem' = [mem EXCEPT ![r] = new]
  BY DEF DoesPost
<1>6. mem' = mem \/ \E new : mem' = [mem EXCEPT ![r] = new]
  BY <1>1, <1>2, <1>3, <1>4, <1>5
<1>7. QED
  BY <1>6 DEF Types

\* What a handler has in memory goes when it ends.
LEMMA MemoriesStay ==
  ASSUME Types, \A q \in Requests : ~ Running(q) => mem[q] = Blank, [Next]_vars
  PROVE  \A q \in Requests : ~ Running(q)' => mem'[q] = Blank
<1> SUFFICES ASSUME NEW q \in Requests, ~ Running(q)' PROVE mem'[q] = Blank
  OBVIOUS
<1>1. DOMAIN mem = Requests /\ DOMAIN pc = Requests /\ SetupIs
  BY DEF Types
<1>2. CASE UNCHANGED vars
  BY <1>2 DEF vars, Running
<1>3. CASE Restart
  BY <1>3, RestartIs
<1>4. ASSUME NEW r \in Requests, Start(r) PROVE mem'[q] = Blank
  <2>1. pc'[r] = First(call[r]) /\ First(call[r]) \notin {"idle", "pending", "done"}
    BY <1>1, <1>4, StartIs, PlacesAreNoStates
  <2>2. q # r /\ pc'[q] = pc[q] /\ mem' = mem
    BY <1>1, <1>4, <2>1, StartIs DEF Running
  <2>3. QED
    BY <2>2 DEF Running
<1>5. ASSUME NEW r \in Requests, Works(r) PROVE mem'[q] = Blank
  <2>1. PICK p \in Places(call[r]) \cup {"reply"} : Moves(r, p)
    BY <1>5, WorksMoves
  <2>2. pc' = [pc EXCEPT ![r] = p] /\ p \notin {"idle", "pending", "done"}
    BY <1>1, <2>1, PlacesAreNoStates DEF Moves
  <2>3. q # r /\ pc'[q] = pc[q]
    BY <1>1, <2>2 DEF Running
  <2>4. mem'[q] = mem[q]
    BY <1>5, <2>3, WorksRemember
  <2>5. QED
    BY <2>3, <2>4 DEF Running
<1>6. ASSUME NEW r \in Requests, mem' = [mem EXCEPT ![r] = Blank],
             \A x \in Requests \ {r} : pc'[x] = pc[x]
      PROVE  mem'[q] = Blank
  BY <1>1, <1>6 DEF Running
<1>7. ASSUME NEW r \in Requests, Reply(r) PROVE mem'[q] = Blank
  BY <1>1, <1>6, <1>7, ReplyIs
<1>8. ASSUME NEW r \in Requests, Stalls(r) PROVE mem'[q] = Blank
  BY <1>1, <1>6, <1>8 DEF Stalls
<1>9. ASSUME NEW r \in Requests, JobCloses(r) PROVE mem'[q] = Blank
  <2>1. ~ Running(q)
    BY <1>9 DEF JobCloses, Running
  <2>2. mem[q].job # "RUNNING"
    BY <2>1 DEF Blank
  <2>3. mem'[q] = mem[q]
    BY <1>9, <2>2 DEF JobCloses, JobIs
  <2>4. QED
    BY <2>1, <2>3
<1>10. ASSUME NEW r \in Requests, NEW t \in Tables, Repeats(r, t) PROVE mem'[q] = Blank
  BY <1>10 DEF Repeats, StaysPut, Running
<1>11. QED
  BY <1>2, <1>3, <1>4, <1>5, <1>7, <1>8, <1>9, <1>10, StepsOfNext DEF HalfPosts

\* The lock and the CO's order are kept by every step.
LEMMA ControlStays ==
  ASSUME Types, Control, [Next]_vars
  PROVE  Control'
BY UnwantedStaysSettled, ExclusiveStays, SourcesStayMade, PromisesStayMade, MemoriesStay
   DEF Control

\* How the snapshots change.
LEMMA SnapshotChanges ==
  ASSUME Types, [Next]_vars
  PROVE  \/ snap' = snap
         \/ \E r \in Requests :
              /\ DoesTakeTemporary(r) /\ From(call[r]) \in DOMAIN ds
              /\ LET k == CopyFrom(call[r]) IN
                 Captures(k, [size |-> ds[k[1]].size, managed |-> FALSE, defer |-> FALSE])
         \/ \E r \in Requests :
              /\ DoesTakeSnapshot(r) /\ From(call[r]) \in DOMAIN ds
              /\ LET k == SnapOf(IdOf(call[r])) IN
                 Captures(k, [size |-> ds[k[1]].size, managed |-> TRUE, defer |-> FALSE])
         \/ \E r \in Requests :
              /\ JobCloses(r) /\ Changes(Dest(call[r]), [ds[Dest(call[r])] EXCEPT !.whole = TRUE])
              /\ Captures(<<Dest(call[r]), Tag(call[r])>>,
                          [size |-> ds[Dest(call[r])].size, managed |-> FALSE, defer |-> FALSE])
         \/ \E r \in Requests : \E some :
              /\ Releases(some) /\ ds' = ds /\ \A k \in DOMAIN snap : k \in some => Frees(r, k)
         \/ \E r \in Requests :
              /\ Destroys(r)
              /\ Discards(SnapsOf(Dest(call[r]))
                   \cup {k \in DOMAIN snap : snap[k].defer /\ Clones(k) = {Dest(call[r])}})
<1>1. ASSUME NEW r \in Requests, DoesStripSnapshots(r)
      PROVE  \E some : /\ Releases(some) /\ ds' = ds
                      /\ \A k \in DOMAIN snap : k \in some => Frees(r, k)
  <2>1. CASE Is(r, "CreateSnapshot")
    <3>1. Releases({<<Dest(call[r]), Tag(call[r])>>}) /\ ds' = ds
      BY <1>1, <2>1 DEF DoesStripSnapshots
    <3>2. \A k \in {<<Dest(call[r]), Tag(call[r])>>} : Frees(r, k)
      BY <1>1, <2>1 DEF Frees
    <3>3. QED
      BY <3>1, <3>2
  <2>2. CASE ~ Is(r, "CreateSnapshot")
    <3>1. Releases(SnapsOf(Dest(call[r]))) /\ ds' = ds
      BY <1>1, <2>2 DEF DoesStripSnapshots
    <3>2. \A k \in SnapsOf(Dest(call[r])) : Frees(r, k)
      BY <1>1, <2>2 DEF Frees, SnapsOf
    <3>3. QED
      BY <3>1, <3>2
  <2>3. QED
    BY <2>1, <2>2
<1>2. ASSUME NEW r \in Requests, DoesDropTemporary(r)
      PROVE  \E some : /\ Releases(some) /\ ds' = ds
                      /\ \A k \in DOMAIN snap : k \in some => Frees(r, k)
  <2>1. Releases({CopyFrom(call[r])}) /\ ds' = ds
    BY <1>2 DEF DoesDropTemporary
  <2>2. \A k \in {CopyFrom(call[r])} : Frees(r, k)
    BY <1>2 DEF Frees
  <2>3. QED
    BY <2>1, <2>2
<1>3. ASSUME NEW r \in Requests, DoesReleaseSnapshot(r)
      PROVE  \E some : /\ Releases(some) /\ ds' = ds
                      /\ \A k \in DOMAIN snap : k \in some => Frees(r, k)
  <2>1. Releases({SnapOf(call[r].source)}) /\ ds' = ds
    BY <1>3 DEF DoesReleaseSnapshot
  <2>2. \A k \in {SnapOf(call[r].source)} : Frees(r, k)
    BY <1>3 DEF Frees
  <2>3. QED
    BY <2>1, <2>2
<1>4. ASSUME NEW r \in Requests, DoesDeferOrigin(r), snap' # snap
      PROVE  \E some : /\ Releases(some) /\ ds' = ds
                      /\ \A k \in DOMAIN snap : k \in some => Frees(r, k)
  <2>1. /\ mem[r].origin # NoOrigin /\ mem[r].origin[2][1] = "for-volume"
        /\ Releases({mem[r].origin}) /\ ds' = ds
    BY <1>4 DEF DoesDeferOrigin
  <2>2. \A k \in {mem[r].origin} : Frees(r, k)
    BY <1>4, <2>1 DEF Frees
  <2>3. QED
    BY <2>1, <2>2
<1>5. ASSUME NEW r \in Requests, JobCloses(r), snap' # snap
      PROVE  /\ Changes(Dest(call[r]), [ds[Dest(call[r])] EXCEPT !.whole = TRUE])
             /\ Captures(<<Dest(call[r]), Tag(call[r])>>,
                         [size |-> ds[Dest(call[r])].size, managed |-> FALSE, defer |-> FALSE])
  BY <1>5 DEF JobCloses
<1>6. ASSUME NEW r \in Requests, DoesTakeTemporary(r), snap' # snap
      PROVE  /\ From(call[r]) \in DOMAIN ds
             /\ LET k == CopyFrom(call[r]) IN
                Captures(k, [size |-> ds[k[1]].size, managed |-> FALSE, defer |-> FALSE])
  BY <1>6 DEF DoesTakeTemporary
<1>7. ASSUME NEW r \in Requests, DoesTakeSnapshot(r), snap' # snap
      PROVE  /\ From(call[r]) \in DOMAIN ds
             /\ LET k == SnapOf(IdOf(call[r])) IN
                Captures(k, [size |-> ds[k[1]].size, managed |-> TRUE, defer |-> FALSE])
  BY <1>7 DEF DoesTakeSnapshot
<1>8. ASSUME NEW r \in Requests, Destroys(r)
      PROVE  Discards(SnapsOf(Dest(call[r]))
               \cup {k \in DOMAIN snap : snap[k].defer /\ Clones(k) = {Dest(call[r])}})
  BY <1>8 DEF Destroys, DoesDestroyVolume, DoesDestroyDetached
<1>9. QED
  BY <1>1, <1>2, <1>3, <1>4, <1>5, <1>6, <1>7, <1>8, PoolSteps DEF Destroys

\* The parts of a snapshot's id, and its name in the pool.
LEMMA IdsAre ==
  /\ \A c : IdOf(c)[2] = c.volume /\ IdOf(c)[3] = c.name
  /\ \A c : IdOf(c)[1] = IF c.detached THEN "detached" ELSE "snapshot"
  /\ \A c : SnapOf(IdOf(c)) = <<Vol(c.volume), <<"csi", c.name>>>>
  /\ \A c : SnapOf(IdOf(c))[1] = Vol(c.volume) /\ SnapOf(IdOf(c))[2] = <<"csi", c.name>>
  /\ \A sid : SnapOf(sid)[1] = Vol(sid[2]) /\ SnapOf(sid)[2] = <<"csi", sid[3]>>
<1>1. \A c : IdOf(c) = <<IF c.detached THEN "detached" ELSE "snapshot", c.volume, c.name>>
  BY DEF IdOf
<1>2. /\ \A c : IdOf(c)[2] = c.volume /\ IdOf(c)[3] = c.name
      /\ \A c : IdOf(c)[1] = IF c.detached THEN "detached" ELSE "snapshot"
  BY <1>1
<1>3. \A sid : SnapOf(sid) = <<Vol(sid[2]), <<"csi", sid[3]>>>>
  BY DEF SnapOf
<1>4. \A sid : SnapOf(sid)[1] = Vol(sid[2]) /\ SnapOf(sid)[2] = <<"csi", sid[3]>>
  BY <1>3
<1>5. QED
  BY <1>2, <1>3, <1>4

\* What a call copies from, case by case.
LEMMA FromIs ==
  ASSUME SetupIs, NEW r \in Requests
  PROVE  /\ Is(r, "CreateSnapshot") => From(call[r]) = Vol(call[r].volume)
                                        /\ Tag(call[r]) = <<"for-snapshot", call[r].name>>
         /\ Is(r, "CreateVolume") /\ call[r].source[1] = "volume" =>
              /\ From(call[r]) = Vol(call[r].source[2])
              /\ Tag(call[r]) = <<"for-volume", VolumeId(call[r])>>
         /\ Is(r, "CreateVolume") /\ call[r].source[1] = "detached" =>
              /\ From(call[r]) = Det(call[r].source[2], call[r].source[3])
              /\ Tag(call[r]) = <<"for-volume", VolumeId(call[r])>>
         /\ Is(r, "CreateVolume") /\ call[r].source[1] = "snapshot" =>
              /\ From(call[r]) = Vol(call[r].source[2])
              /\ Tag(call[r]) = <<"csi", call[r].source[3]>>
<1>1. Is(r, "CreateSnapshot") => call[r].source[1] = "none"
  BY SetupsAre, CallsAre DEF Is
<1>2. QED
  BY <1>1 DEF From, Tag, Is

\* A snapshot that is new.
LEMMA NewSnapshots ==
  ASSUME Types, [Next]_vars, NEW k \in DOMAIN snap', k \notin DOMAIN snap
  PROVE  \E r \in Requests :
           \/ /\ DoesTakeTemporary(r) /\ k = CopyFrom(call[r]) /\ k[1] \in DOMAIN ds /\ ds' = ds
              /\ snap'[k] = [size |-> ds[k[1]].size, managed |-> FALSE, defer |-> FALSE]
           \/ /\ DoesTakeSnapshot(r) /\ k = SnapOf(IdOf(call[r])) /\ k[1] \in DOMAIN ds /\ ds' = ds
              /\ snap'[k] = [size |-> ds[k[1]].size, managed |-> TRUE, defer |-> FALSE]
           \/ /\ JobCloses(r) /\ k = <<Dest(call[r]), Tag(call[r])>> /\ k[1] \in DOMAIN ds
              /\ k[1] \in DOMAIN ds' /\ ds'[k[1]] = [ds[k[1]] EXCEPT !.whole = TRUE]
              /\ snap'[k] = [size |-> ds[k[1]].size, managed |-> FALSE, defer |-> FALSE]
<1>1. ~ \E some : Releases(some) \/ Discards(some)
  BY DEF Releases, Discards
<1>2. ASSUME NEW r \in Requests, DoesTakeTemporary(r), From(call[r]) \in DOMAIN ds,
             Captures(CopyFrom(call[r]), [size |-> ds[CopyFrom(call[r])[1]].size,
                                          managed |-> FALSE, defer |-> FALSE])
      PROVE  /\ k = CopyFrom(call[r]) /\ k[1] \in DOMAIN ds /\ ds' = ds
             /\ snap'[k] = [size |-> ds[k[1]].size, managed |-> FALSE, defer |-> FALSE]
  <2>1. k = CopyFrom(call[r]) /\ ds' = ds
    BY <1>2 DEF Captures, DoesTakeTemporary
  <2>2. k[1] = From(call[r])
    BY <2>1 DEF CopyFrom
  <2>3. QED
    BY <1>2, <2>1, <2>2 DEF Captures
<1>3. ASSUME NEW r \in Requests, DoesTakeSnapshot(r), From(call[r]) \in DOMAIN ds,
             Captures(SnapOf(IdOf(call[r])), [size |-> ds[SnapOf(IdOf(call[r]))[1]].size,
                                              managed |-> TRUE, defer |-> FALSE])
      PROVE  /\ k = SnapOf(IdOf(call[r])) /\ k[1] \in DOMAIN ds /\ ds' = ds
             /\ snap'[k] = [size |-> ds[k[1]].size, managed |-> TRUE, defer |-> FALSE]
  <2>1. k = SnapOf(IdOf(call[r])) /\ ds' = ds /\ Is(r, "CreateSnapshot")
    BY <1>3 DEF Captures, DoesTakeSnapshot
  <2>2. k[1] = From(call[r])
    <3>1. k[1] = Vol(call[r].volume)
      BY <2>1, IdsAre
    <3>2. From(call[r]) = Vol(call[r].volume)
      BY <2>1, FromIs DEF Types
    <3>3. QED
      BY <3>1, <3>2
  <2>3. snap'[k] = [size |-> ds[k[1]].size, managed |-> TRUE, defer |-> FALSE]
    BY <1>3, <2>1 DEF Captures
  <2>4. QED
    BY <1>3, <2>1, <2>2, <2>3
<1>4. ASSUME NEW r \in Requests, JobCloses(r),
             Changes(Dest(call[r]), [ds[Dest(call[r])] EXCEPT !.whole = TRUE]),
             Captures(<<Dest(call[r]), Tag(call[r])>>,
                      [size |-> ds[Dest(call[r])].size, managed |-> FALSE, defer |-> FALSE])
      PROVE  /\ k = <<Dest(call[r]), Tag(call[r])>> /\ k[1] \in DOMAIN ds
             /\ k[1] \in DOMAIN ds' /\ ds'[k[1]] = [ds[k[1]] EXCEPT !.whole = TRUE]
             /\ snap'[k] = [size |-> ds[k[1]].size, managed |-> FALSE, defer |-> FALSE]
  <2>1. /\ k = <<Dest(call[r]), Tag(call[r])>>
        /\ snap'[k] = [size |-> ds[Dest(call[r])].size, managed |-> FALSE, defer |-> FALSE]
    BY <1>4 DEF Captures
  <2>2. /\ Dest(call[r]) \in DOMAIN ds /\ Dest(call[r]) \in DOMAIN ds'
        /\ ds'[Dest(call[r])] = [ds[Dest(call[r])] EXCEPT !.whole = TRUE]
    BY <1>4 DEF Changes
  <2>3. k[1] = Dest(call[r])
    BY <2>1
  <2>4. QED
    BY <2>1, <2>2, <2>3
<1>5. QED
  BY <1>1, <1>2, <1>3, <1>4, SnapshotChanges

\* One that is gone.
LEMMA LostSnapshots ==
  ASSUME Types, [Next]_vars, NEW k \in DOMAIN snap, k \notin DOMAIN snap'
  PROVE  \E r \in Requests :
           \/ Frees(r, k) /\ Clones(k) = {} /\ ds' = ds
           \/ /\ Destroys(r)
              /\ \/ k[1] = Dest(call[r])
                 \/ snap[k].defer /\ Clones(k) = {Dest(call[r])}
<1>1. ~ \E x, new : Captures(x, new)
  BY DEF Captures
<1>2. ASSUME NEW some, Releases(some) PROVE k \in some /\ Clones(k) = {}
  BY <1>2 DEF Releases
<1>3. ASSUME NEW r \in Requests,
             Discards(SnapsOf(Dest(call[r]))
               \cup {x \in DOMAIN snap : snap[x].defer /\ Clones(x) = {Dest(call[r])}})
      PROVE  k[1] = Dest(call[r]) \/ (snap[k].defer /\ Clones(k) = {Dest(call[r])})
  BY <1>3 DEF Discards, SnapsOf
<1>4. QED
  BY <1>1, <1>2, <1>3, SnapshotChanges

\* One that stays is the same but for the mark.
LEMMA KeptSnapshots ==
  ASSUME Types, [Next]_vars, NEW k \in DOMAIN snap, k \in DOMAIN snap'
  PROVE  \/ snap'[k] = snap[k]
         \/ \E r \in Requests : /\ Frees(r, k) /\ Clones(k) # {} /\ ds' = ds
                                /\ snap'[k] = [snap[k] EXCEPT !.defer = TRUE]
<1>1. \A x, new : Captures(x, new) => snap'[k] = snap[k]
  BY DEF Captures
<1>2. \A gone : Discards(gone) => snap'[k] = snap[k]
  BY DEF Discards
<1>3. ASSUME NEW some, Releases(some)
      PROVE  \/ snap'[k] = snap[k]
             \/ k \in some /\ Clones(k) # {} /\ snap'[k] = [snap[k] EXCEPT !.defer = TRUE]
  BY <1>3 DEF Releases
<1>4. QED
  BY <1>1, <1>2, <1>3, SnapshotChanges


------------------------------------------------------------
(* Types.                                                 *)

\* Handlers stay in their places.
LEMMA PlacesStay ==
  ASSUME Types, [Next]_vars
  PROVE  /\ SetupIs'
         /\ DOMAIN pc' = Requests /\ pc' = [q \in Requests |-> pc'[q]]
         /\ \A q \in Requests : InItsPlace(q)'
<1>1. Forward /\ DOMAIN pc = Requests /\ SetupIs
  BY ForwardIs DEF Types
<1>2. SetupIs'
  <2>1. PICK s \in Setups : /\ kind = s.kind /\ reuse = s.reuse /\ drops = s.drops
                            /\ call \in s.plans /\ faults \in 0 .. s.faults
    BY <1>1 DEF SetupIs
  <2>2. s.faults \in Nat
    BY SetupsAssumption DEF Setup
  <2>3. faults' \in 0 .. s.faults
    BY <1>1, <2>1, <2>2 DEF Forward, Worsens
  <2>4. QED
    BY <1>1, <2>1, <2>3 DEF Forward, SetupIs
<1>3. \A q \in Requests : Places(call[q])' = Places(call[q])
  BY <1>1 DEF Forward, Places, Sharing, Unsharing, Unshared
<1>4. \A q \in Requests : pc[q] \in Places(call[q]) \cup {"idle", "pending", "reply", "done"}
  BY DEF Types, InItsPlace
<1>5. ASSUME NEW r \in Requests,
             NEW p \in Places(call[r]) \cup {"idle", "pending", "reply", "done"},
             pc' = [pc EXCEPT ![r] = p]
      PROVE  /\ DOMAIN pc' = Requests /\ pc' = [q \in Requests |-> pc'[q]]
             /\ \A q \in Requests :
                  pc'[q] \in Places(call[q]) \cup {"idle", "pending", "reply", "done"}
  BY <1>1, <1>4, <1>5
<1>6. /\ DOMAIN pc' = Requests /\ pc' = [q \in Requests |-> pc'[q]]
      /\ \A q \in Requests : pc'[q] \in Places(call[q]) \cup {"idle", "pending", "reply", "done"}
  <2>1. CASE Onward
    <3>1. DOMAIN pc' = Requests /\ pc' = [q \in Requests |-> pc'[q]]
      BY <2>1 DEF Onward, IsFunction
    <3>2. QED
      BY <1>4, <2>1, <3>1 DEF Onward
  <2>2. ASSUME NEW r \in Requests, Start(r) \/ Reply(r)
        PROVE  \E p \in Places(call[r]) \cup {"idle", "pending", "reply", "done"} :
                 pc' = [pc EXCEPT ![r] = p]
    BY <2>2, StartIs, ReplyIs
  <2>3. QED
    BY <1>5, <2>1, <2>2, OnwardIs
<1>7. QED
  BY <1>2, <1>3, <1>6 DEF InItsPlace

\* A handler answers with a code or not at all.
LEMMA AnswersStay ==
  ASSUME Types, [Next]_vars
  PROVE  answer' \in [Requests -> Codes]
<1>1. answer \in [Requests -> Codes] /\ {"none", "OK"} \subseteq Codes
  BY DEF Types, Codes
<1>2. \/ answer' = answer
      \/ \E r \in Requests : \E code \in Codes : answer' = [answer EXCEPT ![r] = code]
  <2>1. CASE UNCHANGED vars
    BY <2>1 DEF vars
  <2>2. CASE Restart
    BY <2>2, RestartIs
  <2>3. ASSUME NEW r \in Requests, Start(r) \/ Reply(r)
        PROVE  \E code \in Codes : answer' = [answer EXCEPT ![r] = code]
    BY <1>1, <2>3, StartIs, ReplyIs
  <2>4. ASSUME NEW r \in Requests, Works(r) PROVE answer' = answer
    BY <2>4, WorksMoves DEF Moves
  <2>5. ASSUME NEW r \in Requests, Stalls(r) \/ HalfPosts(r)
        PROVE  \E code \in Codes : answer' = [answer EXCEPT ![r] = code]
    BY <2>5 DEF Stalls, HalfPosts
  <2>6. ASSUME NEW r \in Requests, JobCloses(r) \/ \E t \in Tables : Repeats(r, t)
        PROVE  answer' = answer
    BY <2>6 DEF JobCloses, Repeats, StaysPut
  <2>7. QED
    BY <2>1, <2>2, <2>3, <2>4, <2>5, <2>6, StepsOfNext
<1>3. QED
  BY <1>1, <1>2

\* The datasets and snapshots are functions, and the rows are in tables.
LEMMA ShapesStay ==
  ASSUME Types, [Next]_vars
  PROVE  IsFunction(ds') /\ IsFunction(snap') /\ IsTable(table')
<1>1. IsFunction(ds) /\ IsFunction(snap) /\ IsTable(table)
  BY DEF Types, IsFunction, IsTable
<1>2. IsFunction(ds')
  <2>1. ASSUME NEW r \in Requests,
               DoesCreate(r) \/ DoesClone(r) \/ DoesRunReplication(r) \/ DoesCreateContainer(r)
                 \/ Adjusts(r) \/ JobCloses(r) \/ DoesDestroyVolume(r) \/ DoesDestroyDetached(r)
                 \/ DoesDestroyContainer(r)
        PROVE  ds' = ds \/ IsFunction(ds')
    <3>1. \/ \E x, new : Changes(x, new) \/ Adds(x, new)
          \/ \E x : Removes(x)
          \/ ds' = ds
      BY <2>1 DEF Adjusts, DoesSetProperties, DoesSetSize, DoesResize, DoesSetContext,
         DoesSetSuccess, DoesSetName, DoesKeepId, DoesInheritId, JobCloses, DoesDestroyVolume,
         DoesDestroyDetached, DoesDestroyContainer, DoesCreate, DoesClone, DoesRunReplication,
         DoesCreateContainer
    <3>2. QED
      BY <3>1 DEF Changes, Removes, Adds
  <2>2. QED
    BY <1>1, <2>1, PoolSteps
<1>3. IsFunction(snap')
  BY <1>1, SnapshotChanges DEF Captures, Releases, Discards
<1>4. IsTable(table')
  <2>1. ASSUME NEW r \in Requests, NEW t \in Tables,
               DoesPost(r, t) \/ DoesDeleteRow(r, t) \/ Repeats(r, t)
        PROVE  table' = table \/ IsTable(table')
    BY <2>1 DEF DoesPost, DoesDeleteRow, Repeats, Inserts, Erases
  <2>2. ASSUME NEW r \in Requests, HalfPosts(r) \/ DoesSetGroups(r)
        PROVE  IsTable(table')
    BY <2>2 DEF HalfPosts, DoesSetGroups, Inserts
  <2>3. QED
    BY <1>1, <2>1, <2>2, PoolSteps
<1>5. QED
  BY <1>2, <1>3, <1>4

\* A record of a dataset's or of a handler's ids stays one.
LEMMA IdsStay ==
  ASSUME NEW ids \in [Tables -> Ids0], NEW t \in Tables, NEW i \in Ids0
  PROVE  [ids EXCEPT ![t] = i] \in [Tables -> Ids0]
OBVIOUS

\* Datasets have their types.
LEMMA DatasetTypesStay ==
  ASSUME Types, [Next]_vars
  PROVE  /\ DOMAIN ds' \subseteq Vols \cup Cons \cup Dets
         /\ \A d \in DOMAIN ds' : ds'[d] \in DatasetType
<1> SUFFICES ASSUME NEW d \in DOMAIN ds'
             PROVE  d \in Vols \cup Cons \cup Dets /\ ds'[d] \in DatasetType
  OBVIOUS
<1>1. call \in Plans /\ SetupIs
  BY SetupsAre DEF Types
<1>2. \A r \in Requests :
        /\ Dest(call[r]) \in Vols \cup Dets /\ Con(call[r].volume) \in Cons
        /\ call[r].size \in Nat
  BY <1>1, DestIs, CallsAre DEF Cons
<1>3. Unset \in [Tables -> Ids0] /\ 0 \in Ids0
  BY DEF Unset, Ids0
<1>4. ASSUME NEW k \in SnapNames \cup {NoOrigin}, NEW n \in Nat,
             NEW has \in SUBSET {"managed", "name", "context", "success"}, NEW whole \in BOOLEAN
      PROVE  Dataset(k, n, has, whole) \in DatasetType
  BY <1>3 DEF Dataset, DatasetType
<1>5. CASE d \notin DOMAIN ds
  <2>1. \A k \in DOMAIN snap : k \in SnapNames /\ snap[k].size \in Nat
    BY DEF Types, SnapshotType
  <2>2. NoOrigin \in SnapNames \cup {NoOrigin} /\ 0 \in Nat
        /\ {"managed"} \in SUBSET {"managed", "name", "context", "success"}
        /\ {} \in SUBSET {"managed", "name", "context", "success"}
        /\ TRUE \in BOOLEAN /\ FALSE \in BOOLEAN
    OBVIOUS
  <2>3. PICK r \in Requests :
           \/ /\ DoesCreate(r) /\ d = Dest(call[r])
              /\ ds'[d] = Dataset(NoOrigin, IF Zvols THEN call[r].size ELSE 0, {"managed"}, TRUE)
           \/ /\ DoesClone(r) /\ d = Dest(call[r])
              /\ LET k == CopyFrom(call[r]) IN
                 k \in DOMAIN snap /\ ds'[d] = Dataset(k, snap[k].size, {"managed"}, TRUE)
           \/ /\ DoesRunReplication(r) /\ d = Dest(call[r])
              /\ LET k == CopyFrom(call[r]) IN
                 k \in DOMAIN snap /\ ds'[d] = Dataset(NoOrigin, snap[k].size, {}, FALSE)
           \/ /\ DoesCreateContainer(r) /\ d = Con(call[r].volume)
              /\ ds'[d] = Dataset(NoOrigin, 0, {}, TRUE)
    BY <1>5, NewDatasets
  <2>4. QED
    BY <1>2, <1>4, <2>1, <2>2, <2>3
<1>6. CASE d \in DOMAIN ds
  <2>1. d \in Vols \cup Cons \cup Dets /\ ds[d] \in DatasetType
    BY <1>6 DEF Types
  <2>2. \A r \in Requests, t \in Tables : mem[r].ids[t] \in Ids0
    BY DEF Types, MemoryType
  <2>3. /\ ds[d].has \in SUBSET {"managed", "name", "context", "success"}
        /\ ds[d].ids \in [Tables -> Ids0]
    BY <2>1 DEF DatasetType
  <2>4. ASSUME NEW p \in {"managed", "name", "context", "success"}
        PROVE  [ds[d] EXCEPT !.has = ds[d].has \cup {p}] \in DatasetType
    <3>1. ds[d].has \cup {p} \in SUBSET {"managed", "name", "context", "success"}
      BY <2>3
    <3>2. QED
      BY <2>1, <3>1 DEF DatasetType
  <2>5. ASSUME NEW n \in Nat PROVE [ds[d] EXCEPT !.size = n] \in DatasetType
    BY <2>1 DEF DatasetType
  <2>6. ASSUME NEW t \in Tables, NEW i \in Ids0 PROVE [ds[d] EXCEPT !.ids[t] = i] \in DatasetType
    <3>1. [ds[d].ids EXCEPT ![t] = i] \in [Tables -> Ids0]
      BY <2>3, IdsStay
    <3>2. QED
      BY <2>1, <3>1 DEF DatasetType
  <2>7. [ds[d] EXCEPT !.whole = TRUE] \in DatasetType
    BY <2>1 DEF DatasetType
  <2>8. \/ ds'[d] = ds[d]
        \/ \E p \in {"managed", "name", "context", "success"} :
             ds'[d] = [ds[d] EXCEPT !.has = ds[d].has \cup {p}]
        \/ \E r \in Requests : ds'[d] = [ds[d] EXCEPT !.size = call[r].size]
        \/ \E r \in Requests : \E t \in Tables : ds'[d] = [ds[d] EXCEPT !.ids[t] = mem[r].ids[t]]
        \/ \E t \in Tables : ds'[d] = [ds[d] EXCEPT !.ids[t] = 0]
        \/ ds'[d] = [ds[d] EXCEPT !.whole = TRUE]
    BY <1>6, KeptDatasets
  <2>9. ASSUME NEW p \in {"managed", "name", "context", "success"},
               ds'[d] = [ds[d] EXCEPT !.has = ds[d].has \cup {p}]
        PROVE  ds'[d] \in DatasetType
    BY <2>4, <2>9
  <2>10. ASSUME NEW r \in Requests, ds'[d] = [ds[d] EXCEPT !.size = call[r].size]
         PROVE  ds'[d] \in DatasetType
    BY <1>2, <2>5, <2>10
  <2>11. ASSUME NEW r \in Requests, NEW t \in Tables,
                ds'[d] = [ds[d] EXCEPT !.ids[t] = mem[r].ids[t]]
         PROVE  ds'[d] \in DatasetType
    BY <2>2, <2>6, <2>11
  <2>12. ASSUME NEW t \in Tables, ds'[d] = [ds[d] EXCEPT !.ids[t] = 0]
         PROVE  ds'[d] \in DatasetType
    BY <1>3, <2>6, <2>12
  <2>13. QED
    BY <2>1, <2>7, <2>8, <2>9, <2>10, <2>11, <2>12
<1>7. QED
  BY <1>5, <1>6

\* And so have snapshots.
LEMMA SnapshotTypesStay ==
  ASSUME Types, [Next]_vars
  PROVE  DOMAIN snap' \subseteq SnapNames /\ \A k \in DOMAIN snap' : snap'[k] \in SnapshotType
<1> SUFFICES ASSUME NEW k \in DOMAIN snap' PROVE k \in SnapNames /\ snap'[k] \in SnapshotType
  OBVIOUS
<1>1. call \in Plans /\ SetupIs
  BY SetupsAre DEF Types
<1>2. \A x \in DOMAIN ds : ds[x].size \in Nat
  BY DEF Types, DatasetType
<1>3. CASE k \notin DOMAIN snap
  <2>1. PICK r \in Requests :
           \/ /\ DoesTakeTemporary(r) /\ k = CopyFrom(call[r]) /\ k[1] \in DOMAIN ds
              /\ snap'[k] = [size |-> ds[k[1]].size, managed |-> FALSE, defer |-> FALSE]
           \/ /\ DoesTakeSnapshot(r) /\ k = SnapOf(IdOf(call[r])) /\ k[1] \in DOMAIN ds
              /\ snap'[k] = [size |-> ds[k[1]].size, managed |-> TRUE, defer |-> FALSE]
           \/ /\ JobCloses(r) /\ k = <<Dest(call[r]), Tag(call[r])>> /\ k[1] \in DOMAIN ds
              /\ snap'[k] = [size |-> ds[k[1]].size, managed |-> FALSE, defer |-> FALSE]
    BY <1>3, NewSnapshots
  <2>2. snap'[k] \in SnapshotType
    <3>1. ds[k[1]].size \in Nat
      BY <1>2, <2>1
    <3>2. \A b \in BOOLEAN : [size |-> ds[k[1]].size, managed |-> b, defer |-> FALSE]
                               \in SnapshotType
      BY <3>1 DEF SnapshotType
    <3>3. QED
      BY <2>1, <3>2
  <2>3. CASE DoesTakeTemporary(r) /\ k = CopyFrom(call[r])
    <3>1. Is(r, "CreateSnapshot") \/ (Is(r, "CreateVolume") /\ call[r].source[1] # "none")
      BY <2>3 DEF DoesTakeTemporary, Copies, Is
    <3>2. QED
      BY <1>1, <2>2, <2>3, <3>1, CopyIs
  <2>4. CASE DoesTakeSnapshot(r) /\ k = SnapOf(IdOf(call[r]))
    <3>1. Is(r, "CreateSnapshot") /\ call[r].volume \in Volumes /\ call[r].name \in SnapshotNames
      BY <1>1, <2>4, CallsAre DEF DoesTakeSnapshot, Is
    <3>2. k = <<Vol(call[r].volume), <<"csi", call[r].name>>>>
      BY <2>4, IdsAre
    <3>3. QED
      BY <2>2, <3>1, <3>2 DEF SnapNames, Vols, Tags
  <2>5. CASE JobCloses(r) /\ k = <<Dest(call[r]), Tag(call[r])>>
    <3>1. Is(r, "CreateSnapshot") \/ (Is(r, "CreateVolume") /\ call[r].source[1] # "none")
      BY <2>5 DEF JobCloses, Filling, Replicates, Is
    <3>2. Tag(call[r]) \in Tags /\ Dest(call[r]) \in Vols \cup Dets
      BY <1>1, <3>1, CopyIs, DestIs
    <3>3. QED
      BY <2>2, <2>5, <3>2 DEF SnapNames
  <2>6. QED
    BY <2>1, <2>3, <2>4, <2>5
<1>4. CASE k \in DOMAIN snap
  <2>1. k \in SnapNames /\ snap[k] \in SnapshotType
    BY <1>4 DEF Types
  <2>2. snap'[k] = snap[k] \/ snap'[k] = [snap[k] EXCEPT !.defer = TRUE]
    BY <1>4, KeptSnapshots
  <2>3. QED
    BY <2>1, <2>2 DEF SnapshotType
<1>5. QED
  BY <1>3, <1>4

\* And so has what a handler remembers.
LEMMA MemoryTypesStay ==
  ASSUME Types, [Next]_vars
  PROVE  mem' \in [Requests -> MemoryType]
<1>1. mem \in [Requests -> MemoryType]
  BY DEF Types
<1>2. Blank \in MemoryType
  BY DEF Blank, MemoryType, Unset, Ids0
<1>3. ASSUME NEW r \in Requests, NEW new \in MemoryType, mem' = [mem EXCEPT ![r] = new]
      PROVE  mem' \in [Requests -> MemoryType]
  BY <1>1, <1>3
<1>4. mem' = mem => mem' \in [Requests -> MemoryType]
  BY <1>1
<1>5. ASSUME NEW r \in Requests, NEW t \in Tables, DoesPost(r, t)
      PROVE  mem' \in [Requests -> MemoryType]
  <2>1. PICK i \in Ids : mem' = [mem EXCEPT ![r].ids[t] = i]
    BY <1>5 DEF DoesPost
  <2>2. mem[r] \in MemoryType /\ mem[r].ids \in [Tables -> Ids0] /\ i \in Ids0
    BY <1>1 DEF MemoryType, Ids0
  <2>3. [mem[r].ids EXCEPT ![t] = i] \in [Tables -> Ids0]
    BY <2>2, IdsStay
  <2>4. [mem[r] EXCEPT !.ids = [mem[r].ids EXCEPT ![t] = i]] \in MemoryType
    BY <2>2, <2>3 DEF MemoryType
  <2>5. mem' = [mem EXCEPT ![r] = [mem[r] EXCEPT !.ids = [mem[r].ids EXCEPT ![t] = i]]]
    BY <2>1
  <2>6. QED
    BY <1>3, <2>4, <2>5
<1>6. ASSUME NEW r \in Requests, DoesRunReplication(r)
      PROVE  mem' \in [Requests -> MemoryType]
  <2>1. mem[r] \in MemoryType
    BY <1>1
  <2>2. Rejection(CopyFrom(call[r]), Dest(call[r])) \in {"already-exists", "FAILED", "RUNNING"}
    BY DEF Rejection
  <2>3. [mem[r] EXCEPT !.job = Rejection(CopyFrom(call[r]), Dest(call[r]))] \in MemoryType
    BY <2>1, <2>2 DEF MemoryType
  <2>4. mem' = [mem EXCEPT ![r] =
                  [mem[r] EXCEPT !.job = Rejection(CopyFrom(call[r]), Dest(call[r]))]]
    BY <1>6 DEF DoesRunReplication
  <2>5. QED
    BY <1>3, <2>3, <2>4
<1>7. ASSUME NEW r \in Requests, DoesFindShare(r)
      PROVE  mem' \in [Requests -> MemoryType]
  <2>1. mem[r] \in MemoryType
    BY <1>1
  <2>2. CASE Dest(call[r]) \in DOMAIN ds
    <3>1. mem' = [mem EXCEPT ![r] = [mem[r] EXCEPT !.ids = ds[Dest(call[r])].ids]]
      BY <1>7, <2>2 DEF DoesFindShare
    <3>2. ds[Dest(call[r])].ids \in [Tables -> Ids0]
      BY <2>2 DEF Types, DatasetType
    <3>3. [mem[r] EXCEPT !.ids = ds[Dest(call[r])].ids] \in MemoryType
      BY <2>1, <3>2 DEF MemoryType
    <3>4. QED
      BY <1>3, <3>1, <3>3
  <2>3. CASE Dest(call[r]) \notin DOMAIN ds
    BY <1>4, <1>7, <2>3 DEF DoesFindShare
  <2>4. QED
    BY <2>2, <2>3
<1>8. ASSUME NEW r \in Requests, DoesReadDataset(r)
      PROVE  mem' \in [Requests -> MemoryType]
  <2>1. mem[r] \in MemoryType
    BY <1>1
  <2>2. CASE Dest(call[r]) \in DOMAIN ds
    <3>1. mem' = [mem EXCEPT ![r] = [mem[r] EXCEPT !.origin = ds[Dest(call[r])].origin,
                                                   !.listed = SnapsOf(Dest(call[r]))]]
      BY <1>8, <2>2 DEF DoesReadDataset
    <3>2. ds[Dest(call[r])].origin \in SnapNames \cup {NoOrigin}
      BY <2>2 DEF Types, DatasetType
    <3>3. SnapsOf(Dest(call[r])) \in SUBSET SnapNames
      BY DEF Types, SnapsOf
    <3>4. [mem[r] EXCEPT !.origin = ds[Dest(call[r])].origin,
                         !.listed = SnapsOf(Dest(call[r]))] \in MemoryType
      BY <2>1, <3>2, <3>3 DEF MemoryType
    <3>5. QED
      BY <1>3, <3>1, <3>4
  <2>3. CASE Dest(call[r]) \notin DOMAIN ds
    BY <1>4, <1>8, <2>3 DEF DoesReadDataset
  <2>4. QED
    BY <2>2, <2>3
<1>9. ASSUME NEW r \in Requests, Works(r)
      PROVE  \/ mem' = mem \/ DoesRunReplication(r) \/ DoesFindShare(r) \/ DoesReadDataset(r)
             \/ \E t \in Tables : DoesPost(r, t)
  BY <1>9, WorksLearn
<1>10. ASSUME NEW r \in Requests, JobCloses(r)
       PROVE  mem' \in [Requests -> MemoryType]
  <2>1. PICK state \in {"SUCCESS", "FAILED"} : JobIs(Dest(call[r]), state)
    BY <1>10 DEF JobCloses
  <2>2. \A q \in Requests : [mem[q] EXCEPT !.job = state] \in MemoryType
    BY <1>1 DEF MemoryType
  <2>3. IsFunction(mem') /\ DOMAIN mem' = Requests /\ \A q \in Requests : mem'[q] \in MemoryType
    BY <1>1, <2>1, <2>2 DEF JobIs
  <2>4. QED
    BY <2>3 DEF IsFunction
<1>11. ASSUME NEW r \in Requests, Start(r) \/ \E t \in Tables : Repeats(r, t)
       PROVE  mem' = mem
  BY <1>11, StartIs DEF Repeats, StaysPut
<1>12. ASSUME NEW r \in Requests, Reply(r) \/ Stalls(r) \/ HalfPosts(r)
       PROVE  mem' = [mem EXCEPT ![r] = Blank]
  BY <1>12, ReplyIs DEF HalfPosts, Stalls
<1>13. CASE UNCHANGED vars
  BY <1>4, <1>13 DEF vars
<1>14. CASE Restart
  BY <1>2, <1>14, RestartIs
<1>15. QED
  BY <1>2, <1>3, <1>4, <1>5, <1>6, <1>7, <1>8, <1>9, <1>10, <1>11, <1>12, <1>13, <1>14, StepsOfNext

\* Every step keeps the types.
LEMMA TypesStay ==
  ASSUME Types, Control, [Next]_vars
  PROVE  Types'
<1>1. IsFunction(ds') /\ IsFunction(snap') /\ IsTable(table')
  BY ShapesStay
<1>2. /\ DOMAIN promised' \subseteq Volumes /\ \A v \in DOMAIN promised' : promised'[v] \in Nat
      /\ DOMAIN captured' \subseteq SnapshotIds
  BY PromisesStayMade DEF Control
<1>3. overlooked' \subseteq NamedTables \X Volumes
  BY ForwardIs DEF Forward, Worsens, Types
<1>4. QED
  BY <1>1, <1>2, <1>3, PlacesStay, AnswersStay, DatasetTypesStay, SnapshotTypesStay,
     MemoryTypesStay DEF Types, NamedTables, IsFunction, IsTable

\* In the beginning.
LEMMA TypesBegin ==
  ASSUME Init
  PROVE  Types /\ Control
<1>1. SetupIs
  <2>1. PICK s \in Setups : /\ kind = s.kind /\ reuse = s.reuse /\ drops = s.drops
                            /\ faults = s.faults /\ call \in s.plans
    BY DEF Init
  <2>2. s.faults \in Nat
    BY SetupsAssumption DEF Setup
  <2>3. QED
    BY <2>1, <2>2 DEF SetupIs
<1>2. /\ pc = [r \in Requests |-> "idle"] /\ answer = [r \in Requests |-> "none"]
      /\ mem = [r \in Requests |-> Blank]
      /\ DOMAIN promised = {} /\ DOMAIN captured = {} /\ DOMAIN ds = {} /\ DOMAIN snap = {}
      /\ ds = [d \in DOMAIN ds |-> ds[d]] /\ snap = [k \in DOMAIN snap |-> snap[k]]
      /\ overlooked = {}
  BY DEF Init
<1>3. table = [t \in Tables |-> [i \in Ids |-> table[t][i]]]
  BY DEF Init, EmptyTables
<1>4. Blank \in MemoryType /\ "none" \in Codes
  BY DEF Blank, MemoryType, Unset, Ids0, Codes
<1>5. Types
  BY <1>1, <1>2, <1>3, <1>4 DEF Types, InItsPlace
<1>6. Control
  BY <1>2 DEF Control, UnwantedIsSettled, Exclusive, PromisesAreMade, SourceWasMade, Sent, Running
<1>7. QED
  BY <1>5, <1>6

------------------------------------------------------------
(* Where a request goes.                                  *)

\* Where each step of a handler leads.
LEMMA TargetsAre ==
  ASSUME Types, NEW r \in Requests
  PROVE  /\ DoesCheckSize(r) => pc'[r] \in {"create", "clone", "tmp"}
         /\ DoesCreate(r) => pc'[r] = "size"
         /\ DoesTakeTemporary(r) => pc'[r] \in {"run", "clone"}
         /\ DoesClone(r) => pc'[r] \in {"untmp", "size"}
         /\ DoesRunReplication(r) => pc'[r] = "poll"
         /\ DoesWaitForJob(r) => pc'[r] = "props"
         /\ DoesSetProperties(r) => pc'[r] = "strip"
         /\ DoesStripSnapshots(r) => pc'[r] = "untmp"
         /\ DoesDropTemporary(r) =>
              pc'[r] = IF Is(r, "CreateSnapshot") THEN "success" ELSE "size"
         /\ DoesSetSize(r) => pc'[r] = "look"
         /\ DoesResize(r) => pc'[r] = "reply"
         /\ DoesSetContext(r) => pc'[r] = "success"
         /\ DoesSetSuccess(r) => pc'[r] = "reply"
         /\ DoesLookUp(r) => pc'[r] \in {"name", "context", "nfs", "smb", "target", "subsys"}
         /\ DoesSetGroups(r) => pc'[r] = "keep-target"
         /\ DoesSetName(r) => pc'[r] = "context"
         /\ DoesFindShare(r) =>
              pc'[r] \in {"ask-nfs", "ask-smb", "ask-target", "delete-namespace", "origin"}
         /\ DoesReadDataset(r) => pc'[r] = "find"
         /\ DoesDeferOrigin(r) => pc'[r] = "managed"
         /\ DoesCheckManaged(r) => pc'[r] = "destroy"
         /\ DoesDestroyVolume(r) => pc'[r] = "reply"
         /\ DoesCheckName(r) => pc'[r] \in {"container", "take"}
         /\ DoesTakeSnapshot(r) => pc'[r] = "success"
         /\ DoesCreateContainer(r) => pc'[r] = "tmp"
         /\ DoesReleaseSnapshot(r) => pc'[r] = "reply"
         /\ DoesDestroyDetached(r) => pc'[r] = "uncontain"
         /\ DoesDestroyContainer(r) => pc'[r] = "reply"
         /\ \A t \in Tables :
              /\ DoesPost(r, t) => pc'[r] = AfterPost(t)
              /\ DoesKeepId(r, t) => pc'[r] = AfterKeep(t)
              /\ DoesAskFor(r, t) => pc'[r] \in {Remove(t), AfterInherit(t)}
              /\ DoesDeleteRow(r, t) => pc'[r] \in {Inherit(t), AfterInherit(t)}
              /\ DoesInheritId(r, t) => pc'[r] = AfterInherit(t)
<1>1. \A p : Moves(r, p) => pc'[r] = p
  BY DEF Moves, Types
<1>2. QED
  BY <1>1 DEF DoesCheckSize, DoesCreate, DoesTakeTemporary, DoesClone, DoesRunReplication,
     DoesWaitForJob, DoesSetProperties, DoesStripSnapshots, DoesDropTemporary, DoesSetSize,
     DoesResize, DoesSetContext, DoesSetSuccess, DoesLookUp, DoesFindShare, DoesSetGroups,
     DoesSetName, DoesReadDataset, DoesDeferOrigin, DoesCheckManaged, DoesDestroyVolume,
     DoesCheckName, DoesTakeSnapshot, DoesCreateContainer, DoesReleaseSnapshot,
     DoesDestroyDetached, DoesDestroyContainer, DoesPost, DoesKeepId, DoesAskFor, DoesDeleteRow,
     DoesInheritId

\* What follows the steps that concern a table, by name.
LEMMA AftersAre ==
  /\ AfterPost("nfs") = "keep-nfs" /\ AfterPost("smb") = "keep-smb"
  /\ AfterPost("target") = "groups" /\ AfterPost("extent") = "keep-extent"
  /\ AfterPost("lun") = "keep-lun" /\ AfterPost("subsys") = "keep-subsys"
  /\ AfterPost("namespace") = "keep-namespace" /\ AfterPost("port") = "name"
  /\ AfterKeep("nfs") = "context" /\ AfterKeep("smb") = "context"
  /\ AfterKeep("target") = "extent" /\ AfterKeep("extent") = "lun" /\ AfterKeep("lun") = "name"
  /\ AfterKeep("subsys") = "namespace" /\ AfterKeep("namespace") = "port"
  /\ AfterInherit("nfs") = "origin" /\ AfterInherit("smb") = "origin"
  /\ AfterInherit("target") = "ask-extent" /\ AfterInherit("extent") = "origin"
  /\ AfterInherit("namespace") = "delete-subsys" /\ AfterInherit("subsys") = "origin"
BY TableStepsAre DEF AfterPost, AfterKeep, AfterInherit

\* How a request gets from one place to the next.
LEMMA ArrivalIs ==
  ASSUME Types, [Next]_vars, NEW r \in Requests
  PROVE  \/ pc'[r] = pc[r]
         \/ Running(r) /\ pc'[r] = "pending"
         \/ Start(r) /\ pc[r] \in {"idle", "pending"} /\ pc'[r] = First(call[r])
         \/ Reply(r) /\ pc[r] = "reply" /\ pc'[r] = "done"
         \/ Works(r) /\ Running(r) /\ pc'[r] \in Places(call[r]) \cup {"reply"}
<1>1. DOMAIN pc = Requests /\ pc = [q \in Requests |-> pc[q]]
  BY DEF Types
<1>2. CASE UNCHANGED vars
  BY <1>2 DEF vars
<1>3. CASE Restart
  BY <1>3, RestartIs
<1>4. ASSUME NEW q \in Requests, Start(q)
      PROVE  \/ pc'[r] = pc[r]
             \/ q = r /\ pc[r] \in {"idle", "pending"} /\ pc'[r] = First(call[r])
  BY <1>1, <1>4, StartIs
<1>5. ASSUME NEW q \in Requests, Reply(q)
      PROVE  pc'[r] = pc[r] \/ (q = r /\ pc[r] = "reply" /\ pc'[r] = "done")
  BY <1>1, <1>5, ReplyIs
<1>6. ASSUME NEW q \in Requests, Stalls(q) \/ HalfPosts(q)
      PROVE  pc'[r] = pc[r] \/ (Running(r) /\ pc'[r] = "pending")
  BY <1>1, <1>6 DEF HalfPosts, Stalls
<1>7. ASSUME NEW q \in Requests, Works(q)
      PROVE  \/ pc'[r] = pc[r]
             \/ q = r /\ Running(r) /\ pc'[r] \in Places(call[r]) \cup {"reply"}
  <2>1. PICK p \in Places(call[q]) \cup {"reply"} : Moves(q, p)
    BY <1>7, WorksMoves
  <2>2. QED
    BY <1>1, <2>1 DEF Moves
<1>8. ASSUME NEW q \in Requests, JobCloses(q) \/ \E t \in Tables : Repeats(q, t)
      PROVE  pc'[r] = pc[r]
  BY <1>8 DEF JobCloses, Repeats, StaysPut
<1>9. QED
  BY <1>2, <1>3, <1>4, <1>5, <1>6, <1>7, <1>8, StepsOfNext

\* By which step a handler comes to a place, of a creation or a snapshot,
LEMMA CameBy ==
  ASSUME Types, [Next]_vars, NEW r \in Requests, pc'[r] # pc[r]
  PROVE  /\ pc'[r] = "check" => Start(r)
         /\ pc'[r] = "size" => DoesCreate(r) \/ DoesClone(r) \/ DoesDropTemporary(r)
         /\ pc'[r] = "look" => DoesSetSize(r)
         /\ pc'[r] \in {"nfs", "smb", "target", "subsys"} => DoesLookUp(r)
         /\ pc'[r] = "keep-nfs" => DoesPost(r, "nfs")
         /\ pc'[r] = "keep-smb" => DoesPost(r, "smb")
         /\ pc'[r] = "groups" => DoesPost(r, "target")
         /\ pc'[r] = "keep-target" => DoesSetGroups(r)
         /\ pc'[r] = "extent" => DoesKeepId(r, "target")
         /\ pc'[r] = "keep-extent" => DoesPost(r, "extent")
         /\ pc'[r] = "lun" => DoesKeepId(r, "extent")
         /\ pc'[r] = "keep-lun" => DoesPost(r, "lun")
         /\ pc'[r] = "keep-subsys" => DoesPost(r, "subsys")
         /\ pc'[r] = "namespace" => DoesKeepId(r, "subsys")
         /\ pc'[r] = "keep-namespace" => DoesPost(r, "namespace")
         /\ pc'[r] = "port" => DoesKeepId(r, "namespace")
         /\ pc'[r] = "name" => DoesKeepId(r, "lun") \/ DoesPost(r, "port") \/ DoesLookUp(r)
         /\ pc'[r] = "context" =>
              DoesSetName(r) \/ DoesLookUp(r) \/ DoesKeepId(r, "nfs") \/ DoesKeepId(r, "smb")
         /\ pc'[r] = "success" =>
              DoesSetContext(r) \/ DoesTakeSnapshot(r)
                \/ (DoesDropTemporary(r) /\ Is(r, "CreateSnapshot"))
         /\ pc'[r] = "reply" =>
              \/ DoesSetSuccess(r) \/ DoesResize(r) \/ DoesDestroyVolume(r)
              \/ DoesReleaseSnapshot(r) \/ DoesDestroyContainer(r)
<1>1. ASSUME pc'[r] \notin {"pending", "done", "idle"}
      PROVE  \/ Start(r) /\ pc'[r] = First(call[r])
             \/ Works(r)
  BY <1>1, ArrivalIs
<1>2. First(call[r]) \in {"check", "read", "resize", "destroy", "release"}
  BY DEF First
<1>3. ASSUME Works(r), NEW t \in Tables,
             DoesAskFor(r, t) \/ DoesDeleteRow(r, t) \/ DoesInheritId(r, t)
      PROVE  pc'[r] \in {"delete-nfs", "delete-smb", "delete-target", "delete-extent",
                         "delete-namespace", "delete-subsys", "inherit-nfs", "inherit-smb",
                         "inherit-target", "inherit-extent", "inherit-namespace",
                         "inherit-subsys", "ask-extent", "origin"}
  <2>1. t \in {"nfs", "smb", "target", "extent", "namespace", "subsys"}
    BY <1>3 DEF Tables, DoesAskFor, DoesDeleteRow, DoesInheritId
  <2>2. pc'[r] \in {Remove(t), Inherit(t), AfterInherit(t)}
    BY <1>3, TargetsAre
  <2>3. QED
    BY <2>1, <2>2, AftersAre, TableStepsAre
<1>4. ASSUME NEW t \in Tables, DoesKeepId(r, t)
      PROVE  \/ t \in {"nfs", "smb"} /\ pc'[r] = "context"
             \/ t = "target" /\ pc'[r] = "extent"
             \/ t = "extent" /\ pc'[r] = "lun"
             \/ t = "lun" /\ pc'[r] = "name"
             \/ t = "subsys" /\ pc'[r] = "namespace"
             \/ t = "namespace" /\ pc'[r] = "port"
  <2>1. t # "port" /\ pc'[r] = AfterKeep(t)
    BY <1>4, TargetsAre DEF DoesKeepId
  <2>2. QED
    BY <2>1, AftersAre DEF Tables
<1>5. ASSUME NEW t \in Tables, DoesPost(r, t)
      PROVE  \/ t = "nfs" /\ pc'[r] = "keep-nfs"
             \/ t = "smb" /\ pc'[r] = "keep-smb"
             \/ t = "target" /\ pc'[r] = "groups"
             \/ t = "extent" /\ pc'[r] = "keep-extent"
             \/ t = "lun" /\ pc'[r] = "keep-lun"
             \/ t = "subsys" /\ pc'[r] = "keep-subsys"
             \/ t = "namespace" /\ pc'[r] = "keep-namespace"
             \/ t = "port" /\ pc'[r] = "name"
  BY <1>5, TargetsAre, AftersAre DEF Tables
<1>6. QED
  BY <1>1, <1>2, <1>3, <1>4, <1>5, TargetsAre DEF Works

\* and of a deletion.
LEMMA WentBy ==
  ASSUME Types, [Next]_vars, NEW r \in Requests, pc'[r] # pc[r]
  PROVE  /\ pc'[r] = "read" => Start(r)
         /\ pc'[r] = "find" => DoesReadDataset(r)
         /\ pc'[r] \in {"ask-nfs", "ask-smb", "ask-target", "delete-namespace"} => DoesFindShare(r)
         /\ pc'[r] = "delete-nfs" => DoesAskFor(r, "nfs")
         /\ pc'[r] = "delete-smb" => DoesAskFor(r, "smb")
         /\ pc'[r] = "delete-target" => DoesAskFor(r, "target")
         /\ pc'[r] = "delete-extent" => DoesAskFor(r, "extent")
         /\ pc'[r] = "inherit-nfs" => DoesDeleteRow(r, "nfs")
         /\ pc'[r] = "inherit-smb" => DoesDeleteRow(r, "smb")
         /\ pc'[r] = "inherit-target" => DoesDeleteRow(r, "target")
         /\ pc'[r] = "inherit-extent" => DoesDeleteRow(r, "extent")
         /\ pc'[r] = "inherit-namespace" => DoesDeleteRow(r, "namespace")
         /\ pc'[r] = "inherit-subsys" => DoesDeleteRow(r, "subsys")
         /\ pc'[r] = "ask-extent" =>
              DoesAskFor(r, "target") \/ DoesDeleteRow(r, "target") \/ DoesInheritId(r, "target")
         /\ pc'[r] = "delete-subsys" =>
              DoesDeleteRow(r, "namespace") \/ DoesInheritId(r, "namespace")
         /\ pc'[r] = "origin" =>
              \/ DoesFindShare(r)
              \/ \E t \in {"nfs", "smb", "extent", "subsys"} :
                   DoesAskFor(r, t) \/ DoesDeleteRow(r, t) \/ DoesInheritId(r, t)
         /\ pc'[r] = "managed" => DoesDeferOrigin(r)
         /\ pc'[r] = "destroy" => DoesCheckManaged(r) \/ (Start(r) /\ Is(r, "DeleteSnapshot"))
         /\ pc'[r] = "uncontain" => DoesDestroyDetached(r)
<1>1. ASSUME pc'[r] \notin {"pending", "done", "idle"}
      PROVE  \/ Start(r) /\ pc'[r] = First(call[r])
             \/ Works(r)
  BY <1>1, ArrivalIs
<1>2. /\ First(call[r]) \in {"check", "read", "resize", "destroy", "release"}
      /\ First(call[r]) = "destroy" => Is(r, "DeleteSnapshot")
  BY SetupsAre, CallsAre DEF First, Types, Methods, Is
<1>3. ASSUME NEW t \in Tables, DoesAskFor(r, t)
      PROVE  \/ t = "nfs" /\ pc'[r] \in {"delete-nfs", "origin"}
             \/ t = "smb" /\ pc'[r] \in {"delete-smb", "origin"}
             \/ t = "target" /\ pc'[r] \in {"delete-target", "ask-extent"}
             \/ t = "extent" /\ pc'[r] \in {"delete-extent", "origin"}
  <2>1. t \in {"nfs", "smb", "target", "extent"} /\ pc'[r] \in {Remove(t), AfterInherit(t)}
    BY <1>3, TargetsAre DEF Tables, DoesAskFor
  <2>2. QED
    BY <2>1, AftersAre, TableStepsAre
<1>4. ASSUME NEW t \in Tables, DoesDeleteRow(r, t)
      PROVE  \/ t = "nfs" /\ pc'[r] \in {"inherit-nfs", "origin"}
             \/ t = "smb" /\ pc'[r] \in {"inherit-smb", "origin"}
             \/ t = "target" /\ pc'[r] \in {"inherit-target", "ask-extent"}
             \/ t = "extent" /\ pc'[r] \in {"inherit-extent", "origin"}
             \/ t = "namespace" /\ pc'[r] \in {"inherit-namespace", "delete-subsys"}
             \/ t = "subsys" /\ pc'[r] \in {"inherit-subsys", "origin"}
  <2>1. /\ t \in {"nfs", "smb", "target", "extent", "namespace", "subsys"}
        /\ pc'[r] \in {Inherit(t), AfterInherit(t)}
    BY <1>4, TargetsAre DEF Tables, DoesDeleteRow
  <2>2. QED
    BY <2>1, AftersAre, TableStepsAre
<1>5. ASSUME NEW t \in Tables, DoesInheritId(r, t)
      PROVE  \/ t \in {"nfs", "smb", "extent", "subsys"} /\ pc'[r] = "origin"
             \/ t = "target" /\ pc'[r] = "ask-extent"
             \/ t = "namespace" /\ pc'[r] = "delete-subsys"
  <2>1. /\ t \in {"nfs", "smb", "target", "extent", "namespace", "subsys"}
        /\ pc'[r] = AfterInherit(t)
    BY <1>5, TargetsAre DEF Tables, DoesInheritId
  <2>2. QED
    BY <2>1, AftersAre
<1>6. ASSUME NEW t \in Tables, DoesPost(r, t) \/ DoesKeepId(r, t)
      PROVE  pc'[r] \in {"keep-nfs", "keep-smb", "groups", "keep-extent", "keep-lun",
                         "keep-subsys", "keep-namespace", "name", "context", "extent", "lun",
                         "namespace", "port"}
  <2>1. CASE DoesPost(r, t)
    BY <2>1, TargetsAre, AftersAre DEF Tables
  <2>2. CASE DoesKeepId(r, t)
    <3>1. t # "port" /\ pc'[r] = AfterKeep(t)
      BY <2>2, TargetsAre DEF DoesKeepId
    <3>2. QED
      BY <3>1, AftersAre DEF Tables
  <2>3. QED
    BY <1>6, <2>1, <2>2
<1>7. QED
  BY <1>1, <1>2, <1>3, <1>4, <1>5, <1>6, TargetsAre DEF Works

\* The work that is done at a place.
LEMMA WorkIs ==
  ASSUME Types, NEW r \in Requests, Works(r)
  PROVE  /\ pc[r] = "check" => DoesCheckSize(r) \/ DoesCheckName(r)
         /\ pc[r] = "create" => DoesCreate(r)
         /\ pc[r] = "tmp" => DoesTakeTemporary(r)
         /\ pc[r] = "clone" => DoesClone(r)
         /\ pc[r] = "run" => DoesRunReplication(r)
         /\ pc[r] = "poll" => DoesWaitForJob(r)
         /\ pc[r] = "props" => DoesSetProperties(r)
         /\ pc[r] = "strip" => DoesStripSnapshots(r)
         /\ pc[r] = "untmp" => DoesDropTemporary(r)
         /\ pc[r] = "size" => DoesSetSize(r)
         /\ pc[r] = "look" => DoesLookUp(r)
         /\ pc[r] = "context" => DoesSetContext(r)
         /\ pc[r] = "success" => DoesSetSuccess(r)
         /\ pc[r] = "find" => DoesFindShare(r)
         /\ pc[r] = "read" => DoesReadDataset(r)
         /\ pc[r] = "origin" => DoesDeferOrigin(r)
         /\ pc[r] = "managed" => DoesCheckManaged(r)
         /\ pc[r] = "destroy" => DoesDestroyVolume(r) \/ DoesDestroyDetached(r)
         /\ pc[r] = "take" => DoesTakeSnapshot(r)
         /\ pc[r] = "container" => DoesCreateContainer(r)
         /\ pc[r] = "release" => DoesReleaseSnapshot(r)
         /\ pc[r] = "uncontain" => DoesDestroyContainer(r)
         /\ pc[r] = "resize" => DoesResize(r)
         /\ pc[r] = "groups" => DoesSetGroups(r)
         /\ pc[r] = "name" => DoesSetName(r)
         /\ \A t \in Tables :
              /\ pc[r] = t => DoesPost(r, t)
              /\ pc[r] = Keep(t) => DoesKeepId(r, t)
              /\ pc[r] = Ask(t) => DoesAskFor(r, t)
              /\ pc[r] = Remove(t) => DoesDeleteRow(r, t)
              /\ pc[r] = Inherit(t) => DoesInheritId(r, t)
<1>1. /\ DoesCheckSize(r) \/ DoesCheckName(r) => pc[r] = "check"
      /\ DoesCreate(r) => pc[r] = "create"
      /\ DoesTakeTemporary(r) => pc[r] = "tmp"
      /\ DoesClone(r) => pc[r] = "clone"
      /\ DoesRunReplication(r) => pc[r] = "run"
      /\ DoesWaitForJob(r) => pc[r] = "poll"
      /\ DoesSetProperties(r) => pc[r] = "props"
      /\ DoesStripSnapshots(r) => pc[r] = "strip"
      /\ DoesDropTemporary(r) => pc[r] = "untmp"
      /\ DoesSetSize(r) => pc[r] = "size"
      /\ DoesResize(r) => pc[r] = "resize"
      /\ DoesSetContext(r) => pc[r] = "context"
      /\ DoesSetSuccess(r) => pc[r] = "success"
      /\ DoesLookUp(r) => pc[r] = "look"
      /\ DoesSetGroups(r) => pc[r] = "groups"
      /\ DoesSetName(r) => pc[r] = "name"
      /\ DoesFindShare(r) => pc[r] = "find"
      /\ DoesReadDataset(r) => pc[r] = "read"
      /\ DoesDeferOrigin(r) => pc[r] = "origin"
      /\ DoesCheckManaged(r) => pc[r] = "managed"
      /\ DoesDestroyVolume(r) \/ DoesDestroyDetached(r) => pc[r] = "destroy"
      /\ DoesTakeSnapshot(r) => pc[r] = "take"
      /\ DoesCreateContainer(r) => pc[r] = "container"
      /\ DoesReleaseSnapshot(r) => pc[r] = "release"
      /\ DoesDestroyContainer(r) => pc[r] = "uncontain"
  BY DEF DoesCheckSize, DoesCheckName, DoesCreate, DoesTakeTemporary, DoesClone,
     DoesRunReplication, DoesWaitForJob, DoesSetProperties, DoesStripSnapshots,
     DoesDropTemporary, DoesSetSize, DoesResize, DoesSetContext, DoesSetSuccess, DoesLookUp,
     DoesSetGroups, DoesSetName, DoesFindShare, DoesReadDataset, DoesDeferOrigin,
     DoesCheckManaged, DoesDestroyVolume, DoesDestroyDetached, DoesTakeSnapshot,
     DoesCreateContainer, DoesReleaseSnapshot, DoesDestroyContainer
<1>2. \A t \in Tables : /\ DoesPost(r, t) => pc[r] = t
                        /\ DoesKeepId(r, t) => pc[r] = Keep(t)
                        /\ DoesAskFor(r, t) => pc[r] = Ask(t)
                        /\ DoesDeleteRow(r, t) => pc[r] = Remove(t)
                        /\ DoesInheritId(r, t) => pc[r] = Inherit(t)
  BY DEF DoesPost, DoesKeepId, DoesAskFor, DoesDeleteRow, DoesInheritId
<1> DEFINE tabular == UNION {{t, Keep(t), Ask(t), Remove(t), Inherit(t)} : t \in Tables}
           single == {"check", "create", "tmp", "clone", "run", "poll", "props", "strip",
                      "untmp", "size", "resize", "context", "success", "look", "groups", "name",
                      "find", "read", "origin", "managed", "destroy", "take", "container",
                      "release", "uncontain"}
<1>3. \A t \in Tables : \A s \in {t, Keep(t), Ask(t), Remove(t), Inherit(t)} : s \notin single
  BY TableStepsAre DEF Tables
<1>4. \A t, u \in Tables :
        /\ Keep(t) # u /\ Ask(t) # u /\ Remove(t) # u /\ Inherit(t) # u
        /\ Keep(t) # Ask(u) /\ Keep(t) # Remove(u) /\ Keep(t) # Inherit(u)
        /\ Ask(t) # Remove(u) /\ Ask(t) # Inherit(u) /\ Remove(t) # Inherit(u)
        /\ (Keep(t) = Keep(u) \/ Ask(t) = Ask(u) \/ Remove(t) = Remove(u)
              \/ Inherit(t) = Inherit(u)) => t = u
  BY TableStepsAre DEF Tables
<1>5. CASE pc[r] \in single
  <2>1. ~ \E t \in Tables : \/ DoesPost(r, t) \/ DoesKeepId(r, t) \/ DoesAskFor(r, t)
                            \/ DoesDeleteRow(r, t) \/ DoesInheritId(r, t)
    BY <1>2, <1>3, <1>5
  <2>2. \A t \in Tables : pc[r] \notin {t, Keep(t), Ask(t), Remove(t), Inherit(t)}
    BY <1>3, <1>5
  <2>3. QED
    BY <1>1, <2>1, <2>2 DEF Works
<1>6. CASE pc[r] \notin single
  <2>1. PICK t \in Tables : \/ DoesPost(r, t) \/ DoesKeepId(r, t) \/ DoesAskFor(r, t)
                            \/ DoesDeleteRow(r, t) \/ DoesInheritId(r, t)
    BY <1>1, <1>6 DEF Works
  <2>2. QED
    BY <1>2, <1>4, <1>6, <2>1
<1>7. QED
  BY <1>5, <1>6

------------------------------------------------------------
(* What becomes of the dataset of a volume, and by whose step. *)

\* The calls whose dataset is a volume's.
LEMMA ForVolumes ==
  ASSUME SetupIs, NEW r \in Requests
  PROVE  /\ VolumeId(call[r]) \in Volumes
         /\ Is(r, "CreateVolume") => Creates(r, VolumeId(call[r]))
         /\ \A v : /\ Creates(r, v) \/ Deletes(r, v) \/ Expands(r, v) => Dest(call[r]) = Vol(v)
                   /\ Dest(call[r]) = Vol(v) =>
                        Creates(r, v) \/ Deletes(r, v) \/ Expands(r, v)
                   /\ Creates(r, v) => Is(r, "CreateVolume") /\ VolumeId(call[r]) = v
                   /\ Deletes(r, v) => Is(r, "DeleteVolume") /\ VolumeId(call[r]) = v
                   /\ Expands(r, v) => Is(r, "ControllerExpandVolume") /\ VolumeId(call[r]) = v
<1>1. call \in Plans
  BY SetupsAre
<1>2. /\ VolumeId(call[r]) \in Volumes /\ call[r].method \in Methods
      /\ call[r].method \in {"CreateVolume", "DeleteVolume", "ControllerExpandVolume"}
           => Dest(call[r]) = Vol(VolumeId(call[r]))
      /\ Is(r, "CreateSnapshot") => Dest(call[r]) = Det(call[r].volume, call[r].name)
      /\ Is(r, "DeleteSnapshot") => Dest(call[r]) = Det(call[r].source[2], call[r].source[3])
  BY <1>1, CallsAre, DestIs
<1>3. \A v : Dest(call[r]) = Vol(v) =>
        /\ call[r].method \in {"CreateVolume", "DeleteVolume", "ControllerExpandVolume"}
        /\ VolumeId(call[r]) = v
  BY <1>2, NamesDiffer DEF Is, Methods
<1>4. QED
  BY <1>2, <1>3 DEF Creates, Deletes, Expands, Is, VolumeId

\* Of two creations of a volume one runs.
LEMMA Rivals ==
  ASSUME Types, Control, NEW q \in Requests, NEW r \in Requests, NEW v \in Volumes,
         Creates(q, v), Creates(r, v), Running(q), Running(r)
  PROVE  q = r
<1> SUFFICES ASSUME q # r PROVE FALSE
  OBVIOUS
<1>1. call[q].name = call[r].name
  BY SetupsAre, CallsAreWellFormed DEF Types
<1>2. Keys(call[q]) = {<<"create_volume_name", call[q].name>>}
      /\ Keys(call[r]) = {<<"create_volume_name", call[r].name>>}
  BY DEF Keys, Creates, Is
<1>3. Keys(call[q]) \cap Keys(call[r]) = {}
  BY DEF Control, Exclusive
<1>4. QED
  BY <1>1, <1>2, <1>3

\* Nobody deletes or expands a volume that is being created.
LEMMA CreationIsAlone ==
  ASSUME Types, Control, NEW r \in Requests, NEW v \in Volumes, Creates(r, v), Running(r)
  PROVE  /\ \A q \in Requests : (Deletes(q, v) => ~ Sent(q)) /\ (Expands(q, v) => ~ Sent(q))
         /\ ~ VolumeUnwanted(v)
<1>1. Unfinished(r) /\ pc[r] # "done"
  BY DEF Unfinished, Running
<1>2. QED
  BY <1>1 DEF Control, UnwantedIsSettled, VolumeUnwanted

\* A volume's dataset that is new.
LEMMA NewVolume ==
  ASSUME Types, Control, [Next]_vars, NEW v \in Volumes,
         Vol(v) \in DOMAIN ds', Vol(v) \notin DOMAIN ds
  PROVE  \E q \in Requests :
           /\ Creates(q, v) /\ Running(q) /\ ~ VolumeUnwanted(v) /\ ds'[Vol(v)].ids = Unset
           /\ \/ DoesCreate(q) /\ ds'[Vol(v)].whole /\ ds'[Vol(v)].origin = NoOrigin
              \/ DoesClone(q) /\ ds'[Vol(v)].whole /\ ds'[Vol(v)].origin = CopyFrom(call[q])
              \/ DoesRunReplication(q) /\ ~ ds'[Vol(v)].whole /\ ds'[Vol(v)].origin = NoOrigin
<1> DEFINE d == Vol(v)
<1>1. SetupIs /\ \A u : Con(u) # d
  BY NamesDiffer DEF Types
<1>2. PICK q \in Requests :
           /\ d = Dest(call[q])
           /\ \/ /\ DoesCreate(q)
                 /\ ds'[d] = Dataset(NoOrigin, IF Zvols THEN call[q].size ELSE 0, {"managed"}, TRUE)
              \/ /\ DoesClone(q)
                 /\ ds'[d] = Dataset(CopyFrom(call[q]), snap[CopyFrom(call[q])].size,
                                     {"managed"}, TRUE)
              \/ /\ DoesRunReplication(q)
                 /\ ds'[d] = Dataset(NoOrigin, snap[CopyFrom(call[q])].size, {}, FALSE)
  BY <1>1, NewDatasets
<1>3. Creates(q, v)
  <2>1. Creates(q, v) \/ Deletes(q, v) \/ Expands(q, v)
    BY <1>1, <1>2, ForVolumes
  <2>2. Is(q, "CreateVolume") \/ Is(q, "CreateSnapshot")
    BY <1>2 DEF DoesCreate, DoesClone, DoesRunReplication, Replicates, Is
  <2>3. QED
    BY <2>1, <2>2 DEF Deletes, Expands, Is
<1>4. Running(q)
  BY <1>2 DEF DoesCreate, DoesClone, DoesRunReplication, Moves
<1>5. ~ VolumeUnwanted(v)
  BY <1>3, <1>4, CreationIsAlone
<1>6. ds'[d].ids = Unset
  BY <1>2 DEF Dataset
<1>7. \/ DoesCreate(q) /\ ds'[d].whole /\ ds'[d].origin = NoOrigin
      \/ DoesClone(q) /\ ds'[d].whole /\ ds'[d].origin = CopyFrom(call[q])
      \/ DoesRunReplication(q) /\ ~ ds'[d].whole /\ ds'[d].origin = NoOrigin
  BY <1>2 DEF Dataset
<1>8. QED
  BY <1>3, <1>4, <1>5, <1>6, <1>7

\* One that is gone.
LEMMA LostVolume ==
  ASSUME Types, [Next]_vars, NEW v \in Volumes, Vol(v) \in DOMAIN ds, Vol(v) \notin DOMAIN ds'
  PROVE  \/ /\ VolumeUnwanted(v)
            /\ \E q \in Requests : Deletes(q, v) /\ Running(q) /\ DoesDestroyVolume(q)
         \/ ~ ds[Vol(v)].whole
<1>1. SetupIs /\ \A u : Con(u) # Vol(v)
  BY NamesDiffer DEF Types
<1>2. SUFFICES ASSUME ds[Vol(v)].whole
               PROVE  \E q \in Requests : Deletes(q, v) /\ Running(q) /\ DoesDestroyVolume(q)
  BY DEF VolumeUnwanted, Running, Sent
<1>3. PICK q \in Requests : /\ DoesDestroyVolume(q) \/ DoesDestroyDetached(q)
                            /\ Vol(v) = Dest(call[q])
  BY <1>1, <1>2, LostDatasets
<1>4. Creates(q, v) \/ Deletes(q, v) \/ Expands(q, v)
  BY <1>1, <1>3, ForVolumes
<1>5. /\ DoesDestroyVolume(q) => Is(q, "DeleteVolume") /\ Running(q)
      /\ DoesDestroyDetached(q) => Is(q, "DeleteSnapshot")
  BY DEF DoesDestroyVolume, DoesDestroyDetached, Moves
<1>6. QED
  BY <1>3, <1>4, <1>5 DEF Creates, Deletes, Expands, Is

\* One that stays.
LEMMA KeptVolume ==
  ASSUME Types, [Next]_vars, NEW v \in Volumes, Vol(v) \in DOMAIN ds, Vol(v) \in DOMAIN ds'
  PROVE  LET d == Vol(v) IN
         /\ ds[d].has \subseteq ds'[d].has /\ (ds[d].whole => ds'[d].whole)
         /\ ds'[d].origin = ds[d].origin
         /\ \/ ds'[d].size = ds[d].size
            \/ \E q \in Requests :
                 /\ Zvols /\ Running(q) /\ ds'[d].size = call[q].size
                 /\ \/ DoesSetSize(q) /\ Creates(q, v)
                    \/ DoesResize(q) /\ Expands(q, v)
         /\ \/ ds'[d].ids = ds[d].ids
            \/ \E q \in Requests : \E t \in Tables :
                 /\ Running(q)
                 /\ \/ /\ DoesKeepId(q, t) /\ Creates(q, v)
                       /\ ds'[d].ids = [ds[d].ids EXCEPT ![t] = mem[q].ids[t]]
                    \/ /\ DoesInheritId(q, t) /\ Deletes(q, v)
                       /\ ds'[d].ids = [ds[d].ids EXCEPT ![t] = 0]
<1> DEFINE d == Vol(v)
<1>1. SetupIs /\ ds[d] \in DatasetType
  BY DEF Types
<1>2. CASE ds'[d] = ds[d]
  BY <1>2
<1>3. ASSUME NEW q \in Requests, d = Dest(call[q]),
             \/ /\ DoesSetProperties(q)
                /\ ds'[d] = [ds[d] EXCEPT !.has = ds[d].has \cup {"managed"}]
             \/ /\ DoesSetContext(q)
                /\ ds'[d] = [ds[d] EXCEPT !.has = ds[d].has \cup {"context"}]
             \/ /\ DoesSetSuccess(q)
                /\ ds'[d] = [ds[d] EXCEPT !.has = ds[d].has \cup {"success"}]
             \/ /\ DoesSetName(q)
                /\ ds'[d] = [ds[d] EXCEPT !.has = ds[d].has \cup {"name"}]
             \/ /\ JobCloses(q) /\ ~ ds[d].whole
                /\ ds'[d] = [ds[d] EXCEPT !.whole = TRUE]
      PROVE  /\ ds[d].has \subseteq ds'[d].has /\ (ds[d].whole => ds'[d].whole)
             /\ ds'[d].origin = ds[d].origin /\ ds'[d].size = ds[d].size /\ ds'[d].ids = ds[d].ids
  BY <1>1, <1>3 DEF DatasetType
<1>4. ASSUME NEW q \in Requests, d = Dest(call[q]), DoesSetSize(q) \/ DoesResize(q), Zvols,
             ds'[d] = [ds[d] EXCEPT !.size = call[q].size]
      PROVE  /\ ds'[d].has = ds[d].has /\ ds'[d].whole = ds[d].whole
             /\ ds'[d].origin = ds[d].origin /\ ds'[d].ids = ds[d].ids
             /\ Running(q) /\ ds'[d].size = call[q].size
             /\ (DoesSetSize(q) /\ Creates(q, v)) \/ (DoesResize(q) /\ Expands(q, v))
  <2>1. /\ DoesSetSize(q) => Is(q, "CreateVolume") /\ Running(q)
        /\ DoesResize(q) => Is(q, "ControllerExpandVolume") /\ Running(q)
    BY DEF DoesSetSize, DoesResize, Moves
  <2>2. Creates(q, v) \/ Deletes(q, v) \/ Expands(q, v)
    BY <1>1, <1>4, ForVolumes
  <2>3. Running(q) /\ ((DoesSetSize(q) /\ Creates(q, v)) \/ (DoesResize(q) /\ Expands(q, v)))
    BY <1>4, <2>1, <2>2 DEF Creates, Deletes, Expands, Is
  <2>4. QED
    BY <1>1, <1>4, <2>3 DEF DatasetType
<1>5. ASSUME NEW q \in Requests, NEW t \in Tables, d = Dest(call[q]),
             \/ DoesKeepId(q, t) /\ ds'[d] = [ds[d] EXCEPT !.ids[t] = mem[q].ids[t]]
             \/ DoesInheritId(q, t) /\ ds'[d] = [ds[d] EXCEPT !.ids[t] = 0]
      PROVE  /\ ds'[d].has = ds[d].has /\ ds'[d].whole = ds[d].whole
             /\ ds'[d].origin = ds[d].origin /\ ds'[d].size = ds[d].size
             /\ Running(q)
             /\ \/ /\ DoesKeepId(q, t) /\ Creates(q, v)
                   /\ ds'[d].ids = [ds[d].ids EXCEPT ![t] = mem[q].ids[t]]
                \/ /\ DoesInheritId(q, t) /\ Deletes(q, v)
                   /\ ds'[d].ids = [ds[d].ids EXCEPT ![t] = 0]
  <2>1. /\ DoesKeepId(q, t) => Is(q, "CreateVolume") /\ Running(q)
        /\ DoesInheritId(q, t) => Is(q, "DeleteVolume") /\ Running(q)
    BY DEF DoesKeepId, DoesInheritId, Moves
  <2>2. Creates(q, v) \/ Deletes(q, v) \/ Expands(q, v)
    BY <1>1, <1>5, ForVolumes
  <2>3. /\ DoesKeepId(q, t) => Creates(q, v) /\ Running(q)
        /\ DoesInheritId(q, t) => Deletes(q, v) /\ Running(q)
    BY <2>1, <2>2 DEF Creates, Deletes, Expands, Is
  <2>4. QED
    BY <1>1, <1>5, <2>3 DEF DatasetType
<1>6. \/ ds'[d] = ds[d]
      \/ \E q \in Requests :
           /\ d = Dest(call[q])
           /\ \/ \/ /\ DoesSetProperties(q)
                    /\ ds'[d] = [ds[d] EXCEPT !.has = ds[d].has \cup {"managed"}]
                 \/ /\ DoesSetContext(q)
                    /\ ds'[d] = [ds[d] EXCEPT !.has = ds[d].has \cup {"context"}]
                 \/ /\ DoesSetSuccess(q)
                    /\ ds'[d] = [ds[d] EXCEPT !.has = ds[d].has \cup {"success"}]
                 \/ /\ DoesSetName(q)
                    /\ ds'[d] = [ds[d] EXCEPT !.has = ds[d].has \cup {"name"}]
                 \/ /\ JobCloses(q) /\ ~ ds[d].whole
                    /\ ds'[d] = [ds[d] EXCEPT !.whole = TRUE]
              \/ /\ (DoesSetSize(q) \/ DoesResize(q)) /\ Zvols
                 /\ ds'[d] = [ds[d] EXCEPT !.size = call[q].size]
              \/ \E t \in Tables :
                   \/ DoesKeepId(q, t) /\ ds'[d] = [ds[d] EXCEPT !.ids[t] = mem[q].ids[t]]
                   \/ DoesInheritId(q, t) /\ ds'[d] = [ds[d] EXCEPT !.ids[t] = 0]
  <2>1. CASE ds'[d] # ds[d]
    <3>1. PICK q \in Requests :
            /\ d = Dest(call[q]) /\ Dest(call[q]) \in DOMAIN ds
            /\ \/ /\ DoesSetProperties(q)
                  /\ ds'[d] = [ds[d] EXCEPT !.has = ds[d].has \cup {"managed"}]
               \/ /\ DoesSetContext(q)
                  /\ ds'[d] = [ds[d] EXCEPT !.has = ds[d].has \cup {"context"}]
               \/ /\ DoesSetSuccess(q)
                  /\ ds'[d] = [ds[d] EXCEPT !.has = ds[d].has \cup {"success"}]
               \/ /\ DoesSetName(q)
                  /\ ds'[d] = [ds[d] EXCEPT !.has = ds[d].has \cup {"name"}]
               \/ /\ (DoesSetSize(q) \/ DoesResize(q)) /\ Zvols
                  /\ ds'[d] = [ds[d] EXCEPT !.size = call[q].size]
               \/ \E t \in Tables : /\ DoesKeepId(q, t)
                                    /\ ds'[d] = [ds[d] EXCEPT !.ids[t] = mem[q].ids[t]]
               \/ \E t \in Tables : /\ DoesInheritId(q, t)
                                    /\ ds'[d] = [ds[d] EXCEPT !.ids[t] = 0]
               \/ /\ JobCloses(q) /\ ~ ds[d].whole
                  /\ ds'[d] = [ds[d] EXCEPT !.whole = TRUE]
      BY <2>1, KeptDatasets
    <3>2. QED
      BY <3>1
  <2>2. QED
    BY <2>1
<1>7. QED
  BY <1>2, <1>3, <1>4, <1>5, <1>6

\* Where the size that is promised comes from.
LEMMA PromiseIs ==
  ASSUME Types, [Next]_vars, NEW v \in DOMAIN promised'
  PROVE  \/ v \in DOMAIN promised /\ promised'[v] = promised[v]
         \/ \E q \in Requests : /\ Creates(q, v) \/ Expands(q, v)
                                /\ Reply(q) /\ Running(q) /\ pc[q] = "reply" /\ ds' = ds
                                /\ promised'[v] = call[q].size
<1>1. CASE promised' = promised
  BY <1>1
<1>2. ASSUME NEW q \in Requests, Reply(q)
      PROVE  \/ v \in DOMAIN promised /\ promised'[v] = promised[v]
             \/ (Creates(q, v) \/ Expands(q, v)) /\ promised'[v] = call[q].size
  <2>1. promised' = Promised(call[q])
    BY <1>2, ReplyIs
  <2>2. QED
    BY <2>1 DEF Promised, Larger, Creates, Expands, Is, VolumeId
<1>3. \A q \in Requests : Reply(q) => Running(q) /\ pc[q] = "reply" /\ ds' = ds
  BY ReplyIs
<1>4. promised' = promised \/ \E q \in Requests : Reply(q)
  BY OnwardIs, StartIs DEF Onward
<1>5. QED
  BY <1>1, <1>2, <1>3, <1>4

------------------------------------------------------------
(* Volumes are sound.                                     *)

\* What is whole stays so.
LEMMA WholeStays ==
  ASSUME Types, [Next]_vars, NEW d \in DOMAIN ds, d \in DOMAIN ds', ds[d].whole
  PROVE  ds'[d].whole
<1>1. ds[d] \in DatasetType
  BY DEF Types
<1>2. \/ ds'[d] = ds[d]
      \/ \E h : ds'[d] = [ds[d] EXCEPT !.has = h]
      \/ \E n : ds'[d] = [ds[d] EXCEPT !.size = n]
      \/ \E t \in Tables : \E i : ds'[d] = [ds[d] EXCEPT !.ids[t] = i]
  BY KeptDatasets
<1>3. QED
  BY <1>1, <1>2 DEF DatasetType

\* A call that replicates keeps its target in hand until that is whole.
LEMMA HoldingStays ==
  ASSUME Types, [Next]_vars, NEW r \in Requests, Replicates(call[r]), pc[r] \in Holding,
         Receiving(Dest(call[r]))
  PROVE  pc'[r] \in Holding
<1>1. SetupIs /\ call[r].method \in {"CreateVolume", "CreateSnapshot"} /\ call[r].detached
  BY DEF Types, Replicates
<1>2. pc'[r] = pc[r] \/ pc'[r] = "pending" => pc'[r] \in Holding
  BY DEF Holding
<1>3. ASSUME pc'[r] = First(call[r]) PROVE pc'[r] \in Holding
  BY <1>1, <1>3 DEF First, Holding
<1>4. pc[r] # "reply"
  BY DEF Holding
<1>5. ASSUME Works(r) PROVE pc'[r] \in Holding
  <2>1. /\ pc[r] = "check" => pc'[r] \in {"create", "clone", "tmp", "container", "take"}
        /\ pc[r] = "container" => pc'[r] = "tmp"
        /\ pc[r] = "tmp" => pc'[r] \in {"run", "clone"}
        /\ pc[r] = "run" => pc'[r] = "poll"
        /\ pc[r] = "poll" => pc'[r] = "props"
        /\ pc[r] = "props" => pc'[r] = "strip"
        /\ pc[r] = "strip" => pc'[r] = "untmp"
    BY <1>5, WorkIs, TargetsAre
  <2>2. pc[r] # "untmp"
    <3>1. ~ DoesDropTemporary(r)
      BY DEF DoesDropTemporary
    <3>2. QED
      BY <1>5, <3>1, WorkIs
  <2>3. pc[r] # "pending"
    <3>1. Running(r)
      BY <1>5, WorksMoves DEF Moves
    <3>2. QED
      BY <3>1 DEF Running
  <2>4. \A p : Moves(r, p) => pc'[r] = p
    BY DEF Moves, Types
  <2>5. pc'[r] \notin {"create", "clone", "take"}
    <3>1. DoesCheckSize(r) => pc'[r] = "tmp"
      BY <1>1, <2>4, SetupsAre DEF DoesCheckSize, Replicates, Is
    <3>2. DoesCheckName(r) => pc'[r] = "container"
      BY <1>1, <2>4 DEF DoesCheckName
    <3>3. DoesTakeTemporary(r) => pc'[r] = "run"
      BY <1>1, <2>4 DEF DoesTakeTemporary
    <3>4. pc[r] \in {"check", "container", "tmp", "run", "poll", "props", "strip"}
      BY <2>2, <2>3 DEF Holding
    <3>5. QED
      BY <1>5, <2>1, <3>1, <3>2, <3>3, <3>4, WorkIs
  <2>6. pc'[r] \in {"poll", "props", "strip", "untmp", "tmp", "container", "run"}
    BY <2>1, <2>2, <2>3, <2>5 DEF Holding
  <2>7. QED
    BY <2>6 DEF Holding
<1>6. QED
  BY <1>2, <1>3, <1>4, <1>5, ArrivalIs

\* What is being received is in somebody's hands.
LEMMA ReceivingStaysHeld ==
  ASSUME Types, ReceivingIsHeld, [Next]_vars
  PROVE  ReceivingIsHeld'
<1>1. call' = call
  BY ForwardIs DEF Forward
<1>2. SUFFICES ASSUME NEW d \in DOMAIN ds', ~ ds'[d].whole
               PROVE  \E r \in Requests : /\ Replicates(call[r]) /\ Dest(call[r]) = d
                                          /\ pc'[r] \in Holding
  BY <1>1 DEF ReceivingIsHeld
<1>3. CASE d \notin DOMAIN ds
  <2>1. PICK r \in Requests :
          \/ DoesRunReplication(r) /\ d = Dest(call[r])
          \/ \E o, n, h : ds'[d] = Dataset(o, n, h, TRUE)
    BY <1>3, NewDatasets
  <2>2. DoesRunReplication(r) /\ d = Dest(call[r])
    BY <1>2, <2>1 DEF Dataset
  <2>3. pc'[r] = "poll" /\ Replicates(call[r])
    BY <2>2, TargetsAre DEF DoesRunReplication
  <2>4. QED
    BY <2>2, <2>3 DEF Holding
<1>4. CASE d \in DOMAIN ds
  <2>1. ~ ds[d].whole
    BY <1>2, <1>4, WholeStays
  <2>2. PICK r \in Requests : Replicates(call[r]) /\ Dest(call[r]) = d /\ pc[r] \in Holding
    BY <1>4, <2>1 DEF ReceivingIsHeld
  <2>3. Receiving(Dest(call[r]))
    BY <1>4, <2>1, <2>2 DEF Receiving
  <2>4. QED
    BY <2>2, <2>3, HoldingStays
<1>5. QED
  BY <1>3, <1>4

------------------------------------------------------------
(* Creations stand.                                       *)

\* The names of the last steps of a creation.
LEMMA MadeStepsAre ==
  ASSUME SetupIs
  PROVE  /\ MadeSteps \cap {"idle", "pending", "done", "check", "create", "tmp", "clone", "run",
                            "poll", "props", "strip", "untmp", "size", "look"} = {}
         /\ \A r \in Requests : Is(r, "CreateVolume") =>
              Places(call[r]) \cup {"reply"} \subseteq
                {"check", "create", "tmp", "clone", "run", "poll", "props", "strip", "untmp",
                 "size", "look"} \cup MadeSteps
         /\ Sharing \cup Shared = MadeSteps
<1>1. kind \in Kinds
  BY SetupsAre
<1>2. MadeSteps \cap {"idle", "pending", "done", "check", "create", "tmp", "clone", "run",
                      "poll", "props", "strip", "untmp", "size", "look"} = {}
  BY <1>1 DEF MadeSteps, Sharing, Shared, Kinds
<1>3. Sharing \cup Shared = MadeSteps /\ Shared = {"context", "success", "reply"}
  BY DEF MadeSteps, Shared
<1>4. ASSUME NEW r \in Requests, Is(r, "CreateVolume")
      PROVE  Places(call[r]) \cup {"reply"} \subseteq
                {"check", "create", "tmp", "clone", "run", "poll", "props", "strip", "untmp",
                 "size", "look"} \cup MadeSteps
  <2>1. Places(call[r]) \subseteq {"check", "create", "tmp", "clone", "run", "poll", "props",
                                   "strip", "untmp", "size", "look", "context", "success"}
                                    \cup Sharing
    BY <1>4, PlacesAre
  <2>2. QED
    BY <1>3, <2>1
<1>5. QED
  BY <1>2, <1>3, <1>4

\* A handler that runs and has not just begun ran before.
LEMMA RanBefore ==
  ASSUME Types, [Next]_vars, NEW r \in Requests, Running(r)', pc'[r] # First(call[r])
  PROVE  Running(r) /\ (pc'[r] = pc[r] \/ Works(r))
BY ArrivalIs DEF Running

\* How a creation gets to have a dataset, and to know it.
LEMMA MakesIs ==
  ASSUME Types, [Next]_vars, NEW r \in Requests, Is(r, "CreateVolume"),
         pc'[r] \in {"size", "look"} \cup MadeSteps
  PROVE  /\ Running(r)
         /\ \/ pc[r] \in {"size", "look"} \cup MadeSteps
            \/ pc'[r] = "size" /\ (DoesCreate(r) \/ DoesClone(r) \/ DoesDropTemporary(r))
         /\ pc'[r] \in MadeSteps => pc[r] \in MadeSteps \/ (pc[r] = "look" /\ DoesLookUp(r))
         /\ pc'[r] = "look" => pc[r] = "look" \/ DoesSetSize(r)
<1> DEFINE early == {"check", "create", "tmp", "clone", "run", "poll", "props", "strip", "untmp"}
<1>1. SetupIs /\ First(call[r]) = "check"
  BY DEF Types, First, Is
<1>2. Running(r)' /\ pc'[r] # "check"
  BY <1>1, MadeStepsAre DEF Running
<1>3. Running(r) /\ (pc'[r] = pc[r] \/ Works(r))
  BY <1>1, <1>2, RanBefore
<1>4. pc[r] \in early \cup {"size", "look"} \cup MadeSteps
  <2>1. pc[r] \in Places(call[r]) \cup {"reply"}
    BY <1>3 DEF Types, InItsPlace, Running
  <2>2. QED
    BY <1>1, <2>1, MadeStepsAre
<1>5. CASE pc'[r] = pc[r]
  BY <1>1, <1>3, <1>5, MadeStepsAre
<1>6. CASE Works(r) /\ pc[r] \in early
  <2>1. \/ pc'[r] \in early \cup {"container", "take"}
        \/ pc'[r] = "size" /\ (DoesCreate(r) \/ DoesClone(r) \/ DoesDropTemporary(r))
        \/ pc'[r] = "success" /\ Is(r, "CreateSnapshot")
    BY <1>6, WorkIs, TargetsAre
  <2>2. pc'[r] \notin {"container", "take"} /\ ~ Is(r, "CreateSnapshot")
    <3>1. ~ DoesCheckName(r)
      BY DEF DoesCheckName, Is
    <3>2. ~ Is(r, "CreateSnapshot")
      BY DEF Is
    <3>3. QED
      BY <1>6, <3>1, <3>2, WorkIs, TargetsAre
  <2>3. QED
    BY <1>1, <1>3, <2>1, <2>2, MadeStepsAre
<1>7. CASE Works(r) /\ pc[r] = "size"
  <2>1. DoesSetSize(r) /\ pc'[r] = "look"
    BY <1>7, WorkIs, TargetsAre
  <2>2. QED
    BY <1>1, <1>3, <1>7, <2>1, MadeStepsAre
<1>8. CASE Works(r) /\ pc[r] = "look"
  BY <1>1, <1>3, <1>8, WorkIs, MadeStepsAre
<1>9. CASE Works(r) /\ pc[r] \in MadeSteps /\ pc'[r] # pc[r]
  <2>1. pc'[r] # "look"
    <3>1. DoesSetSize(r) => pc[r] = "size"
      BY DEF DoesSetSize
    <3>2. QED
      BY <1>1, <1>9, <3>1, CameBy, MadeStepsAre
  <2>2. QED
    BY <1>3, <1>9, <2>1
<1>10. QED
  BY <1>3, <1>4, <1>5, <1>6, <1>7, <1>8, <1>9

\* Its dataset is not being received,
LEMMA StandsWhole ==
  ASSUME Types, Control, VolumesAreSound, [Next]_vars, NEW r \in Requests, NEW v \in Volumes,
         Creates(r, v), pc'[r] \in {"size", "look"} \cup MadeSteps
  PROVE  ~ Receiving(Vol(v))'
<1> DEFINE d == Vol(v)
<1>1. SetupIs /\ Is(r, "CreateVolume") /\ VolumeId(call[r]) = v /\ Dest(call[r]) = d
  BY ForVolumes DEF Types
<1>2. Running(r)
  BY <1>1, MakesIs
<1>3. SUFFICES ASSUME d \in DOMAIN ds', ~ ds'[d].whole
               PROVE  FALSE
  BY DEF Receiving
<1>4. CASE d \notin DOMAIN ds
  <2>1. PICK q \in Requests : Creates(q, v) /\ Running(q) /\ DoesRunReplication(q)
    BY <1>3, <1>4, NewVolume
  <2>2. q = r /\ pc'[q] = "poll"
    BY <1>2, <2>1, Rivals, TargetsAre
  <2>3. QED
    BY <1>1, <2>2, MadeStepsAre
<1>5. CASE d \in DOMAIN ds
  <2>1. Receiving(d)
    BY <1>3, <1>5, WholeStays DEF Receiving
  <2>2. pc[r] \notin {"size", "look"} \cup MadeSteps
    BY <1>1, <2>1 DEF VolumesAreSound, VolumeStands, Is
  <2>3. DoesCreate(r) \/ DoesClone(r) \/ DoesDropTemporary(r)
    BY <1>1, <2>2, MakesIs
  <2>4. ~ DoesDropTemporary(r)
    BY <1>1, <2>1 DEF DoesDropTemporary
  <2>5. ~ Replicates(call[r])
    BY <2>3, <2>4 DEF DoesCreate, DoesClone, Replicates, ByCloning, Is
  <2>6. PICK q \in Requests : Replicates(call[q]) /\ Dest(call[q]) = d
    BY <2>1 DEF VolumesAreSound, ReceivingIsHeld, Receiving
  <2>7. Creates(q, v)
    <3>1. Creates(q, v) \/ Deletes(q, v) \/ Expands(q, v)
      BY <1>1, <2>6, ForVolumes
    <3>2. QED
      BY <2>6, <3>1 DEF Replicates, Deletes, Expands, Is
  <2>8. call[q].source[1] # "none"
    BY <2>6, <2>7 DEF Replicates, Creates, Is
  <2>9. call[q] = call[r]
    BY <1>1, <2>5, <2>6, <2>7, <2>8, SetupsAre, CallsAreWellFormed
  <2>10. QED
    BY <2>5, <2>6, <2>9
<1>6. QED
  BY <1>4, <1>5

\* is there,
LEMMA StandsMade ==
  ASSUME Types, Control, VolumesAreSound, [Next]_vars, NEW r \in Requests, NEW v \in Volumes,
         Creates(r, v), pc'[r] \in MadeSteps
  PROVE  Vol(v) \in DOMAIN ds /\ Vol(v) \in DOMAIN ds'
<1> DEFINE d == Vol(v)
<1>1. SetupIs /\ Is(r, "CreateVolume") /\ VolumeId(call[r]) = v /\ Dest(call[r]) = d
  BY ForVolumes DEF Types
<1>2. Running(r) /\ (pc[r] \in MadeSteps \/ (pc[r] = "look" /\ DoesLookUp(r)))
  BY <1>1, MakesIs
<1>3. d \in DOMAIN ds
  <2>1. DoesLookUp(r) => d \in DOMAIN ds
    BY <1>1 DEF DoesLookUp
  <2>2. pc[r] \in MadeSteps => d \in DOMAIN ds
    BY <1>1 DEF VolumesAreSound, VolumeStands, Is
  <2>3. QED
    BY <1>2, <2>1, <2>2
<1>4. ~ Receiving(d)
  BY <1>1, <1>2 DEF VolumesAreSound, VolumeStands, Is
<1>5. ~ VolumeUnwanted(v)
  BY <1>2, CreationIsAlone
<1>6. QED
  BY <1>3, <1>4, <1>5, LostVolume DEF Receiving

\* has what was set,
LEMMA StandsMarked ==
  ASSUME Types, Control, VolumesAreSound, [Next]_vars, NEW r \in Requests, NEW v \in Volumes,
         Creates(r, v)
  PROVE  /\ pc'[r] \in {"success", "reply"} => "context" \in ds'[Vol(v)].has
         /\ pc'[r] = "reply" => "success" \in ds'[Vol(v)].has
         /\ pc'[r] \in Shared /\ kind = "iscsi" => "name" \in ds'[Vol(v)].has
<1> DEFINE d == Vol(v)
<1>1. SetupIs /\ Is(r, "CreateVolume") /\ VolumeId(call[r]) = v /\ Dest(call[r]) = d
  BY ForVolumes DEF Types
<1>2. SUFFICES ASSUME pc'[r] \in Shared
               PROVE  /\ pc'[r] \in {"success", "reply"} => "context" \in ds'[d].has
                      /\ pc'[r] = "reply" => "success" \in ds'[d].has
                      /\ kind = "iscsi" => "name" \in ds'[d].has
  BY DEF Shared
<1>3. /\ d \in DOMAIN ds /\ d \in DOMAIN ds' /\ ds[d].has \subseteq ds'[d].has
  BY <1>1, <1>2, StandsMade, KeptVolume, MadeStepsAre
<1>4. /\ pc[r] \in {"success", "reply"} => "context" \in ds[d].has
      /\ pc[r] = "reply" => "success" \in ds[d].has
      /\ pc[r] \in Shared /\ kind = "iscsi" => "name" \in ds[d].has
  BY <1>1 DEF VolumesAreSound, VolumeStands, Is
<1>5. CASE pc'[r] = pc[r]
  BY <1>2, <1>3, <1>4, <1>5
<1>6. CASE pc'[r] # pc[r]
  <2>1. ASSUME NEW p, Changes(d, [ds[d] EXCEPT !.has = ds[d].has \cup {p}])
        PROVE  p \in ds'[d].has
    <3>1. ds[d] \in DatasetType
      BY <1>3 DEF Types
    <3>2. QED
      BY <2>1, <3>1 DEF Changes, DatasetType
  <2>2. CASE pc'[r] = "context"
    <3>1. DoesSetName(r) \/ DoesLookUp(r) \/ DoesKeepId(r, "nfs") \/ DoesKeepId(r, "smb")
      BY <1>6, <2>2, CameBy
    <3>2. DoesSetName(r) => "name" \in ds'[d].has
      BY <1>1, <2>1 DEF DoesSetName
    <3>3. kind = "iscsi" => ~ (DoesKeepId(r, "nfs") \/ DoesKeepId(r, "smb"))
      BY DEF DoesKeepId, Used
    <3>4. kind = "iscsi" => ~ DoesLookUp(r)
      <4>1. \A p : Moves(r, p) => pc'[r] = p
        BY DEF Moves, Types
      <4>2. QED
        BY <2>2, <4>1 DEF DoesLookUp
    <3>5. QED
      BY <2>2, <3>1, <3>2, <3>3, <3>4
  <2>3. CASE pc'[r] = "success"
    <3>1. DoesSetContext(r)
      BY <1>1, <1>6, <2>3, CameBy DEF DoesTakeSnapshot, Is
    <3>2. "context" \in ds'[d].has /\ pc[r] = "context"
      BY <1>1, <2>1, <3>1 DEF DoesSetContext
    <3>3. QED
      BY <1>3, <1>4, <2>3, <3>2 DEF Shared
  <2>4. CASE pc'[r] = "reply"
    <3>1. /\ ~ DoesResize(r) /\ ~ DoesDestroyVolume(r) /\ ~ DoesReleaseSnapshot(r)
          /\ ~ DoesDestroyContainer(r)
      BY <1>1 DEF DoesResize, DoesDestroyVolume, DoesReleaseSnapshot, DoesDestroyContainer, Is
    <3>2. DoesSetSuccess(r)
      BY <1>6, <2>4, <3>1, CameBy
    <3>3. "success" \in ds'[d].has /\ pc[r] = "success"
      BY <1>1, <2>1, <3>2 DEF DoesSetSuccess, Is
    <3>4. QED
      BY <1>3, <1>4, <2>4, <3>3 DEF Shared
  <2>5. QED
    BY <1>2, <2>2, <2>3, <2>4 DEF Shared
<1>7. QED
  BY <1>5, <1>6

\* and is as large as was asked for.
LEMMA StandsLarge ==
  ASSUME Types, Control, VolumesAreSound, [Next]_vars, NEW r \in Requests, NEW v \in Volumes,
         Creates(r, v), pc'[r] \in {"look"} \cup MadeSteps, Zvols, Vol(v) \in DOMAIN ds'
  PROVE  ds'[Vol(v)].size >= call[r].size
<1> DEFINE d == Vol(v)
<1>1. /\ SetupIs /\ Is(r, "CreateVolume") /\ VolumeId(call[r]) = v /\ Dest(call[r]) = d
      /\ call[r].size \in Nat
  BY ForVolumes, SetupsAre, CallsAre DEF Types
<1>2. /\ Running(r)
      /\ pc[r] \in {"look"} \cup MadeSteps \/ DoesSetSize(r)
  BY <1>1, MakesIs
<1>3. d \in DOMAIN ds
  <2>1. SUFFICES ASSUME d \notin DOMAIN ds PROVE FALSE
    OBVIOUS
  <2>2. PICK q \in Requests : /\ Creates(q, v) /\ Running(q)
                              /\ DoesCreate(q) \/ DoesClone(q) \/ DoesRunReplication(q)
    BY <2>1, NewVolume
  <2>3. q = r /\ pc'[q] \in {"size", "untmp", "poll"}
    BY <1>2, <2>2, Rivals, TargetsAre
  <2>4. QED
    BY <1>1, <2>3, MadeStepsAre
<1>4. CASE DoesSetSize(r)
  <2>1. Changes(d, [ds[d] EXCEPT !.size = call[r].size])
    BY <1>1, <1>4 DEF DoesSetSize
  <2>2. ds[d] \in DatasetType
    BY <1>3 DEF Types
  <2>3. ds'[d].size = call[r].size
    BY <2>1, <2>2 DEF Changes, DatasetType
  <2>4. QED
    BY <1>1, <2>3
<1>5. CASE pc[r] \in {"look"} \cup MadeSteps /\ ~ DoesSetSize(r)
  <2>1. ds[d].size >= call[r].size
    BY <1>1, <1>3, <1>5 DEF VolumesAreSound, VolumeStands, Is
  <2>2. ASSUME NEW q \in Requests, Running(q)
        PROVE  ~ (DoesSetSize(q) /\ Creates(q, v)) /\ ~ (DoesResize(q) /\ Expands(q, v))
    <3>1. Creates(q, v) => q = r
      BY <1>2, <2>2, Rivals
    <3>2. ~ Expands(q, v)
      <4>1. Sent(q)
        BY <2>2 DEF Running, Sent
      <4>2. QED
        BY <1>2, <4>1, CreationIsAlone
    <3>3. QED
      BY <1>5, <3>1, <3>2
  <2>3. ds'[d].size = ds[d].size
    BY <1>3, <2>2, KeptVolume
  <2>4. QED
    BY <2>1, <2>3
<1>6. QED
  BY <1>2, <1>4, <1>5

\* A creation that goes on is of no less than was promised.
LEMMA StandsBy ==
  ASSUME Types, Control, VolumesAreSound, [Next]_vars, NEW r \in Requests, NEW v \in Volumes,
         Creates(r, v), Running(r)', pc'[r] # "check", Zvols, v \in DOMAIN promised'
  PROVE  call[r].size >= promised'[v]
<1> DEFINE d == Vol(v)
<1>1. /\ SetupIs /\ Is(r, "CreateVolume") /\ VolumeId(call[r]) = v /\ Dest(call[r]) = d
      /\ call \in Plans /\ call[r].size \in Nat /\ call[r].limit \in Nat
  BY ForVolumes, SetupsAre, CallsAre DEF Types
<1>2. Running(r) /\ (pc'[r] = pc[r] \/ Works(r))
  <2>1. First(call[r]) = "check"
    BY <1>1 DEF First, Is
  <2>2. QED
    BY <2>1, RanBefore
<1>3. v \in DOMAIN promised /\ promised'[v] = promised[v]
  <2>1. ASSUME NEW q \in Requests, Reply(q), Creates(q, v) \/ Expands(q, v) PROVE FALSE
    <3>1. Running(q) /\ Sent(q) /\ pc'[q] = "done"
      BY <2>1, ReplyIs DEF Running, Sent, Types
    <3>2. ~ Expands(q, v)
      BY <1>2, <3>1, CreationIsAlone
    <3>3. q = r
      BY <1>2, <2>1, <3>1, <3>2, Rivals
    <3>4. QED
      BY <3>1, <3>3 DEF Running
  <2>2. QED
    BY <2>1, PromiseIs
<1>4. CASE pc[r] # "check"
  BY <1>1, <1>2, <1>3, <1>4 DEF VolumesAreSound, VolumeStands, Is
<1>5. CASE pc[r] = "check"
  <2>1. DoesCheckSize(r)
    <3>1. ~ DoesCheckName(r)
      BY <1>1 DEF DoesCheckName, Is
    <3>2. QED
      BY <1>2, <1>5, <3>1, WorkIs
  <2>2. ~ VolumeUnwanted(v)
    BY <1>2, CreationIsAlone
  <2>3. d \in DOMAIN ds /\ ds[d].size >= promised[v]
    BY <1>3, <2>2 DEF VolumesAreSound, VolumeIsKept
  <2>4. ds[d].size \in Nat /\ promised[v] \in Nat
    BY <1>3, <2>3 DEF Types, DatasetType
  <2>5. ~ Conflict(call[r], ds[d].size)
    BY <1>1, <2>1, <2>3 DEF DoesCheckSize
  <2>6. PICK p \in Requests : /\ Creates(p, v) \/ Expands(p, v)
                              /\ pc[p] = "done" /\ call[p].size = promised[v]
    BY <1>3 DEF Control, PromisesAreMade
  <2>7. Creates(p, v) /\ p # r
    <3>1. Sent(p)
      BY <2>6 DEF Sent
    <3>2. QED
      BY <1>2, <1>5, <2>6, <3>1, CreationIsAlone
  <2>8. \/ call[p] = call[r]
        \/ call[r].limit > 0 /\ call[r].limit = call[r].size
    BY <1>1, <2>7, CallsAreWellFormed
  <2>9. CASE call[p] = call[r]
    BY <1>1, <1>3, <2>4, <2>6, <2>9
  <2>10. CASE call[r].limit > 0 /\ call[r].limit = call[r].size
    <3>1. ds[d].size <= call[r].size
      BY <1>1, <2>4, <2>5, <2>10 DEF Conflict
    <3>2. QED
      BY <1>1, <1>3, <2>3, <2>4, <3>1
  <2>11. QED
    BY <2>8, <2>9, <2>10
<1>6. QED
  BY <1>4, <1>5

\* So what a creation has made stands.
LEMMA CreationsStand ==
  ASSUME Types, Control, VolumesAreSound, [Next]_vars, NEW r \in Requests
  PROVE  VolumeStands(r)'
<1> DEFINE c == call[r]
           v == VolumeId(c)
           d == Vol(v)
<1>1. UNCHANGED <<call, kind>> /\ SetupIs /\ v \in Volumes
  BY ForwardIs, ForVolumes DEF Forward, Types
<1>2. (MadeSteps' = MadeSteps) /\ (Zvols' <=> Zvols)
  BY <1>1 DEF MadeSteps, Sharing, Shared, Zvols
<1>3. CASE c.method # "CreateVolume"
  BY <1>1, <1>3 DEF VolumeStands
<1>4. CASE c.method = "CreateVolume"
  <2>1. Creates(r, v)
    BY <1>4 DEF Creates, Is
  <2>2. pc'[r] \in {"size", "look"} \cup MadeSteps => ~ Receiving(d)'
    BY <1>1, <2>1, StandsWhole
  <2>3. pc'[r] \in MadeSteps => d \in DOMAIN ds'
    BY <1>1, <2>1, StandsMade
  <2>4. /\ pc'[r] \in {"success", "reply"} => "context" \in ds'[d].has
        /\ pc'[r] = "reply" => "success" \in ds'[d].has
        /\ pc'[r] \in Shared /\ kind = "iscsi" => "name" \in ds'[d].has
    BY <1>1, <2>1, StandsMarked
  <2>5. pc'[r] \in {"look"} \cup MadeSteps /\ Zvols /\ d \in DOMAIN ds' => ds'[d].size >= c.size
    BY <1>1, <2>1, StandsLarge
  <2>6. Running(r)' /\ pc'[r] # "check" /\ Zvols /\ v \in DOMAIN promised'
          => c.size >= promised'[v]
    BY <1>1, <2>1, StandsBy
  <2>7. (VolumeId(call[r])' = v) /\ (Receiving(Vol(VolumeId(call[r])))' <=> Receiving(d)')
    BY <1>1 DEF VolumeId, Receiving
  <2>8. QED
    BY <1>1, <1>2, <2>2, <2>3, <2>4, <2>5, <2>6, <2>7 DEF VolumeStands, Shared
<1>5. QED
  BY <1>3, <1>4

------------------------------------------------------------
(* Expansions.                                            *)

\* While a volume is expanded nobody creates it, or expands it as well.
LEMMA ExpansionIsAlone ==
  ASSUME Types, Control, NEW r \in Requests, NEW v \in Volumes, Expands(r, v), Unfinished(r)
  PROVE  /\ \A q \in Requests : /\ Creates(q, v) => pc[q] = "done"
                                /\ Expands(q, v) /\ Unfinished(q) => q = r
         /\ v \in DOMAIN promised
<1>1. Sent(r)
  BY DEF Sent, Unfinished
<1>2. \A q \in Requests : /\ Creates(q, v) => pc[q] = "done"
                          /\ Expands(q, v) /\ Unfinished(q) => q = r
  BY <1>1 DEF Control, UnwantedIsSettled
<1>3. v \in DOMAIN promised
  BY <1>1 DEF Control, SourceWasMade, Expands, Is
<1>4. QED
  BY <1>2, <1>3

\* An expansion is of no less than was promised, and is made before it is answered.
LEMMA ExpansionsStand ==
  ASSUME Types, Control, VolumesAreSound, [Next]_vars, NEW r \in Requests
  PROVE  VolumeExpands(r)'
<1> DEFINE c == call[r]
           v == c.volume
           d == Vol(v)
<1>1. /\ UNCHANGED <<call, kind>> /\ SetupIs /\ c.size \in Nat /\ v \in Volumes
      /\ \A q \in Requests : Sent(q) => Sent(q)'
  BY ForwardIs, SetupsAre, CallsAre DEF Forward, Types
<1>2. CASE ~ Is(r, "ControllerExpandVolume")
  BY <1>1, <1>2 DEF VolumeExpands, Is
<1>3. CASE Is(r, "ControllerExpandVolume")
  <2>1. Expands(r, v) /\ Dest(c) = d
    BY <1>1, <1>3, ForVolumes DEF Expands
  <2>2. ASSUME Unfinished(r)' PROVE c.size >= promised'[v]
    <3>1. CASE Unfinished(r)
      <4>1. v \in DOMAIN promised /\ v \in DOMAIN promised'
        BY <1>1, <2>1, <3>1, ExpansionIsAlone, ForwardIs DEF Forward
      <4>2. ASSUME NEW q \in Requests, Reply(q), Creates(q, v) \/ Expands(q, v) PROVE FALSE
        <5>1. Unfinished(q) /\ pc[q] # "done" /\ pc'[q] = "done"
          BY <4>2, ReplyIs DEF Unfinished, Types
        <5>2. q = r
          BY <1>1, <2>1, <3>1, <4>2, <5>1, ExpansionIsAlone
        <5>3. QED
          BY <2>2, <5>1, <5>2 DEF Unfinished
      <4>3. promised'[v] = promised[v]
        BY <4>1, <4>2, PromiseIs
      <4>4. QED
        BY <1>3, <3>1, <4>3 DEF VolumesAreSound, VolumeExpands, Is
    <3>2. CASE ~ Unfinished(r)
      <4>1. Start(r) /\ pc[r] = "idle"
        BY <2>2, <3>2, ArrivalIs DEF Unfinished, Running
      <4>2. c.size >= promised[v] /\ promised' = promised
        BY <1>3, <4>1, SendingIsAllowed, StartIs
      <4>3. QED
        BY <4>2
    <3>3. QED
      BY <3>1, <3>2
  <2>3. ASSUME pc'[r] = "reply", ~ VolumeUnwanted(v)', Zvols PROVE ds'[d].size >= c.size
    <3>1. Running(r) /\ (pc'[r] = pc[r] \/ Works(r)) /\ Unfinished(r)
      BY <2>3, RanBefore DEF Running, First, Unfinished
    <3>2. ~ VolumeUnwanted(v)
      BY <1>1, <2>3, CallsStay DEF VolumeUnwanted
    <3>3. v \in DOMAIN promised
      BY <1>1, <2>1, <3>1, ExpansionIsAlone
    <3>4. d \in DOMAIN ds /\ ds[d].whole
      BY <1>1, <3>2, <3>3 DEF VolumesAreSound, VolumeIsKept, Receiving
    <3>5. d \in DOMAIN ds'
      BY <1>1, <3>2, <3>4, LostVolume
    <3>6. ASSUME NEW q \in Requests, Running(q),
                 (DoesSetSize(q) /\ Creates(q, v)) \/ (DoesResize(q) /\ Expands(q, v))
          PROVE  q = r
      <4>1. Unfinished(q) /\ pc[q] # "done"
        BY <3>6 DEF Running, Unfinished
      <4>2. QED
        BY <1>1, <2>1, <3>1, <3>6, <4>1, ExpansionIsAlone
    <3>7. CASE DoesResize(r)
      <4>1. ds[d] \in DatasetType
        BY <3>4 DEF Types
      <4>2. Changes(d, [ds[d] EXCEPT !.size = c.size])
        BY <2>1, <2>3, <3>7 DEF DoesResize
      <4>3. ds'[d].size = c.size
        BY <4>1, <4>2 DEF Changes, DatasetType
      <4>4. QED
        BY <1>1, <4>3
    <3>8. CASE ~ DoesResize(r)
      <4>1. ~ DoesSetSize(r)
        BY <1>3 DEF DoesSetSize, Is
      <4>2. ds'[d].size = ds[d].size
        BY <1>1, <3>4, <3>5, <3>6, <3>8, <4>1, KeptVolume
      <4>3. pc[r] = "reply"
        <5>1. ~ DoesSetSuccess(r) /\ ~ DoesDestroyVolume(r) /\ ~ DoesReleaseSnapshot(r)
              /\ ~ DoesDestroyContainer(r)
          BY <1>3 DEF DoesSetSuccess, DoesDestroyVolume, DoesReleaseSnapshot,
             DoesDestroyContainer, Is
        <5>2. QED
          BY <2>3, <3>8, <5>1, CameBy
      <4>4. ds[d].size >= c.size
        BY <1>3, <2>3, <3>2, <4>3 DEF VolumesAreSound, VolumeExpands, Is
      <4>5. QED
        BY <4>2, <4>4
    <3>9. QED
      BY <3>7, <3>8
  <2>4. (Zvols' <=> Zvols) /\ (VolumeUnwanted(call[r].volume)' <=> VolumeUnwanted(v)')
    BY <1>1 DEF Zvols, VolumeUnwanted, Deletes, Is
  <2>5. QED
    BY <1>1, <2>2, <2>3, <2>4 DEF VolumeExpands
<1>4. QED
  BY <1>2, <1>3

------------------------------------------------------------
(* What was promised.                                     *)

\* The volume of an acknowledged creation stays, whole, and its size is what was promised.
LEMMA PromisesAreKept ==
  ASSUME Types, Control, VolumesAreSound, [Next]_vars, NEW v \in Volumes
  PROVE  VolumeIsKept(v)'
<1> DEFINE d == Vol(v)
<1>1. /\ UNCHANGED <<call, kind>> /\ SetupIs /\ (Zvols' <=> Zvols)
      /\ ~ VolumeUnwanted(v)' => ~ VolumeUnwanted(v)
  BY ForwardIs, CallsStay DEF Forward, Types, Zvols, VolumeUnwanted
<1>2. VolumeIsKept(v) /\ \A q \in Requests : VolumeStands(q) /\ VolumeExpands(q)
  BY DEF VolumesAreSound
<1>3. ASSUME NEW q \in Requests, Creates(q, v), pc[q] = "reply"
      PROVE  /\ ~ Receiving(d) /\ d \in DOMAIN ds /\ {"context", "success"} \subseteq ds[d].has
             /\ kind = "iscsi" => "name" \in ds[d].has
             /\ Zvols => ds[d].size >= call[q].size
  <2>1. Is(q, "CreateVolume") /\ VolumeId(call[q]) = v
        /\ "reply" \in MadeSteps /\ "reply" \in Shared
    BY <1>1, <1>3, ForVolumes DEF MadeSteps, Shared
  <2>2. QED
    BY <1>2, <1>3, <2>1 DEF VolumeStands, Is
<1>4. CASE v \in DOMAIN promised
  <2>1. d \in DOMAIN ds' => d \in DOMAIN ds
    BY <1>2, <1>4, NewVolume DEF VolumeIsKept
  <2>2. d \in DOMAIN ds' => ds'[d].whole /\ ds[d].has \subseteq ds'[d].has
    BY <1>2, <1>4, <2>1, KeptVolume DEF VolumeIsKept, Receiving
  <2>3. ASSUME ~ VolumeUnwanted(v)'
        PROVE  /\ d \in DOMAIN ds' /\ {"context", "success"} \subseteq ds'[d].has
               /\ Zvols => ds'[d].size >= promised'[v]
    <3>1. /\ d \in DOMAIN ds /\ {"context", "success"} \subseteq ds[d].has /\ ds[d].whole
          /\ Zvols => ds[d].size >= promised[v]
      BY <1>1, <1>2, <1>4, <2>3 DEF VolumeIsKept, Receiving
    <3>2. d \in DOMAIN ds'
      BY <1>1, <2>3, <3>1, LostVolume
    <3>3. ASSUME Zvols PROVE ds'[d].size >= promised'[v]
      <4>1. ASSUME NEW q \in Requests, Creates(q, v) \/ Expands(q, v), pc[q] = "reply", ds' = ds,
                   promised'[v] = call[q].size
            PROVE  ds'[d].size >= promised'[v]
        <5>1. Expands(q, v) => ds[d].size >= call[q].size
          BY <1>1, <1>2, <2>3, <3>3, <4>1 DEF VolumeExpands, Expands, Is
        <5>2. QED
          BY <1>3, <3>3, <4>1, <5>1
      <4>2. CASE promised'[v] = promised[v] /\ ds'[d].size = ds[d].size
        BY <3>1, <3>3, <4>2
      <4>3. ASSUME NEW q \in Requests, Running(q), ds'[d].size = call[q].size,
                   promised'[v] = promised[v],
                   \/ DoesSetSize(q) /\ Creates(q, v)
                   \/ DoesResize(q) /\ Expands(q, v)
            PROVE  ds'[d].size >= promised'[v]
        <5>1. ASSUME DoesSetSize(q), Creates(q, v) PROVE call[q].size >= promised[v]
          <6>1. pc[q] = "size" /\ Is(q, "CreateVolume") /\ VolumeId(call[q]) = v
            BY <1>1, <5>1, ForVolumes DEF DoesSetSize
          <6>2. QED
            BY <1>2, <1>4, <3>3, <4>3, <6>1 DEF VolumeStands, Is
        <5>2. ASSUME Expands(q, v) PROVE call[q].size >= promised[v]
          <6>1. Unfinished(q)
            BY <4>3 DEF Unfinished, Running
          <6>2. QED
            BY <1>2, <5>2, <6>1 DEF VolumeExpands, Expands, Is
        <5>3. QED
          BY <4>3, <5>1, <5>2
      <4>4. v \in DOMAIN promised'
        BY <1>4, ForwardIs DEF Forward
      <4>5. CASE promised'[v] = promised[v]
        BY <3>1, <3>2, <4>2, <4>3, <4>5, KeptVolume
      <4>6. CASE promised'[v] # promised[v]
        BY <4>1, <4>4, <4>6, PromiseIs
      <4>7. QED
        BY <4>5, <4>6
    <3>4. QED
      BY <2>2, <3>1, <3>2, <3>3
  <2>4. kind = "iscsi" /\ d \in DOMAIN ds' => "name" \in ds'[d].has
    BY <1>2, <1>4, <2>1, <2>2 DEF VolumeIsKept
  <2>5. QED
    BY <1>1, <2>2, <2>3, <2>4 DEF VolumeIsKept, Receiving
<1>5. CASE v \in DOMAIN promised' /\ v \notin DOMAIN promised
  <2>1. PICK q \in Requests : /\ Creates(q, v) \/ Expands(q, v)
                              /\ Running(q) /\ pc[q] = "reply" /\ ds' = ds
                              /\ promised'[v] = call[q].size
    BY <1>5, PromiseIs
  <2>2. Creates(q, v)
    BY <1>5, <2>1, ExpansionIsAlone DEF Running, Unfinished
  <2>3. /\ ~ Receiving(d) /\ d \in DOMAIN ds /\ {"context", "success"} \subseteq ds[d].has
        /\ kind = "iscsi" => "name" \in ds[d].has
        /\ Zvols => ds[d].size >= promised'[v]
    BY <1>3, <2>1, <2>2
  <2>4. QED
    BY <1>1, <2>1, <2>3 DEF VolumeIsKept, Receiving
<1>6. CASE v \notin DOMAIN promised'
  BY <1>6 DEF VolumeIsKept
<1>7. QED
  BY <1>4, <1>5, <1>6

\* What is said of volumes stays true, and is true at first.
LEMMA VolumesStay ==
  ASSUME Types, Control, VolumesAreSound, [Next]_vars
  PROVE  VolumesAreSound'
<1>1. ReceivingIsHeld'
  BY ReceivingStaysHeld DEF VolumesAreSound
<1>2. \A r \in Requests : VolumeStands(r)' /\ VolumeExpands(r)'
  BY CreationsStand, ExpansionsStand
<1>3. \A v \in Volumes : VolumeIsKept(v)'
  BY PromisesAreKept
<1>4. QED
  BY <1>1, <1>2, <1>3 DEF VolumesAreSound

\* It is true at first, when there are none.
LEMMA VolumesBegin ==
  ASSUME Init
  PROVE  VolumesAreSound
<1>1. DOMAIN ds = {} /\ DOMAIN promised = {} /\ \A r \in Requests : pc[r] = "idle"
  BY DEF Init
<1>2. SetupIs
  BY TypesBegin DEF Types
<1>3. ReceivingIsHeld /\ \A v \in Volumes : VolumeIsKept(v)
  BY <1>1 DEF ReceivingIsHeld, VolumeIsKept
<1>4. ASSUME NEW r \in Requests PROVE VolumeStands(r) /\ VolumeExpands(r)
  <2>1. pc[r] \notin {"size", "look", "success", "reply"} \cup MadeSteps /\ pc[r] \notin Shared
    BY <1>1, <1>2, MadeStepsAre DEF Shared
  <2>2. ~ Running(r) /\ ~ Unfinished(r)
    BY <1>1 DEF Running, Unfinished
  <2>3. QED
    BY <2>1, <2>2 DEF VolumeStands, VolumeExpands
<1>5. QED
  BY <1>3, <1>4 DEF VolumesAreSound

------------------------------------------------------------
(* Rows, and whose they are.                              *)

\* What a row is made of is no mark.
LEMMA RowShapes ==
  /\ \A a : <<a>> # Free /\ <<a>> # Spent /\ <<a>>[1] = a
  /\ \A a, b : <<a, b>> # Free /\ <<a, b>> # Spent /\ <<a, b>>[1] = a /\ <<a, b>>[2] = b
  /\ \A a, b : <<a>> = <<b>> => a = b
  /\ \A a, b, c, d : <<a, b>> = <<c, d>> => a = c /\ b = d
  /\ Free # Spent
<1>1. \A a : Len(<<a>>) = 1 /\ <<a>>[1] = a
  OBVIOUS
<1>2. \A a, b : Len(<<a, b>>) = 2 /\ <<a, b>>[1] = a /\ <<a, b>>[2] = b
  OBVIOUS
<1>3. Len(Free) = 0 /\ Len(Spent) = 3
  BY DEF Free, Spent
<1>4. \A a : <<a>> # Free /\ <<a>> # Spent
  BY <1>1, <1>3
<1>5. \A a, b : <<a, b>> # Free /\ <<a, b>> # Spent
  BY <1>2, <1>3
<1>6. \A a, b, c, d : <<a, b>> = <<c, d>> => a = c /\ b = d
  BY <1>2
<1>7. \A a, b : <<a>> = <<b>> => a = b
  BY <1>1
<1>8. QED
  BY <1>1, <1>2, <1>3, <1>4, <1>5, <1>6, <1>7

\* Whose a row is, table by table.
LEMMA BelongsIs ==
  ASSUME NEW i, NEW v
  PROVE  /\ \A t \in {"nfs", "smb", "extent", "subsys"} :
              /\ Belongs(t, i, v) <=> i \in Rows(t) /\ table[t][i] = <<v>>
              /\ Belongs(t, i, v)' <=> i \in Rows(t)' /\ table'[t][i] = <<v>>
         /\ Belongs("target", i, v) <=>
              i \in Rows("target") /\ \E g \in BOOLEAN : table["target"][i] = <<v, g>>
         /\ Belongs("target", i, v)' <=>
              i \in Rows("target")' /\ \E g \in BOOLEAN : table'["target"][i] = <<v, g>>
         /\ Belongs("lun", i, v) <=>
              i \in Rows("lun") /\ \E a, b \in Ids : /\ table["lun"][i] = <<a, b>>
                                                     /\ Named("target", a, v)
                                                     /\ Named("extent", b, v)
         /\ Belongs("lun", i, v)' <=>
              i \in Rows("lun")' /\ \E a, b \in Ids : /\ table'["lun"][i] = <<a, b>>
                                                      /\ Named("target", a, v)'
                                                      /\ Named("extent", b, v)'
         /\ Belongs("namespace", i, v) <=>
              i \in Rows("namespace")
                /\ \E a \in Ids : table["namespace"][i] = <<v, a>> /\ Named("subsys", a, v)
         /\ Belongs("namespace", i, v)' <=>
              i \in Rows("namespace")'
                /\ \E a \in Ids : table'["namespace"][i] = <<v, a>> /\ Named("subsys", a, v)'
         /\ Belongs("port", i, v) <=>
              i \in Rows("port") /\ \E a \in Ids : table["port"][i] = <<a>> /\ Named("subsys", a, v)
         /\ Belongs("port", i, v)' <=>
              i \in Rows("port")'
                /\ \E a \in Ids : table'["port"][i] = <<a>> /\ Named("subsys", a, v)'
<1>1. ASSUME NEW t \in {"nfs", "smb", "extent", "subsys"}
      PROVE  /\ Belongs(t, i, v) <=> i \in Rows(t) /\ table[t][i] = <<v>>
             /\ Belongs(t, i, v)' <=> i \in Rows(t)' /\ table'[t][i] = <<v>>
  BY <1>1 DEF Belongs
<1>2. QED
  BY <1>1 DEF Belongs

\* What a row of a table that is named after volumes is named after is its volume.
LEMMA NamedIs ==
  ASSUME NEW t \in NamedTables, NEW i, NEW v
  PROVE  /\ Belongs(t, i, v) => Named(t, i, v)
         /\ Belongs(t, i, v)' => Named(t, i, v)'
         /\ RowsAreSound /\ Named(t, i, v) => Belongs(t, i, v)
<1>1. t \in {"nfs", "smb", "extent", "subsys"} \/ t = "target" \/ t = "namespace"
  BY DEF NamedTables
<1>2. \A w : /\ Belongs(t, i, w) => i \in Rows(t) /\ table[t][i][1] = w
             /\ Belongs(t, i, w)' => i \in Rows(t)' /\ table'[t][i][1] = w
  BY <1>1, BelongsIs
<1>3. ASSUME RowsAreSound, Named(t, i, v) PROVE Belongs(t, i, v)
  <2>1. t \in Tables /\ i \in Rows(t) /\ table[t][i][1] = v
    BY <1>3 DEF NamedTables, Tables, Named
  <2>2. PICK w \in Volumes : Belongs(t, i, w)
    BY <1>3, <2>1 DEF RowsAreSound
  <2>3. QED
    BY <1>2, <2>1, <2>2
<1>4. QED
  BY <1>2, <1>3 DEF Named

\* A row has one volume.
LEMMA OneOwner ==
  ASSUME NEW t \in Tables, NEW i, NEW u, NEW v, Belongs(t, i, u), Belongs(t, i, v)
  PROVE  u = v
<1>1. t \in NamedTables \/ t = "lun" \/ t = "port"
  BY DEF Tables, NamedTables
<1>2. CASE t \in NamedTables
  BY <1>2, NamedIs DEF Named
<1>3. CASE t = "lun"
  <2>1. PICK a, b \in Ids : table["lun"][i] = <<a, b>> /\ Named("target", a, u)
    BY <1>3, BelongsIs
  <2>2. PICK c, d \in Ids : table["lun"][i] = <<c, d>> /\ Named("target", c, v)
    BY <1>3, BelongsIs
  <2>3. a = c
    BY <2>1, <2>2, RowShapes
  <2>4. QED
    BY <2>1, <2>2, <2>3 DEF Named
<1>4. CASE t = "port"
  <2>1. PICK a \in Ids : table["port"][i] = <<a>> /\ Named("subsys", a, u)
    BY <1>4, BelongsIs
  <2>2. PICK c \in Ids : table["port"][i] = <<c>> /\ Named("subsys", c, v)
    BY <1>4, BelongsIs
  <2>3. a = c
    BY <2>1, <2>2, RowShapes
  <2>4. QED
    BY <2>1, <2>2, <2>3 DEF Named
<1>5. QED
  BY <1>1, <1>2, <1>3, <1>4

\* Rows, now and next.
LEMMA RowsAre ==
  ASSUME NEW t
  PROVE  /\ \A i : i \in Rows(t) <=> i \in Ids /\ table[t][i] \notin {Free, Spent}
         /\ \A i : i \in Rows(t)' <=> i \in Ids /\ table'[t][i] \notin {Free, Spent}
BY DEF Rows

\* A row that is new takes nothing from anybody: whose the others are stays.
LEMMA InsertedOwners ==
  ASSUME Types, RowsAreSound, NEW t \in Tables, NEW i \in Ids, NEW row, table[t][i] = Free,
         row \notin {Free, Spent}, Inserts(t, i, row), NEW u \in Tables, NEW j, NEW w
  PROVE  /\ ~ Belongs(t, i, w)
         /\ Named(u, j, w) => Named(u, j, w)'
         /\ u # t \/ j # i => (Belongs(u, j, w)' <=> Belongs(u, j, w))
<1>1. \A x \in Tables : \A y : /\ y \in Rows(x)' <=> (y \in Rows(x) \/ (x = t /\ y = i))
                               /\ y \in Rows(x) => table'[x][y] = table[x][y] /\ (x # t \/ y # i)
  BY RowsAre DEF Inserts
<1>2. \A x \in Tables : \A y, z : /\ Named(x, y, z) => Named(x, y, z)'
                                  /\ Named(x, y, z)' /\ y \in Rows(x) => Named(x, y, z)
  BY <1>1 DEF Named
<1>3. ~ Belongs(t, i, w)
  BY <1>1 DEF Belongs
<1>4. ASSUME u # t \/ j # i PROVE Belongs(u, j, w)' <=> Belongs(u, j, w)
  <2>1. CASE j \notin Rows(u)
    BY <1>1, <1>4, <2>1 DEF Belongs
  <2>2. CASE j \in Rows(u)
    <3>1. table'[u][j] = table[u][j] /\ j \in Rows(u)'
      BY <1>1, <2>2
    <3>2. PICK v \in Volumes : Belongs(u, j, v)
      BY <2>2 DEF RowsAreSound
    <3>3. {"target", "extent", "subsys"} \subseteq Tables
      BY DEF Tables
    <3>4. CASE u \in {"nfs", "smb", "extent", "subsys"}
      BY <2>2, <3>1, <3>4, BelongsIs
    <3>5. CASE u = "target"
      BY <2>2, <3>1, <3>5, BelongsIs
    <3>6. CASE u = "lun"
      <4>1. PICK a, b \in Ids : /\ table["lun"][j] = <<a, b>>
                                /\ Named("target", a, v) /\ Named("extent", b, v)
        BY <3>2, <3>6, BelongsIs
      <4>2. a \in Rows("target") /\ b \in Rows("extent")
        BY <4>1 DEF Named
      <4>3. \A z : /\ Named("target", a, z)' <=> Named("target", a, z)
                   /\ Named("extent", b, z)' <=> Named("extent", b, z)
        BY <1>2, <3>3, <4>2
      <4>4. Belongs(u, j, w) <=> Named("target", a, w) /\ Named("extent", b, w)
        BY <2>2, <3>6, <4>1, BelongsIs, RowShapes
      <4>5. Belongs(u, j, w)' <=> Named("target", a, w)' /\ Named("extent", b, w)'
        BY <3>1, <3>6, <4>1, BelongsIs, RowShapes
      <4>6. QED
        BY <4>3, <4>4, <4>5
    <3>7. CASE u \in {"namespace", "port"}
      <4>1. PICK a \in Ids : /\ table[u][j] = IF u = "port" THEN <<a>> ELSE <<v, a>>
                             /\ Named("subsys", a, v)
        BY <3>2, <3>7, BelongsIs
      <4>2. a \in Rows("subsys")
        BY <4>1 DEF Named
      <4>3. \A z : Named("subsys", a, z)' <=> Named("subsys", a, z)
        BY <1>2, <3>3, <4>2
      <4>4. Belongs(u, j, w) <=> Named("subsys", a, w) /\ (u = "port" \/ v = w)
        BY <2>2, <3>7, <4>1, BelongsIs, RowShapes
      <4>5. Belongs(u, j, w)' <=> Named("subsys", a, w)' /\ (u = "port" \/ v = w)
        BY <3>1, <3>7, <4>1, BelongsIs, RowShapes
      <4>6. QED
        BY <4>3, <4>4, <4>5
    <3>8. QED
      BY <3>4, <3>5, <3>6, <3>7 DEF Tables
  <2>3. QED
    BY <2>1, <2>2
<1>5. QED
  BY <1>2, <1>3, <1>4

\* A row that is erased takes with it what refers to it, which is its volume's; whose the
\* others are stays.
LEMMA ErasedOwners ==
  ASSUME Types, RowsAreSound, NEW t \in NamedTables, NEW i \in Ids, Erases(t, i),
         NEW u \in Tables, NEW j, NEW w
  PROVE  /\ Belongs(u, j, w)' => Belongs(u, j, w) /\ (u # t \/ j # i)
         /\ Belongs(u, j, w) =>
              \/ Belongs(u, j, w)'
              \/ /\ table'[u][j] = (IF reuse THEN Free ELSE Spent)
                 /\ \A v : Belongs(t, i, v) => w = v
         /\ j \in Rows(u)' => j \in Rows(u) /\ table'[u][j] = table[u][j]
<1> DEFINE Hit(x, y) == (x = t /\ y = i) \/ RefersTo(x, y, t, i)
<1>1. \A x \in Tables : \A y \in Ids :
        table'[x][y] = IF Hit(x, y) THEN IF reuse THEN Free ELSE Spent ELSE table[x][y]
  BY DEF Erases
<1> HIDE DEF Hit
<1>2. \A x \in Tables : \A y : /\ y \in Rows(x)' <=> y \in Rows(x) /\ ~ Hit(x, y)
                               /\ y \in Rows(x)' => table'[x][y] = table[x][y]
  BY <1>1, RowsAre
<1>3. \A x \in Tables : \A y, z : Named(x, y, z)' <=> Named(x, y, z) /\ ~ Hit(x, y)
  BY <1>2 DEF Named
<1>4. {"target", "extent", "subsys", "lun", "namespace", "port"} \subseteq Tables
  BY DEF Tables
<1>5. CASE j \notin Rows(u)
  BY <1>2, <1>5 DEF Belongs
<1>6. CASE j \in Rows(u)
  <2>1. PICK v \in Volumes : Belongs(u, j, v)
    BY <1>6 DEF RowsAreSound
  <2>2. j \in Rows(u)' => table'[u][j] = table[u][j]
    BY <1>2
  <2>3. ~ Hit(u, j) => (Belongs(u, j, w)' <=> Belongs(u, j, w))
    <3>1. SUFFICES ASSUME ~ Hit(u, j), j \in Rows(u)', table'[u][j] = table[u][j]
                   PROVE  Belongs(u, j, w)' <=> Belongs(u, j, w)
      BY <1>2, <1>6
    <3>2. CASE u \in {"nfs", "smb", "extent", "subsys"}
      BY <1>6, <3>1, <3>2, BelongsIs
    <3>3. CASE u = "target"
      BY <1>6, <3>1, <3>3, BelongsIs
    <3>4. CASE u = "lun"
      <4>1. PICK a, b \in Ids : /\ table["lun"][j] = <<a, b>>
                                /\ Named("target", a, v) /\ Named("extent", b, v)
        BY <2>1, <3>4, BelongsIs
      <4>2. table["lun"][j][1] = a /\ table["lun"][j][2] = b
        BY <4>1, RowShapes
      <4>3. ~ Hit("target", a) /\ ~ Hit("extent", b)
        BY <1>6, <3>1, <3>4, <4>2 DEF Hit, RefersTo
      <4>4. \A z : /\ Named("target", a, z)' <=> Named("target", a, z)
                   /\ Named("extent", b, z)' <=> Named("extent", b, z)
        BY <1>3, <1>4, <4>3
      <4>5. Belongs(u, j, w) <=> Named("target", a, w) /\ Named("extent", b, w)
        BY <1>6, <3>4, <4>1, BelongsIs, RowShapes
      <4>6. Belongs(u, j, w)' <=> Named("target", a, w)' /\ Named("extent", b, w)'
        BY <3>1, <3>4, <4>1, BelongsIs, RowShapes
      <4>7. QED
        BY <4>4, <4>5, <4>6
    <3>5. CASE u \in {"namespace", "port"}
      <4>1. PICK a \in Ids : /\ table[u][j] = IF u = "port" THEN <<a>> ELSE <<v, a>>
                             /\ Named("subsys", a, v)
        BY <2>1, <3>5, BelongsIs
      <4>2. IF u = "port" THEN table[u][j][1] = a ELSE table[u][j][2] = a
        BY <4>1, RowShapes
      <4>3. ~ Hit("subsys", a)
        BY <1>6, <3>1, <3>5, <4>2 DEF Hit, RefersTo
      <4>4. \A z : Named("subsys", a, z)' <=> Named("subsys", a, z)
        BY <1>3, <1>4, <4>3
      <4>5. Belongs(u, j, w) <=> Named("subsys", a, w) /\ (u = "port" \/ v = w)
        BY <1>6, <3>5, <4>1, BelongsIs, RowShapes
      <4>6. Belongs(u, j, w)' <=> Named("subsys", a, w)' /\ (u = "port" \/ v = w)
        BY <3>1, <3>5, <4>1, BelongsIs, RowShapes
      <4>7. QED
        BY <4>4, <4>5, <4>6
    <3>6. QED
      BY <3>2, <3>3, <3>4, <3>5 DEF Tables
  <2>4. ASSUME Hit(u, j)
        PROVE  /\ ~ Belongs(u, j, w)'
               /\ table'[u][j] = (IF reuse THEN Free ELSE Spent)
               /\ Belongs(u, j, w) => \A x : Belongs(t, i, x) => w = x
    <3>1. ~ Belongs(u, j, w)'
      BY <1>2, <2>4 DEF Belongs
    <3>2. table'[u][j] = (IF reuse THEN Free ELSE Spent)
      BY <1>1, <1>6, <2>4 DEF Rows
    <3>3. ASSUME Belongs(u, j, w), NEW x, Belongs(t, i, x) PROVE w = x
      <4>1. CASE u = t /\ j = i
        BY <3>3, <4>1, OneOwner
      <4>2. CASE RefersTo(u, j, t, i)
        <5>1. table[t][i][1] = x
          BY <3>3, NamedIs DEF Named
        <5>2. CASE u = "lun"
          <6>1. PICK a, b \in Ids : /\ table["lun"][j] = <<a, b>>
                                    /\ Named("target", a, w) /\ Named("extent", b, w)
            BY <3>3, <5>2, BelongsIs
          <6>2. (t = "target" /\ a = i) \/ (t = "extent" /\ b = i)
            BY <4>2, <5>2, <6>1, RowShapes DEF RefersTo
          <6>3. QED
            BY <5>1, <6>1, <6>2 DEF Named
        <5>3. CASE u \in {"namespace", "port"}
          <6>1. PICK a \in Ids : /\ table[u][j] = IF u = "port" THEN <<a>> ELSE <<w, a>>
                                 /\ Named("subsys", a, w)
            BY <3>3, <5>3, BelongsIs
          <6>2. t = "subsys" /\ a = i
            BY <4>2, <5>3, <6>1, RowShapes DEF RefersTo
          <6>3. QED
            BY <5>1, <6>1, <6>2 DEF Named
        <5>4. QED
          BY <4>2, <5>2, <5>3 DEF RefersTo
      <4>3. QED
        BY <2>4, <4>1, <4>2 DEF Hit
    <3>4. QED
      BY <3>1, <3>2, <3>3
  <2>5. u = t /\ j = i => Hit(u, j)
    BY DEF Hit
  <2>6. QED
    BY <1>6, <2>2, <2>3, <2>4, <2>5
<1>7. QED
  BY <1>5, <1>6

\* A target that gets its groups is its volume's as before.
LEMMA GroupedOwners ==
  ASSUME Types, RowsAreSound, NEW i \in Rows("target"),
         Inserts("target", i, <<table["target"][i][1], TRUE>>), NEW u \in Tables, NEW j, NEW w
  PROVE  /\ Belongs(u, j, w)' <=> Belongs(u, j, w)
         /\ j \in Rows(u)' <=> j \in Rows(u)
<1>1. i \in Ids /\ "target" \in Tables /\ "extent" \in Tables /\ "subsys" \in Tables
  BY DEF Rows, Tables
<1>2. \A x \in Tables : \A y \in Ids :
        table'[x][y] = IF x = "target" /\ y = i THEN <<table["target"][i][1], TRUE>>
                       ELSE table[x][y]
  BY DEF Inserts
<1>3. \A x \in Tables : \A y : y \in Rows(x)' <=> y \in Rows(x)
  <2>1. ASSUME NEW x \in Tables, NEW y, y \in Ids, x # "target" \/ y # i
        PROVE  y \in Rows(x)' <=> y \in Rows(x)
    BY <1>2, <2>1, RowsAre
  <2>2. i \in Rows("target")'
    BY <1>1, <1>2, RowsAre, RowShapes
  <2>3. QED
    BY <2>1, <2>2, RowsAre
<1>4. \A x \in Tables : \A y : y \in Rows(x) /\ x # "target" => table'[x][y] = table[x][y]
  BY <1>2 DEF Rows
<1>5. \A x \in Tables : \A y, z : Named(x, y, z)' <=> Named(x, y, z)
  <2>1. table'["target"][i][1] = table["target"][i][1]
    BY <1>1, <1>2, RowShapes
  <2>2. \A x \in Tables : \A y : y \in Rows(x) => table'[x][y][1] = table[x][y][1]
    BY <1>2, <2>1 DEF Rows
  <2>3. QED
    BY <1>3, <2>2 DEF Named
<1>6. CASE u = "target"
  <2>1. ASSUME j = i PROVE Belongs(u, j, w)' <=> Belongs(u, j, w)
    <3>1. Named(u, j, w) => Belongs(u, j, w)
      BY <1>6, NamedIs DEF NamedTables
    <3>2. Belongs(u, j, w) => Named(u, j, w)
      BY <1>6, NamedIs DEF NamedTables
    <3>3. Belongs(u, j, w)' => Named(u, j, w)'
      BY <1>6, NamedIs DEF NamedTables
    <3>4. table'["target"][j] = <<table["target"][i][1], TRUE>>
      BY <1>1, <1>2, <2>1
    <3>5. ASSUME Named(u, j, w) PROVE Belongs(u, j, w)'
      <4>1. /\ j \in Rows("target")' /\ table["target"][i][1] = w
            /\ table'["target"][j] = <<w, TRUE>>
        BY <1>3, <1>6, <2>1, <3>4, <3>5 DEF Named
      <4>2. \E g \in BOOLEAN : table'["target"][j] = <<w, g>>
        BY <4>1
      <4>3. Belongs("target", j, w)'
        BY <4>1, <4>2, BelongsIs
      <4>4. QED
        BY <1>6, <4>3
    <3>6. QED
      BY <1>5, <3>1, <3>2, <3>3, <3>5
  <2>2. ASSUME j # i PROVE Belongs(u, j, w)' <=> Belongs(u, j, w)
    <3>1. j \in Rows("target") => table'["target"][j] = table["target"][j]
      BY <1>1, <1>2, <2>2 DEF Rows
    <3>2. QED
      BY <1>3, <1>6, <3>1, BelongsIs
  <2>3. QED
    BY <1>3, <2>1, <2>2
<1>7. CASE u \in {"nfs", "smb", "extent", "subsys"}
  BY <1>3, <1>4, <1>7, BelongsIs
<1>8. CASE u = "lun"
  <2>1. j \in Rows("lun") => table'["lun"][j] = table["lun"][j]
    BY <1>4, <1>8
  <2>2. \A a, z : /\ Named("target", a, z)' <=> Named("target", a, z)
                  /\ Named("extent", a, z)' <=> Named("extent", a, z)
    BY <1>1, <1>5
  <2>3. QED
    BY <1>3, <1>8, <2>1, <2>2, BelongsIs
<1>9. CASE u \in {"namespace", "port"}
  <2>1. j \in Rows(u) => table'[u][j] = table[u][j]
    BY <1>4, <1>9
  <2>2. \A a, z : Named("subsys", a, z)' <=> Named("subsys", a, z)
    BY <1>1, <1>5
  <2>3. QED
    BY <1>3, <1>9, <2>1, <2>2, BelongsIs
<1>10. QED
  BY <1>6, <1>7, <1>8, <1>9 DEF Tables

\* How the tables change.
LEMMA TableChanges ==
  ASSUME Types, [Next]_vars
  PROVE  \/ table' = table
         \/ \E r \in Requests : DoesSetGroups(r)
         \/ \E r \in Requests : \E t \in Tables : Erasing(r, t) \/ \E i \in Ids : Posting(r, t, i)
<1>1. ASSUME NEW r \in Requests, HalfPosts(r) PROVE \E i \in Ids : Posting(r, "target", i)
  BY <1>1 DEF HalfPosts, Posting, Stalls, Used
<1>2. ASSUME NEW r \in Requests, NEW t \in Tables, DoesPost(r, t), table' # table
      PROVE  \E i \in Ids : Posting(r, t, i)
  BY <1>2 DEF DoesPost, Posting, Moves
<1>3. ASSUME NEW r \in Requests, NEW t \in Tables, DoesDeleteRow(r, t), table' # table
      PROVE  Erasing(r, t)
  BY <1>3 DEF DoesDeleteRow, Erasing, Moves
<1>4. ASSUME NEW r \in Requests, NEW t \in Tables, Repeats(r, t)
      PROVE  Erasing(r, t) \/ \E i \in Ids : Posting(r, t, i)
  BY <1>4 DEF Repeats, Erasing, Posting, StaysPut
<1>5. "target" \in Tables
  BY DEF Tables
<1>6. CASE table' # table
  <2>1. PICK r \in Requests :
          \/ HalfPosts(r) \/ DoesSetGroups(r)
          \/ \E t \in Tables : DoesPost(r, t) \/ DoesDeleteRow(r, t) \/ Repeats(r, t)
    BY <1>6, PoolSteps
  <2>2. QED
    BY <1>1, <1>2, <1>3, <1>4, <1>5, <1>6, <2>1
<1>7. QED
  BY <1>6

\* The row that a creation asks for.
LEMMA RowIs ==
  ASSUME Types, NEW r \in Requests, ShareStands(r), NEW t \in Tables, NEW v \in Volumes,
         Creates(r, v), pc[r] = t, t \in Used
  PROVE  LET ids == mem[r].ids IN
         /\ t \in {"nfs", "smb", "extent", "subsys"} => RowOf(r, t) = <<v>>
         /\ t = "target" => RowOf(r, t) = <<v, TRUE>>
         /\ t = "lun" => /\ RowOf(r, t) = <<ids["target"], ids["extent"]>>
                         /\ Belongs("target", ids["target"], v)
                         /\ Belongs("extent", ids["extent"], v)
         /\ t = "namespace" => /\ RowOf(r, t) = <<v, ids["subsys"]>>
                               /\ Belongs("subsys", ids["subsys"], v)
         /\ t = "port" => RowOf(r, t) = <<ids["subsys"]>> /\ Belongs("subsys", ids["subsys"], v)
<1>1. SetupIs /\ Is(r, "CreateVolume") /\ VolumeId(call[r]) = v /\ kind \in Kinds
  BY ForVolumes, SetupsAre DEF Types
<1>2. Mine(r) = v
  BY <1>1 DEF Mine
<1>3. /\ t \in {"nfs", "smb", "extent", "subsys"} => RowOf(r, t) = <<v>>
      /\ t = "target" => RowOf(r, t) = <<v, TRUE>>
      /\ t = "lun" => RowOf(r, t) = <<mem[r].ids["target"], mem[r].ids["extent"]>>
      /\ t = "namespace" => RowOf(r, t) = <<v, mem[r].ids["subsys"]>>
      /\ t = "port" => RowOf(r, t) = <<mem[r].ids["subsys"]>>
  BY <1>2 DEF RowOf, NfsShare, SmbShare, Target, Extent, Lun, Subsystem, Namespace, Port
<1>4. \A u \in Used : pc[r] \in Got(u) => Belongs(u, mem[r].ids[u], v)
  BY <1>1 DEF ShareStands, Is
<1>5. t = "lun" => "target" \in Used /\ "extent" \in Used
  BY <1>1 DEF Used, Kinds
<1>6. t \in {"namespace", "port"} => "subsys" \in Used
  BY <1>1 DEF Used, Kinds
<1>7. /\ t = "lun" => pc[r] \in Got("target") /\ pc[r] \in Got("extent")
      /\ t \in {"namespace", "port"} => pc[r] \in Got("subsys")
  BY DEF Got
<1>8. QED
  BY <1>3, <1>4, <1>5, <1>6, <1>7

\* The row that is found when the server has one in the way.
LEMMA FoundIs ==
  ASSUME Types, RowsAreSound, NEW r \in Requests, ShareStands(r), NEW t \in Tables,
         NEW v \in Volumes, Creates(r, v), pc[r] = t, t \in Used, NEW i,
         i \in Conflicts(t, RowOf(r, t)), Same(t, table[t][i], RowOf(r, t))
  PROVE  Belongs(t, i, v)
<1>1. i \in Rows(t)
  BY DEF Conflicts
<1>2. \A u \in {"target", "extent", "subsys"} : \A a :
        Belongs(u, a, v) => Named(u, a, v) /\ a \in Ids
  BY NamedIs DEF NamedTables, Named, Rows
<1>3. CASE t \in {"nfs", "smb", "extent", "subsys"}
  <2>1. RowOf(r, t) = <<v>>
    BY <1>3, RowIs
  <2>2. table[t][i] = <<v>>
    BY <1>3, <2>1 DEF Same
  <2>3. QED
    BY <1>1, <1>3, <2>2, BelongsIs
<1>4. CASE t = "target"
  <2>1. table[t][i][1] = v
    <3>1. RowOf(r, t) = <<v, TRUE>>
      BY <1>4, RowIs
    <3>2. table[t][i][1] = RowOf(r, t)[1]
      BY <1>4 DEF Same
    <3>3. QED
      BY <3>1, <3>2, RowShapes
  <2>2. Named(t, i, v) /\ t \in NamedTables
    BY <1>1, <1>4, <2>1 DEF Named, NamedTables
  <2>3. QED
    BY <2>2, NamedIs
<1>5. CASE t = "lun"
  <2>1. /\ table[t][i] = <<mem[r].ids["target"], mem[r].ids["extent"]>>
        /\ Belongs("target", mem[r].ids["target"], v) /\ Belongs("extent", mem[r].ids["extent"], v)
    BY <1>5, RowIs DEF Same
  <2>2. QED
    BY <1>1, <1>2, <1>5, <2>1, BelongsIs
<1>6. CASE t = "namespace"
  <2>1. table[t][i] = <<v, mem[r].ids["subsys"]>> /\ Belongs("subsys", mem[r].ids["subsys"], v)
    BY <1>6, RowIs DEF Same
  <2>2. QED
    BY <1>1, <1>2, <1>6, <2>1, BelongsIs
<1>7. CASE t = "port"
  <2>1. table[t][i] = <<mem[r].ids["subsys"]>> /\ Belongs("subsys", mem[r].ids["subsys"], v)
    BY <1>7, RowIs DEF Same
  <2>2. QED
    BY <1>1, <1>2, <1>7, <2>1, BelongsIs
<1>8. QED
  BY <1>3, <1>4, <1>5, <1>6, <1>7 DEF Tables

\* A row is only made when the volume has none in the table.
LEMMA NoneYet ==
  ASSUME Types, RowsAreSound, NEW r \in Requests, ShareStands(r), NEW t \in Tables,
         NEW v \in Volumes, Creates(r, v), pc[r] = t, t \in Used, Absent(r, t), NEW j,
         Belongs(t, j, v)
  PROVE  FALSE
<1>1. \A u \in {"target", "extent", "subsys"} : \A a :
        /\ Named(u, a, v) => Belongs(u, a, v)
        /\ Belongs(u, a, v) => Named(u, a, v) /\ a \in Ids
  BY NamedIs DEF NamedTables, Named, Rows
<1>2. j \in Rows(t) /\ j \notin Conflicts(t, RowOf(r, t))
  BY DEF Absent, Belongs
<1>3. ~ Conflicting(t, table[t][j], RowOf(r, t))
  BY <1>2 DEF Conflicts
<1>4. CASE t \in NamedTables
  <2>1. table[t][j][1] = v
    BY <1>4, NamedIs DEF Named
  <2>2. RowOf(r, t)[1] = v
    <3>1. t \in {"nfs", "smb", "extent", "subsys"} \/ t = "target" \/ t = "namespace"
      BY <1>4 DEF NamedTables
    <3>2. CASE t \in {"nfs", "smb", "extent", "subsys"}
      <4>1. RowOf(r, t) = <<v>>
        BY <3>2, RowIs
      <4>2. QED
        BY <4>1, RowShapes
    <3>3. CASE t = "target"
      <4>1. RowOf(r, t) = <<v, TRUE>>
        BY <3>3, RowIs
      <4>2. QED
        BY <4>1, RowShapes
    <3>4. CASE t = "namespace"
      <4>1. RowOf(r, t) = <<v, mem[r].ids["subsys"]>>
        BY <3>4, RowIs
      <4>2. QED
        BY <4>1, RowShapes
    <3>5. QED
      BY <3>1, <3>2, <3>3, <3>4
  <2>3. QED
    BY <1>3, <1>4, <2>1, <2>2 DEF Conflicting, NamedTables
<1>5. CASE t = "lun"
  <2>1. PICK a, b \in Ids : table["lun"][j] = <<a, b>> /\ Named("target", a, v)
    BY <1>5, BelongsIs
  <2>2. Belongs("target", a, v) /\ "target" \in Tables
    BY <1>1, <2>1 DEF Tables
  <2>3. /\ RowOf(r, t) = <<mem[r].ids["target"], mem[r].ids["extent"]>>
        /\ Belongs("target", mem[r].ids["target"], v)
    BY <1>5, RowIs
  <2>4. a = mem[r].ids["target"]
    BY <1>1, <2>2, <2>3 DEF RowsAreSound
  <2>5. table[t][j][1] = a /\ RowOf(r, t)[1] = mem[r].ids["target"]
    BY <1>5, <2>1, <2>3, RowShapes
  <2>6. QED
    BY <1>3, <1>5, <2>4, <2>5 DEF Conflicting
<1>6. CASE t = "port"
  <2>1. PICK a \in Ids : table["port"][j] = <<a>> /\ Named("subsys", a, v)
    BY <1>6, BelongsIs
  <2>2. Belongs("subsys", a, v) /\ "subsys" \in Tables
    BY <1>1, <2>1 DEF Tables
  <2>3. /\ RowOf(r, t) = <<mem[r].ids["subsys"]>>
        /\ Belongs("subsys", mem[r].ids["subsys"], v)
    BY <1>6, RowIs
  <2>4. a = mem[r].ids["subsys"]
    BY <1>1, <2>2, <2>3 DEF RowsAreSound
  <2>5. QED
    BY <1>3, <1>6, <2>1, <2>3, <2>4 DEF Conflicting
<1>7. QED
  BY <1>4, <1>5, <1>6 DEF Tables, NamedTables

\* The row that is made: what is in the table then, and that it is a row.
LEMMA RowMade ==
  ASSUME Types, NEW r \in Requests, ShareStands(r), NEW t \in Tables, NEW i \in Ids,
         Posting(r, t, i), NEW v \in Volumes, Creates(r, v)
  PROVE  \E row : /\ Inserts(t, i, row) /\ table[t][i] = Free /\ row \notin {Free, Spent}
                  /\ row = RowOf(r, t) \/ (t = "target" /\ row = <<v, FALSE>>)
<1>1. Mine(r) = v /\ pc[r] = t /\ t \in Used /\ table[t][i] = Free
  BY DEF Posting, Mine, Creates
<1>2. PICK row : /\ Inserts(t, i, row)
                 /\ row = RowOf(r, t) \/ (t = "target" /\ row = <<v, FALSE>>)
  BY <1>1 DEF Posting
<1>3. \E a, b : row = <<a>> \/ row = <<a, b>>
  <2>1. CASE t = "target" /\ row = <<v, FALSE>>
    BY <2>1
  <2>2. CASE row = RowOf(r, t)
    <3>1. CASE t \in {"nfs", "smb", "extent", "subsys"}
      <4>1. RowOf(r, t) = <<v>>
        BY <1>1, <3>1, RowIs
      <4>2. QED
        BY <2>2, <4>1
    <3>2. CASE t = "target"
      <4>1. RowOf(r, t) = <<v, TRUE>>
        BY <1>1, <3>2, RowIs
      <4>2. QED
        BY <2>2, <4>1
    <3>3. CASE t = "lun"
      <4>1. RowOf(r, t) = <<mem[r].ids["target"], mem[r].ids["extent"]>>
        BY <1>1, <3>3, RowIs
      <4>2. QED
        BY <2>2, <4>1
    <3>4. CASE t = "namespace"
      <4>1. RowOf(r, t) = <<v, mem[r].ids["subsys"]>>
        BY <1>1, <3>4, RowIs
      <4>2. QED
        BY <2>2, <4>1
    <3>5. CASE t = "port"
      <4>1. RowOf(r, t) = <<mem[r].ids["subsys"]>>
        BY <1>1, <3>5, RowIs
      <4>2. QED
        BY <2>2, <4>1
    <3>6. QED
      BY <3>1, <3>2, <3>3, <3>4, <3>5 DEF Tables
  <2>3. QED
    BY <1>2, <2>1, <2>2
<1>4. row \notin {Free, Spent}
  BY <1>3, RowShapes
<1>5. QED
  BY <1>1, <1>2, <1>4

\* The row that is made belongs to the volume.
LEMMA MadeBelongs ==
  ASSUME Types, RowsAreSound, NEW r \in Requests, ShareStands(r), NEW t \in Tables, NEW i \in Ids,
         NEW v \in Volumes, Creates(r, v), pc[r] = t, t \in Used,
         NEW row, table'[t][i] = row, i \in Rows(t)',
         \A u \in Tables : \A j, w : Named(u, j, w) => Named(u, j, w)',
         row = RowOf(r, t) \/ (t = "target" /\ row = <<v, FALSE>>)
  PROVE  Belongs(t, i, v)'
<1>1. \A u \in {"target", "extent", "subsys"} : \A a :
        Belongs(u, a, v) => Named(u, a, v)' /\ a \in Ids
  BY NamedIs DEF NamedTables, Named, Rows, Tables
<1>2. CASE t \in {"nfs", "smb", "extent", "subsys"}
  <2>1. row = <<v>>
    BY <1>2, RowIs
  <2>2. QED
    BY <1>2, <2>1, BelongsIs
<1>3. CASE t = "target"
  <2>1. row = <<v, TRUE>> \/ row = <<v, FALSE>>
    BY <1>3, RowIs
  <2>2. QED
    BY <1>3, <2>1, BelongsIs
<1>4. CASE t = "lun"
  <2>1. PICK a, b : row = <<a, b>> /\ Belongs("target", a, v) /\ Belongs("extent", b, v)
    <3>1. /\ RowOf(r, t) = <<mem[r].ids["target"], mem[r].ids["extent"]>>
          /\ Belongs("target", mem[r].ids["target"], v)
          /\ Belongs("extent", mem[r].ids["extent"], v)
      BY <1>4, RowIs
    <3>2. QED
      BY <1>4, <3>1
  <2>2. a \in Ids /\ b \in Ids /\ Named("target", a, v)' /\ Named("extent", b, v)'
    BY <1>1, <2>1
  <2>3. QED
    BY <1>4, <2>1, <2>2, BelongsIs
<1>5. CASE t = "namespace"
  <2>1. PICK a : row = <<v, a>> /\ Belongs("subsys", a, v)
    <3>1. RowOf(r, t) = <<v, mem[r].ids["subsys"]>> /\ Belongs("subsys", mem[r].ids["subsys"], v)
      BY <1>5, RowIs
    <3>2. QED
      BY <1>5, <3>1
  <2>2. a \in Ids /\ Named("subsys", a, v)'
    BY <1>1, <2>1
  <2>3. QED
    BY <1>5, <2>1, <2>2, BelongsIs
<1>6. CASE t = "port"
  <2>1. PICK a : row = <<a>> /\ Belongs("subsys", a, v)
    BY <1>6, RowIs
  <2>2. a \in Ids /\ Named("subsys", a, v)'
    BY <1>1, <2>1
  <2>3. QED
    BY <1>6, <2>1, <2>2, BelongsIs
<1>7. QED
  BY <1>2, <1>3, <1>4, <1>5, <1>6 DEF Tables

\* A row belongs to one volume, after a step too.
LEMMA OneOwnerNext ==
  ASSUME NEW t \in Tables, NEW i, NEW v, NEW w, Belongs(t, i, v)', Belongs(t, i, w)'
  PROVE  v = w
<1>1. CASE t \in NamedTables
  BY <1>1, NamedIs DEF Named
<1>2. CASE t = "lun"
  <2>1. PICK a, b \in Ids : table'["lun"][i] = <<a, b>> /\ Named("target", a, v)'
    BY <1>2, BelongsIs
  <2>2. PICK c, d \in Ids : table'["lun"][i] = <<c, d>> /\ Named("target", c, w)'
    BY <1>2, BelongsIs
  <2>3. a = c
    BY <2>1, <2>2, RowShapes
  <2>4. QED
    BY <2>1, <2>2, <2>3 DEF Named
<1>3. CASE t = "port"
  <2>1. PICK a \in Ids : table'["port"][i] = <<a>> /\ Named("subsys", a, v)'
    BY <1>3, BelongsIs
  <2>2. PICK c \in Ids : table'["port"][i] = <<c>> /\ Named("subsys", c, w)'
    BY <1>3, BelongsIs
  <2>3. a = c
    BY <2>1, <2>2, RowShapes
  <2>4. QED
    BY <2>1, <2>2, <2>3 DEF Named
<1>4. QED
  BY <1>1, <1>2, <1>3 DEF Tables, NamedTables

\* A row is made for a volume that has none, by its creation.
LEMMA PostedIs ==
  ASSUME Types, Control, VolumesAreSound, RowsAreSound,
         NEW r \in Requests, ShareStands(r), NEW t \in Tables, NEW i \in Ids, Posting(r, t, i)
  PROVE  \E v \in Volumes : Posted(r, t, i, v)
<1>1. PICK v \in Volumes : v = VolumeId(call[r])
  BY ForVolumes DEF Types
<1>2. /\ SetupIs /\ Creates(r, v) /\ Running(r) /\ pc[r] = t /\ t \in Used
      /\ Is(r, "CreateVolume") /\ kind \in Kinds /\ ds' = ds /\ Absent(r, t)
  BY <1>1, ForVolumes, SetupsAre DEF Posting, Types
<1>3. ~ VolumeUnwanted(v)
  BY <1>2, CreationIsAlone
<1>4. Vol(v) \in DOMAIN ds /\ ds[Vol(v)].whole
  <2>1. pc[r] \in MadeSteps
    BY <1>2 DEF Used, Kinds, MadeSteps, Sharing
  <2>2. QED
    BY <1>1, <1>2, <2>1 DEF VolumesAreSound, VolumeStands, Receiving, Is
<1>5. \A j : ~ Belongs(t, j, v)
  BY <1>2, NoneYet
<1>6. PICK row : /\ Inserts(t, i, row) /\ table[t][i] = Free /\ row \notin {Free, Spent}
                 /\ row = RowOf(r, t) \/ (t = "target" /\ row = <<v, FALSE>>)
  <2>1. Creates(r, v)
    BY <1>2
  <2>2. QED
    BY <2>1, RowMade
<1>7. \A u \in Tables : \A j \in Ids :
        table'[u][j] = IF u = t /\ j = i THEN row ELSE table[u][j]
  BY <1>6 DEF Inserts
<1>8. \A u \in Tables : \A j : j \in Rows(u)' <=> (j \in Rows(u) \/ (u = t /\ j = i))
  BY <1>6, <1>7, RowsAre
<1>9. \A u \in Tables : \A j, w :
        /\ ~ Belongs(t, i, w)
        /\ Named(u, j, w) => Named(u, j, w)'
        /\ u # t \/ j # i => (Belongs(u, j, w)' <=> Belongs(u, j, w))
  BY <1>6, InsertedOwners
<1>10. i \in Rows(t)' /\ table'[t][i] = row
  BY <1>7, <1>8
<1>11. Belongs(t, i, v)'
  BY <1>2, <1>6, <1>9, <1>10, MadeBelongs
<1>12. \A w : Belongs(t, i, w)' => w = v
  BY <1>11, OneOwnerNext
<1>13. \A u \in Tables : \A j, w :
         Belongs(u, j, w)' <=> (Belongs(u, j, w) \/ (u = t /\ j = i /\ w = v))
  BY <1>9, <1>11, <1>12
<1>14. QED
  BY <1>2, <1>3, <1>4, <1>5, <1>7, <1>8, <1>13 DEF Posted

\* A step at which a row is removed is one of its table.
LEMMA RemovingIs ==
  ASSUME kind \in Kinds, NEW t \in Used \ {"lun", "port"}
  PROVE  /\ Remove(t) \in Unsharing /\ Remove(t) \in Ahead(t) /\ t \in NamedTables
<1>1. t \in {"nfs", "smb", "target", "extent", "subsys", "namespace"}
  BY DEF Used, Kinds
<1>2. QED
  BY <1>1, TableStepsAre DEF Used, Kinds, Unsharing, Ahead, NamedTables

\* A deletion erases a row of its volume.
LEMMA ErasedIs ==
  ASSUME Types, Control, VolumesAreSound, SharesAreSound, NEW r \in Requests, NEW t \in Tables,
         Erasing(r, t)
  PROVE  \E v \in Volumes : \E i \in Ids : Erased(r, t, i, v)
<1>1. PICK v \in Volumes : v = VolumeId(call[r])
  BY ForVolumes DEF Types
<1>2. /\ SetupIs /\ kind \in Kinds /\ Deletes(r, v) /\ Running(r) /\ pc[r] = Remove(t)
      /\ t \in Used \ {"lun", "port"} /\ ds' = ds /\ Erases(t, mem[r].ids[t])
      /\ (DoesDeleteRow(r, t) \/ drops)
      /\ Is(r, "DeleteVolume") /\ call[r].volume = v
  BY <1>1, SetupsAre DEF Erasing, Types, VolumeId, Deletes, Is
<1>3. PICK i : i = mem[r].ids[t]
  OBVIOUS
<1>4. i \in Rows(t) /\ i \in Ids /\ i # 0 /\ table[t][i] # Spent
  BY <1>2, <1>3, IdsAssumption DEF Erases, Rows
<1>5. VolumeUnwanted(v)
  BY <1>2 DEF VolumeUnwanted, Sent, Running
<1>6. Remove(t) \in Unsharing /\ Remove(t) \in Ahead(t) /\ t \in NamedTables
  BY <1>2, RemovingIs
<1>7. /\ Vol(v) \in DOMAIN ds /\ i = ds[Vol(v)].ids[t]
      /\ reuse => Belongs(t, i, v)
  BY <1>2, <1>3, <1>6 DEF SharesAreSound, ShareGoes
<1>8. Belongs(t, i, v)
  BY <1>4, <1>7 DEF SharesAreSound, IdsAreSound
<1>9. \A u \in Tables : \A j, w :
         /\ Belongs(u, j, w)' => Belongs(u, j, w) /\ (u # t \/ j # i)
         /\ Belongs(u, j, w) =>
              \/ Belongs(u, j, w)'
              \/ w = v /\ table'[u][j] = (IF reuse THEN Free ELSE Spent)
         /\ j \in Rows(u)' => j \in Rows(u) /\ table'[u][j] = table[u][j]
  <2>1. t \in NamedTables /\ i \in Ids /\ Erases(t, i) /\ RowsAreSound
    BY <1>2, <1>3, <1>4, <1>6 DEF SharesAreSound
  <2>2. QED
    BY <1>8, <2>1, ErasedOwners
<1>10. QED
  BY <1>2, <1>3, <1>4, <1>5, <1>6, <1>7, <1>8, <1>9 DEF Erased

\* The rows change in no other way.
LEMMA RowsChange ==
  ASSUME Types, Control, VolumesAreSound, SharesAreSound, [Next]_vars
  PROVE  \/ table' = table
         \/ \E r \in Requests, i \in Ids :
              /\ DoesSetGroups(r) /\ i = mem[r].ids["target"] /\ i \in Rows("target")
              /\ Inserts("target", i, <<table["target"][i][1], TRUE>>)
         \/ \E r \in Requests, t \in Tables, i \in Ids, v \in Volumes :
              Posted(r, t, i, v) \/ Erased(r, t, i, v)
<1>1. ASSUME NEW r \in Requests, DoesSetGroups(r)
      PROVE  \E i \in Ids : /\ DoesSetGroups(r) /\ i = mem[r].ids["target"] /\ i \in Rows("target")
                            /\ Inserts("target", i, <<table["target"][i][1], TRUE>>)
  <2>1. PICK i : i = mem[r].ids["target"]
    OBVIOUS
  <2>2. i \in Rows("target") /\ Inserts("target", i, <<table["target"][i][1], TRUE>>)
    BY <1>1, <2>1 DEF DoesSetGroups
  <2>3. i \in Ids
    BY <2>2 DEF Rows
  <2>4. QED
    BY <1>1, <2>1, <2>2, <2>3
<1>2. ASSUME NEW r \in Requests, NEW t \in Tables, Erasing(r, t)
      PROVE  \E i \in Ids, v \in Volumes : Erased(r, t, i, v)
  BY <1>2, ErasedIs
<1>3. ASSUME NEW r \in Requests, NEW t \in Tables, NEW i \in Ids, Posting(r, t, i)
      PROVE  \E v \in Volumes : Posted(r, t, i, v)
  <2>1. RowsAreSound /\ ShareStands(r)
    BY DEF SharesAreSound
  <2>2. QED
    BY <1>3, <2>1, PostedIs
<1>4. CASE table' # table
  <2>1. PICK r \in Requests :
          \/ DoesSetGroups(r)
          \/ \E t \in Tables : Erasing(r, t) \/ \E i \in Ids : Posting(r, t, i)
    BY <1>4, TableChanges
  <2>2. CASE DoesSetGroups(r)
    BY <1>1, <2>2
  <2>3. CASE \E t \in Tables : Erasing(r, t) \/ \E i \in Ids : Posting(r, t, i)
    BY <1>2, <1>3, <2>3
  <2>4. QED
    BY <2>1, <2>2, <2>3
<1>5. QED
  BY <1>4

\* What becomes of one row of one volume.
LEMMA OwnersChange ==
  ASSUME Types, Control, VolumesAreSound, SharesAreSound, [Next]_vars,
         NEW v, NEW t \in Tables, NEW i
  PROVE  /\ Belongs(t, i, v) =>
              \/ Belongs(t, i, v)'
              \/ /\ VolumeUnwanted(v) /\ table'[t][i] = (IF reuse THEN Free ELSE Spent)
                 /\ \E r \in Requests, u \in Tables : \E j \in Ids : Erased(r, u, j, v)
         /\ Belongs(t, i, v)' =>
              Belongs(t, i, v) \/ \E r \in Requests : Posted(r, t, i, v)
         /\ i \in Rows(t)' => i \in Rows(t) \/ \E r \in Requests, w \in Volumes : Posted(r, t, i, w)
         /\ i \in Ids /\ table[t][i] = Spent => table'[t][i] = Spent
         /\ Belongs("target", i, v)' /\ table["target"][i] = <<v, TRUE>>
              => table'["target"][i] = <<v, TRUE>>
<1>1. "target" \in Tables /\ (i \in Rows(t) => i \in Ids) /\ RowsAreSound
      /\ (Belongs(t, i, v)' => i \in Ids) /\ (Belongs("target", i, v)' => i \in Ids)
  BY DEF Tables, Rows, SharesAreSound, Belongs
<1>2. CASE table' = table
  BY <1>2 DEF Belongs, Named, Rows
<1>3. ASSUME NEW r \in Requests, NEW j \in Rows("target"), j \in Ids, DoesSetGroups(r),
             Inserts("target", j, <<table["target"][j][1], TRUE>>)
      PROVE  /\ Belongs(t, i, v)' <=> Belongs(t, i, v)
             /\ i \in Rows(t)' <=> i \in Rows(t)
             /\ i \in Ids /\ table[t][i] = Spent => table'[t][i] = Spent
             /\ i \in Ids /\ table["target"][i] = <<v, TRUE>> => table'["target"][i] = <<v, TRUE>>
  <2>1. (Belongs(t, i, v)' <=> Belongs(t, i, v)) /\ (i \in Rows(t)' <=> i \in Rows(t))
    BY <1>1, <1>3, GroupedOwners
  <2>2. \A u \in Tables, k \in Ids :
           table'[u][k] = IF u = "target" /\ k = j THEN <<table["target"][j][1], TRUE>>
                          ELSE table[u][k]
    BY <1>3 DEF Inserts
  <2>3. table["target"][j] # Spent
    BY DEF Rows
  <2>4. table["target"][j] = <<v, TRUE>> => table["target"][j][1] = v
    BY RowShapes
  <2>5. QED
    BY <1>1, <2>1, <2>2, <2>3, <2>4
<1>4. ASSUME NEW r \in Requests, NEW u \in Tables, NEW j \in Ids, NEW w \in Volumes,
             Posted(r, u, j, w)
      PROVE  /\ Belongs(t, i, v) => Belongs(t, i, v)'
             /\ Belongs(t, i, v)' => Belongs(t, i, v) \/ Posted(r, t, i, v)
             /\ i \in Rows(t)' => i \in Rows(t) \/ Posted(r, t, i, w)
             /\ Posting(r, u, j)
  BY <1>4 DEF Posted
<1>5. ASSUME NEW r \in Requests, NEW u \in Tables, NEW j \in Ids, Posting(r, u, j)
      PROVE  /\ i \in Ids /\ table[t][i] = Spent => table'[t][i] = Spent
             /\ i \in Ids /\ table["target"][i] = <<v, TRUE>> => table'["target"][i] = <<v, TRUE>>
  <2>1. /\ table[u][j] = Free
        /\ \A x \in Tables, k \in Ids : x # u \/ k # j => table'[x][k] = table[x][k]
    BY <1>5 DEF Posting, Inserts
  <2>2. Free # Spent /\ Free # <<v, TRUE>>
    BY RowShapes
  <2>3. QED
    BY <1>1, <2>1, <2>2
<1>6. ASSUME NEW r \in Requests, NEW u \in Tables, NEW j \in Ids, NEW w \in Volumes,
             Erased(r, u, j, w)
      PROVE  /\ Belongs(t, i, v) =>
                  \/ Belongs(t, i, v)'
                  \/ v = w /\ table'[t][i] = (IF reuse THEN Free ELSE Spent)
             /\ Belongs(t, i, v)' => Belongs(t, i, v)
             /\ i \in Rows(t)' => i \in Rows(t)
             /\ i \in Rows("target")' => table'["target"][i] = table["target"][i]
             /\ VolumeUnwanted(w)
  BY <1>1, <1>6 DEF Erased
<1>7. ASSUME NEW r \in Requests, NEW u \in Tables, NEW j \in Ids, NEW w \in Volumes,
             Erased(r, u, j, w), i \in Ids, table[t][i] = Spent
      PROVE  table'[t][i] = Spent
  <2>1. i \notin Rows(t) /\ j \in Rows(u) /\ Erases(u, j)
    BY <1>7 DEF Rows, Erased, Erases
  <2>2. ~ (t = u /\ i = j) /\ ~ RefersTo(t, i, u, j)
    BY <2>1 DEF RefersTo
  <2>3. table'[t][i] = IF (t = u /\ i = j) \/ RefersTo(t, i, u, j)
                       THEN IF reuse THEN Free ELSE Spent ELSE table[t][i]
    BY <1>7, <2>1 DEF Erases
  <2>4. QED
    BY <1>7, <2>2, <2>3
<1>8. Belongs("target", i, v)' => i \in Rows("target")'
  BY DEF Belongs
<1>9. CASE \E r \in Requests, j \in Ids :
             /\ DoesSetGroups(r) /\ j = mem[r].ids["target"] /\ j \in Rows("target")
             /\ Inserts("target", j, <<table["target"][j][1], TRUE>>)
  BY <1>1, <1>3, <1>9
<1>10. CASE \E r \in Requests, u \in Tables, j \in Ids, w \in Volumes : Posted(r, u, j, w)
  BY <1>1, <1>4, <1>5, <1>10
<1>11. CASE \E r \in Requests, u \in Tables, j \in Ids, w \in Volumes : Erased(r, u, j, w)
  BY <1>1, <1>6, <1>7, <1>8, <1>11
<1>12. QED
  BY <1>2, <1>9, <1>10, <1>11, RowsChange

\* The rows of one volume refer to one another: it has none when it has none that is named
\* after it.
LEMMA FirstRows ==
  ASSUME RowsAreSound, NEW v, NEW t \in Tables, NEW i, Belongs(t, i, v)
  PROVE  \E u \in NamedTables \cap Tables : \E j \in Ids :
           Belongs(u, j, v) /\ (Forgotten(u, v) => Forgotten(t, v))
<1>1. i \in Ids
  BY DEF Belongs, Rows
<1>2. CASE t \in NamedTables
  BY <1>1, <1>2
<1>3. CASE t = "lun"
  <2>1. PICK a \in Ids : Named("target", a, v)
    BY <1>3, BelongsIs
  <2>2. QED
    BY <1>3, <2>1, NamedIs DEF NamedTables, Tables, Forgotten
<1>4. CASE t = "port"
  <2>1. PICK a \in Ids : Named("subsys", a, v)
    BY <1>4, BelongsIs
  <2>2. QED
    BY <1>4, <2>1, NamedIs DEF NamedTables, Tables, Forgotten
<1>5. QED
  BY <1>2, <1>3, <1>4 DEF Tables, NamedTables

\* What was taken for gone once stays so.
LEMMA ForgottenStays ==
  ASSUME Types, [Next]_vars, NEW t, NEW v, Forgotten(t, v)
  PROVE  Forgotten(t, v)'
BY ForwardIs DEF Forward, Worsens, Forgotten

\* A volume whose share was removed has no rows but those that were taken for gone.
LEMMA UnsharedIs ==
  ASSUME SharesAreSound, NEW q \in Requests, NEW v \in Volumes, Deletes(q, v), pc[q] \in Unshared,
         NEW t \in Tables, NEW i, Belongs(t, i, v)
  PROVE  Forgotten(t, v)
<1>2. PICK u \in NamedTables \cap Tables :
        \E j \in Ids : Belongs(u, j, v) /\ (Forgotten(u, v) => Forgotten(t, v))
  BY FirstRows DEF SharesAreSound
<1>3. u \in Used
  BY <1>2 DEF SharesAreSound, RowsAreSound, Belongs
<1>4. pc[q] \in Gone(u)
  BY <1>2 DEF Gone, NamedTables, Unshared
<1>5. QED
  BY <1>2, <1>3, <1>4 DEF SharesAreSound, ShareGoes, Deletes, Is

\* The volume of a row keeps its dataset, unless the row was taken for gone.
LEMMA OwnerStays ==
  ASSUME Types, SharesAreSound, [Next]_vars, NEW v \in Volumes, NEW t \in Tables, NEW i,
         Belongs(t, i, v), Vol(v) \in DOMAIN ds, ds[Vol(v)].whole
  PROVE  (Vol(v) \in DOMAIN ds' /\ ds'[Vol(v)].whole) \/ Forgotten(t, v)'
<1>1. Vol(v) \in DOMAIN ds' \/ Forgotten(t, v)'
  <2>1. SUFFICES ASSUME Vol(v) \notin DOMAIN ds' PROVE Forgotten(t, v)'
    OBVIOUS
  <2>2. PICK q \in Requests : Deletes(q, v) /\ DoesDestroyVolume(q)
    BY <2>1, LostVolume
  <2>3. pc[q] \in Unshared
    BY <2>2 DEF DoesDestroyVolume, Unshared
  <2>4. QED
    BY <2>2, <2>3, UnsharedIs, ForgottenStays
<1>2. QED
  BY <1>1, KeptVolume

\* Rows stay sound.
LEMMA RowsStaySound ==
  ASSUME Types, Control, VolumesAreSound, SharesAreSound, [Next]_vars
  PROVE  RowsAreSound'
<1>1. RowsAreSound /\ Used' = Used
  BY ForwardIs DEF SharesAreSound, Forward, Used
<1>2. ASSUME NEW t \in Tables, NEW i \in Rows(t)'
      PROVE  t \in Used /\ \E v \in Volumes :
               /\ Belongs(t, i, v)'
               /\ (Vol(v) \in DOMAIN ds' /\ ds'[Vol(v)].whole) \/ Forgotten(t, v)'
  <2>1. CASE i \in Rows(t)
    <3>1. t \in Used
      BY <1>1, <2>1 DEF RowsAreSound
    <3>2. PICK v \in Volumes :
            Belongs(t, i, v) /\ ((Vol(v) \in DOMAIN ds /\ ds[Vol(v)].whole) \/ Forgotten(t, v))
      BY <1>1, <2>1 DEF RowsAreSound
    <3>3. Belongs(t, i, v)'
      <4>1. table'[t][i] \notin {Free, Spent}
        BY RowsAre
      <4>2. QED
        BY <3>2, <4>1, OwnersChange
    <3>4. QED
      BY <3>1, <3>2, <3>3, OwnerStays, ForgottenStays
  <2>2. CASE i \notin Rows(t)
    <3>1. PICK r \in Requests, w \in Volumes : Posted(r, t, i, w)
      BY <2>2, OwnersChange
    <3>2. QED
      BY <3>1 DEF Posted
  <2>3. QED
    BY <2>1, <2>2
<1>3. ASSUME NEW t \in Tables, NEW v \in Volumes, NEW i \in Ids, NEW j \in Ids,
             Belongs(t, i, v)', Belongs(t, j, v)'
      PROVE  i = j
  <2>1. Belongs(t, i, v) \/ \E r \in Requests : Posted(r, t, i, v)
    BY <1>3, OwnersChange
  <2>2. Belongs(t, j, v) \/ \E r \in Requests : Posted(r, t, j, v)
    BY <1>3, OwnersChange
  <2>3. CASE Belongs(t, i, v) /\ Belongs(t, j, v)
    BY <1>1, <2>3 DEF RowsAreSound
  <2>4. ASSUME NEW r \in Requests, Posted(r, t, i, v) PROVE i = j
    BY <1>3, <2>4 DEF Posted
  <2>5. ASSUME NEW r \in Requests, Posted(r, t, j, v) PROVE i = j
    BY <1>3, <2>5 DEF Posted
  <2>6. QED
    BY <2>1, <2>2, <2>3, <2>4, <2>5
<1>4. QED
  BY <1>1, <1>2, <1>3 DEF RowsAreSound

\* A deletion that was asked for stays so.
LEMMA StaysUnwanted ==
  ASSUME Types, [Next]_vars, NEW v, VolumeUnwanted(v)
  PROVE  VolumeUnwanted(v)'
BY ForwardIs, CallsStay DEF VolumeUnwanted, Forward

\* A volume has its ids, each a row's or 0.
LEMMA IdsAreIds ==
  ASSUME Types
  PROVE  /\ \A d \in DOMAIN ds : ds[d].ids \in [Tables -> Ids0]
         /\ \A r \in Requests : mem[r].ids \in [Tables -> Ids0]
BY DEF Types, DatasetType, MemoryType

\* The place before an id is written has it.
LEMMA KeepingIs ==
  ASSUME kind \in Kinds, NEW t \in Used \ {"port"}
  PROVE  Keep(t) \in Got(t)
BY TableStepsAre DEF Got, Used, Kinds

\* How an id in a volume's properties comes about, and that it is not lost.
LEMMA IdsChange ==
  ASSUME Types, Control, VolumesAreSound, SharesAreSound, [Next]_vars, NEW v \in Volumes,
         Vol(v) \in DOMAIN ds', NEW t \in Tables
  PROVE  /\ \/ ds'[Vol(v)].ids[t] = 0
            \/ /\ Vol(v) \in DOMAIN ds
               /\ \/ ds'[Vol(v)].ids[t] = ds[Vol(v)].ids[t]
                  \/ \E q \in Requests :
                       /\ Creates(q, v) /\ Running(q) /\ DoesKeepId(q, t) /\ t \in Used \ {"port"}
                       /\ ds'[Vol(v)].ids[t] = mem[q].ids[t] /\ Belongs(t, mem[q].ids[t], v)
         /\ Vol(v) \in DOMAIN ds /\ ~ VolumeUnwanted(v) /\ ds[Vol(v)].ids[t] # 0
              => ds'[Vol(v)].ids[t] # 0
<1>1. CASE Vol(v) \notin DOMAIN ds
  <2>1. ds'[Vol(v)].ids = Unset
    BY <1>1, NewVolume
  <2>2. QED
    BY <1>1, <2>1 DEF Unset
<1>2. CASE Vol(v) \in DOMAIN ds
  <2>1. ds[Vol(v)].ids \in [Tables -> Ids0]
    BY <1>2, IdsAreIds
  <2>2. CASE ds'[Vol(v)].ids = ds[Vol(v)].ids
    BY <1>2, <2>2
  <2>3. ASSUME NEW q \in Requests, NEW u \in Tables, Running(q), DoesKeepId(q, u), Creates(q, v),
               ds'[Vol(v)].ids = [ds[Vol(v)].ids EXCEPT ![u] = mem[q].ids[u]]
        PROVE  /\ ds'[Vol(v)].ids[t] = IF t = u THEN mem[q].ids[u] ELSE ds[Vol(v)].ids[t]
               /\ u \in Used \ {"port"} /\ Belongs(u, mem[q].ids[u], v) /\ mem[q].ids[u] # 0
    <3>1. ds'[Vol(v)].ids[t] = IF t = u THEN mem[q].ids[u] ELSE ds[Vol(v)].ids[t]
      BY <2>1, <2>3
    <3>2. u \in Used \ {"port"} /\ pc[q] \in Got(u)
      BY <2>3, KeepingIs, SetupsAre DEF DoesKeepId, Types
    <3>3. Is(q, "CreateVolume") /\ VolumeId(call[q]) = v
      BY <2>3 DEF Creates
    <3>4. Belongs(u, mem[q].ids[u], v)
      BY <3>2, <3>3 DEF SharesAreSound, ShareStands, Is
    <3>5. QED
      BY <3>1, <3>2, <3>4, IdsAssumption DEF Belongs, Rows
  <2>4. ASSUME NEW q \in Requests, NEW u \in Tables, Running(q), Deletes(q, v),
               ds'[Vol(v)].ids = [ds[Vol(v)].ids EXCEPT ![u] = 0]
        PROVE  /\ ds'[Vol(v)].ids[t] = IF t = u THEN 0 ELSE ds[Vol(v)].ids[t]
               /\ VolumeUnwanted(v)
    BY <2>1, <2>4 DEF VolumeUnwanted, Running, Sent
  <2>5. \/ ds'[Vol(v)].ids = ds[Vol(v)].ids
        \/ \E q \in Requests, u \in Tables :
             /\ Running(q) /\ DoesKeepId(q, u) /\ Creates(q, v)
             /\ ds'[Vol(v)].ids = [ds[Vol(v)].ids EXCEPT ![u] = mem[q].ids[u]]
        \/ \E q \in Requests, u \in Tables :
             /\ Running(q) /\ Deletes(q, v)
             /\ ds'[Vol(v)].ids = [ds[Vol(v)].ids EXCEPT ![u] = 0]
    BY <1>2, KeptVolume
  <2>6. CASE \E q \in Requests, u \in Tables :
               /\ Running(q) /\ DoesKeepId(q, u) /\ Creates(q, v)
               /\ ds'[Vol(v)].ids = [ds[Vol(v)].ids EXCEPT ![u] = mem[q].ids[u]]
    BY <1>2, <2>3, <2>6
  <2>7. CASE \E q \in Requests, u \in Tables :
               /\ Running(q) /\ Deletes(q, v)
               /\ ds'[Vol(v)].ids = [ds[Vol(v)].ids EXCEPT ![u] = 0]
    BY <1>2, <2>4, <2>7
  <2>8. QED
    BY <2>2, <2>5, <2>6, <2>7
<1>3. QED
  BY <1>1, <1>2

\* What is said of the ids, after a step: id by id.
LEMMA IdsNext ==
  ASSUME NEW v,
         Vol(v) \in DOMAIN ds' =>
           /\ \A t \in Tables : \A i : i = ds'[Vol(v)].ids[t] /\ i # 0 =>
                /\ t \in Used'
                /\ Belongs(t, i, v)' \/ (VolumeUnwanted(v)' /\ (reuse' \/ table'[t][i] = Spent))
           /\ ~ VolumeUnwanted(v)' =>
                /\ ds'[Vol(v)].ids["lun"] # 0
                     => ds'[Vol(v)].ids["target"] # 0 /\ ds'[Vol(v)].ids["extent"] # 0
                /\ \A i : i = ds'[Vol(v)].ids["target"] /\ i # 0
                            => table'["target"][i] = <<v, TRUE>>
  PROVE  IdsAreSound(v)'
<1>1. \A t : \A i : i = ds'[Vol(v)].ids[t] =>
        (Belongs(t, i, v)' <=> Belongs(t, ds[Vol(v)].ids[t], v)')
  BY DEF Belongs, Named, Rows
<1>2. QED
  BY <1>1 DEF IdsAreSound

\* The ids stay sound.
LEMMA IdsStaySound ==
  ASSUME Types, Control, VolumesAreSound, SharesAreSound, [Next]_vars, NEW v \in Volumes
  PROVE  IdsAreSound(v)'
<1>1. SUFFICES ASSUME Vol(v) \in DOMAIN ds'
      PROVE  /\ \A t \in Tables : \A i : i = ds'[Vol(v)].ids[t] /\ i # 0 =>
                  /\ t \in Used'
                  /\ Belongs(t, i, v)' \/ (VolumeUnwanted(v)' /\ (reuse' \/ table'[t][i] = Spent))
             /\ ~ VolumeUnwanted(v)' =>
                  /\ ds'[Vol(v)].ids["lun"] # 0
                       => ds'[Vol(v)].ids["target"] # 0 /\ ds'[Vol(v)].ids["extent"] # 0
                  /\ \A i : i = ds'[Vol(v)].ids["target"] /\ i # 0
                              => table'["target"][i] = <<v, TRUE>>
  BY IdsNext
<1>2. /\ Used' = Used /\ reuse' = reuse /\ (VolumeUnwanted(v) => VolumeUnwanted(v)')
      /\ kind \in Kinds /\ {"target", "extent", "lun"} \subseteq Tables
  BY ForwardIs, StaysUnwanted, SetupsAre DEF Forward, Used, Types, Tables
<1>3. ASSUME NEW t \in Tables, NEW i, i = ds'[Vol(v)].ids[t], i # 0
      PROVE  /\ t \in Used /\ i \in Ids
             /\ Belongs(t, i, v) \/ (VolumeUnwanted(v) /\ (reuse \/ table[t][i] = Spent))
             /\ Belongs(t, i, v)' \/ (VolumeUnwanted(v) /\ (reuse \/ table'[t][i] = Spent))
  <2>1. /\ t \in Used /\ i \in Ids
        /\ Belongs(t, i, v) \/ (VolumeUnwanted(v) /\ (reuse \/ table[t][i] = Spent))
    <3>1. CASE Vol(v) \in DOMAIN ds /\ i = ds[Vol(v)].ids[t]
      BY <1>3, <3>1, IdsAreIds DEF SharesAreSound, IdsAreSound, Ids0
    <3>2. CASE \E q \in Requests : /\ t \in Used \ {"port"} /\ i = mem[q].ids[t]
                                   /\ Belongs(t, mem[q].ids[t], v)
      BY <3>2 DEF Belongs, Rows
    <3>3. QED
      BY <1>1, <1>3, <3>1, <3>2, IdsChange
  <2>2. QED
    BY <2>1, OwnersChange
<1>4. ASSUME ~ VolumeUnwanted(v)', ds'[Vol(v)].ids["lun"] # 0
      PROVE  ds'[Vol(v)].ids["target"] # 0 /\ ds'[Vol(v)].ids["extent"] # 0
  <2>1. Vol(v) \in DOMAIN ds /\ ~ VolumeUnwanted(v)
    BY <1>1, <1>2, <1>4, IdsChange
  <2>2. ds[Vol(v)].ids["target"] # 0 /\ ds[Vol(v)].ids["extent"] # 0
    <3>1. CASE ds[Vol(v)].ids["lun"] # 0
      BY <2>1, <3>1 DEF SharesAreSound, IdsAreSound
    <3>2. CASE ds[Vol(v)].ids["lun"] = 0
      <4>1. PICK q \in Requests : Creates(q, v) /\ DoesKeepId(q, "lun") /\ "lun" \in Used
        BY <1>1, <1>2, <1>4, <3>2, IdsChange
      <4>2. /\ pc[q] = "keep-lun" /\ Is(q, "CreateVolume") /\ VolumeId(call[q]) = v
            /\ {"target", "extent"} \subseteq Used \ {"port"}
        BY <1>2, <4>1, TableStepsAre DEF DoesKeepId, Creates, Used, Kinds
      <4>3. pc[q] \in Kept("target") /\ pc[q] \in Kept("extent")
        BY <4>2 DEF Kept
      <4>4. QED
        BY <4>2, <4>3 DEF SharesAreSound, ShareStands, Is
    <3>3. QED
      BY <3>1, <3>2
  <2>3. QED
    BY <1>1, <1>2, <2>1, <2>2, IdsChange
<1>5. ASSUME ~ VolumeUnwanted(v)', NEW i, i = ds'[Vol(v)].ids["target"], i # 0
      PROVE  table'["target"][i] = <<v, TRUE>>
  <2>1. Belongs("target", i, v)' /\ ~ VolumeUnwanted(v)
    BY <1>2, <1>3, <1>5
  <2>2. table["target"][i] = <<v, TRUE>>
    <3>1. CASE Vol(v) \in DOMAIN ds /\ i = ds[Vol(v)].ids["target"]
      BY <1>5, <2>1, <3>1 DEF SharesAreSound, IdsAreSound
    <3>2. CASE \E q \in Requests :
                 Creates(q, v) /\ DoesKeepId(q, "target") /\ i = mem[q].ids["target"]
      <4>1. PICK q \in Requests :
              Creates(q, v) /\ DoesKeepId(q, "target") /\ i = mem[q].ids["target"]
        BY <3>2
      <4>2. pc[q] = "keep-target" /\ Is(q, "CreateVolume") /\ VolumeId(call[q]) = v
        BY <4>1, TableStepsAre DEF DoesKeepId, Creates
      <4>3. QED
        BY <4>1, <4>2 DEF SharesAreSound, ShareStands, Is
    <3>3. QED
      BY <1>1, <1>2, <1>5, <3>1, <3>2, IdsChange
  <2>3. QED
    BY <1>2, <2>1, <2>2, OwnersChange
<1>6. QED
  BY <1>2, <1>3, <1>4, <1>5

\* What a handler that goes on remembers.
LEMMA Remembered ==
  ASSUME Types, [Next]_vars, NEW r \in Requests, Running(r)'
  PROVE  /\ \/ mem'[r].ids = mem[r].ids
            \/ DoesFindShare(r) \/ \E t \in Tables : DoesPost(r, t)
         /\ \/ mem'[r].origin = mem[r].origin /\ mem'[r].listed = mem[r].listed
            \/ DoesReadDataset(r)
<1> DEFINE AsIs(m) == m.ids = mem[r].ids /\ m.origin = mem[r].origin /\ m.listed = mem[r].listed
<1>1. DOMAIN mem = Requests /\ DOMAIN pc = Requests /\ mem[r] \in MemoryType
  BY DEF Types
<1>2. CASE mem' = mem
  BY <1>2
<1>3. ASSUME Restart PROVE FALSE
  BY <1>3, RestartIs DEF Running
<1>4. ASSUME NEW q \in Requests, \E p : pc' = [pc EXCEPT ![q] = p] /\ p \in {"pending", "done"},
             \E new : mem' = [mem EXCEPT ![q] = new]
      PROVE  AsIs(mem'[r])
  BY <1>1, <1>4 DEF Running
<1>5. ASSUME NEW q \in Requests, Reply(q) PROVE AsIs(mem'[r])
  BY <1>4, <1>5, ReplyIs
<1>6. ASSUME NEW q \in Requests, Stalls(q) PROVE AsIs(mem'[r])
  BY <1>4, <1>6 DEF Stalls
<1>7. ASSUME NEW q \in Requests, JobCloses(q) PROVE AsIs(mem'[r])
  <2>1. PICK d, state : JobIs(d, state)
    BY <1>7 DEF JobCloses
  <2>2. mem'[r] = mem[r] \/ mem'[r] = [mem[r] EXCEPT !.job = state]
    BY <2>1 DEF JobIs
  <2>3. QED
    BY <1>1, <2>2 DEF MemoryType
<1>8. ASSUME NEW q \in Requests, Works(q)
      PROVE  /\ \/ mem'[r].ids = mem[r].ids
                \/ DoesFindShare(r) \/ \E t \in Tables : DoesPost(r, t)
             /\ \/ mem'[r].origin = mem[r].origin /\ mem'[r].listed = mem[r].listed
                \/ DoesReadDataset(r)
  <2>1. CASE r # q
    BY <1>8, <2>1, WorksRemember
  <2>2. ASSUME DoesRunReplication(r) PROVE AsIs(mem'[r])
    <3>1. \E job : mem' = [mem EXCEPT ![r].job = job]
      BY <2>2 DEF DoesRunReplication
    <3>2. QED
      BY <1>1, <3>1 DEF MemoryType
  <2>3. ASSUME DoesFindShare(r)
        PROVE  mem'[r].origin = mem[r].origin /\ mem'[r].listed = mem[r].listed
    <3>1. mem' = mem \/ \E ids : mem' = [mem EXCEPT ![r].ids = ids]
      BY <2>3 DEF DoesFindShare
    <3>2. QED
      BY <1>1, <3>1 DEF MemoryType
  <2>4. ASSUME NEW t \in Tables, DoesPost(r, t)
        PROVE  mem'[r].origin = mem[r].origin /\ mem'[r].listed = mem[r].listed
    <3>1. \E i : mem' = [mem EXCEPT ![r].ids[t] = i]
      BY <2>4 DEF DoesPost
    <3>2. QED
      BY <1>1, <3>1 DEF MemoryType
  <2>5. ASSUME DoesReadDataset(r) PROVE mem'[r].ids = mem[r].ids
    <3>1. mem' = mem \/ \E o, l : mem' = [mem EXCEPT ![r].origin = o, ![r].listed = l]
      BY <2>5 DEF DoesReadDataset
    <3>2. QED
      BY <1>1, <3>1 DEF MemoryType
  <2>6. QED
    BY <1>2, <1>8, <2>1, <2>2, <2>3, <2>4, <2>5, WorksLearn
<1>9. ASSUME NEW q \in Requests, Start(q) PROVE mem' = mem
  BY <1>9, StartIs
<1>10. ASSUME NEW q \in Requests, NEW t \in Tables, Repeats(q, t) PROVE mem' = mem
  BY <1>10 DEF Repeats, StaysPut
<1>11. UNCHANGED vars => mem' = mem
  BY DEF vars
<1>12. QED
  BY <1>2, <1>3, <1>5, <1>6, <1>7, <1>8, <1>9, <1>10, <1>11, StepsOfNext DEF HalfPosts

\* The steps of a creation at which it has an id, has written one, and has the port.
LEMMA GotBy ==
  ASSUME Types, [Next]_vars, NEW r \in Requests, NEW t \in Used, pc'[r] \in Got(t)
  PROVE  t \in Tables /\ (pc[r] \in Got(t) \/ DoesPost(r, t))
<1>1. t \in Tables /\ kind \in Kinds
  BY SetupsAre, TableNextAre DEF Types
<1>2. CASE pc'[r] = pc[r]
  BY <1>1, <1>2
<1>3. CASE pc'[r] # pc[r]
  <2>1. CASE t \in {"nfs", "smb", "lun", "namespace", "port"}
    BY <1>1, <1>3, <2>1, CameBy DEF Got
  <2>2. CASE t = "target"
    <3>1. pc'[r] \in {"groups", "keep-target", "extent", "keep-extent", "lun", "keep-lun"}
      BY <2>2 DEF Got
    <3>2. \/ DoesPost(r, "target") \/ DoesSetGroups(r) \/ DoesKeepId(r, "target")
          \/ DoesPost(r, "extent") \/ DoesKeepId(r, "extent") \/ DoesPost(r, "lun")
      BY <1>3, <3>1, CameBy
    <3>3. \/ DoesPost(r, "target")
          \/ pc[r] \in {"groups", "keep-target", "extent", "keep-extent", "lun"}
      BY <3>2, TableStepsAre DEF DoesPost, DoesSetGroups, DoesKeepId
    <3>4. QED
      BY <1>1, <2>2, <3>3 DEF Got
  <2>3. CASE t = "extent"
    <3>1. pc'[r] \in {"keep-extent", "lun", "keep-lun"}
      BY <2>3 DEF Got
    <3>2. DoesPost(r, "extent") \/ DoesKeepId(r, "extent") \/ DoesPost(r, "lun")
      BY <1>3, <3>1, CameBy
    <3>3. DoesPost(r, "extent") \/ pc[r] \in {"keep-extent", "lun"}
      BY <3>2, TableStepsAre DEF DoesPost, DoesKeepId
    <3>4. QED
      BY <1>1, <2>3, <3>3 DEF Got
  <2>4. CASE t = "subsys"
    <3>1. pc'[r] \in {"keep-subsys", "namespace", "keep-namespace", "port"}
      BY <2>4 DEF Got
    <3>2. \/ DoesPost(r, "subsys") \/ DoesKeepId(r, "subsys")
          \/ DoesPost(r, "namespace") \/ DoesKeepId(r, "namespace")
      BY <1>3, <3>1, CameBy
    <3>3. DoesPost(r, "subsys") \/ pc[r] \in {"keep-subsys", "namespace", "keep-namespace"}
      BY <3>2, TableStepsAre DEF DoesPost, DoesKeepId
    <3>4. QED
      BY <1>1, <2>4, <3>3 DEF Got
  <2>5. QED
    BY <1>1, <2>1, <2>2, <2>3, <2>4 DEF Tables
<1>4. QED
  BY <1>2, <1>3

\* How a creation gets past its share.
LEMMA SharedBy ==
  ASSUME Types, [Next]_vars, NEW r \in Requests, Is(r, "CreateVolume"),
         pc'[r] \in {"name"} \cup Shared, pc[r] \notin {"name"} \cup Shared
  PROVE  \/ DoesLookUp(r) /\ Complete(ds[Dest(call[r])].ids)
         \/ kind = "nfs" /\ DoesKeepId(r, "nfs")
         \/ kind = "smb" /\ DoesKeepId(r, "smb")
         \/ kind = "iscsi" /\ DoesKeepId(r, "lun")
         \/ kind = "nvmeof" /\ DoesPost(r, "port")
<1>1. pc'[r] # pc[r] /\ DOMAIN pc = Requests /\ kind \in Kinds
  BY SetupsAre DEF Types
<1>2. pc[r] \notin {"name", "context", "success", "reply"}
  BY DEF Shared
<1>3. \/ DoesLookUp(r) \/ DoesKeepId(r, "nfs") \/ DoesKeepId(r, "smb") \/ DoesKeepId(r, "lun")
      \/ DoesPost(r, "port")
  <2>1. CASE pc'[r] = "name"
    BY <1>1, <2>1, CameBy
  <2>2. CASE pc'[r] = "context"
    <3>1. ~ DoesSetName(r)
      BY <1>2 DEF DoesSetName
    <3>2. QED
      BY <1>1, <2>2, <3>1, CameBy
  <2>3. CASE pc'[r] = "success"
    <3>1. ~ DoesSetContext(r) /\ ~ DoesTakeSnapshot(r)
      BY <1>2 DEF DoesSetContext, DoesTakeSnapshot, Is
    <3>2. QED
      BY <1>1, <2>3, <3>1, CameBy DEF Is
  <2>4. CASE pc'[r] = "reply"
    <3>1. /\ ~ DoesSetSuccess(r) /\ ~ DoesResize(r) /\ ~ DoesDestroyVolume(r)
          /\ ~ DoesReleaseSnapshot(r) /\ ~ DoesDestroyContainer(r)
      BY <1>2 DEF DoesSetSuccess, DoesResize, DoesDestroyVolume, DoesReleaseSnapshot,
                  DoesDestroyContainer, Is
    <3>2. QED
      BY <1>1, <2>4, <3>1, CameBy
  <2>5. QED
    BY <2>1, <2>2, <2>3, <2>4 DEF Shared
<1>4. DoesLookUp(r) => Complete(ds[Dest(call[r])].ids)
  <2>1. SUFFICES ASSUME DoesLookUp(r), ~ Complete(ds[Dest(call[r])].ids) PROVE FALSE
    OBVIOUS
  <2>2. pc'[r] \in {"nfs", "smb", "target", "subsys"}
    BY <1>1, <2>1 DEF DoesLookUp, Moves
  <2>3. QED
    BY <2>2 DEF Shared
<1>5. \A t \in Tables : DoesKeepId(r, t) \/ DoesPost(r, t) => t \in Used
  BY DEF DoesKeepId, DoesPost
<1>6. {"nfs", "smb", "lun", "port"} \subseteq Tables
  BY DEF Tables
<1>7. /\ ("nfs" \in Used => kind = "nfs") /\ ("smb" \in Used => kind = "smb")
      /\ ("lun" \in Used => kind = "iscsi") /\ ("port" \in Used => kind = "nvmeof")
  BY <1>1 DEF Used, Kinds
<1>8. QED
  BY <1>3, <1>4, <1>5, <1>6, <1>7

\* A creation has written an id since it was at the step that writes it, unless it found
\* the whole share.
LEMMA KeptBy ==
  ASSUME Types, [Next]_vars, NEW r \in Requests, Is(r, "CreateVolume"), NEW t \in Used \ {"port"},
         pc'[r] \in Kept(t)
  PROVE  \/ pc[r] \in Kept(t) \/ DoesKeepId(r, t)
         \/ DoesLookUp(r) /\ Complete(ds[Dest(call[r])].ids)
<1>1. t \in Tables /\ kind \in Kinds
  BY SetupsAre, TableNextAre DEF Types
<1>2. CASE pc'[r] = pc[r]
  BY <1>2
<1>3. CASE pc'[r] # pc[r] /\ pc'[r] \in {"name"} \cup Shared
  <2>1. CASE pc[r] \in {"name"} \cup Shared
    <3>1. pc[r] = "name" => kind \in {"iscsi", "nvmeof"}
      BY <1>1, TablePlaceIs DEF Types
    <3>2. QED
      BY <1>1, <2>1, <3>1 DEF Kept, Used, Kinds
  <2>2. CASE pc[r] \notin {"name"} \cup Shared
    <3>1. kind = "nfs" /\ DoesKeepId(r, "nfs") => DoesKeepId(r, t)
      BY <1>1 DEF Used
    <3>2. kind = "smb" /\ DoesKeepId(r, "smb") => DoesKeepId(r, t)
      BY <1>1 DEF Used
    <3>3. kind = "iscsi" /\ DoesKeepId(r, "lun") => DoesKeepId(r, t) \/ pc[r] \in Kept(t)
      <4>1. SUFFICES ASSUME kind = "iscsi", DoesKeepId(r, "lun"), t # "lun" PROVE pc[r] \in Kept(t)
        OBVIOUS
      <4>2. pc[r] = "keep-lun" /\ t \in {"target", "extent"}
        BY <4>1, TableStepsAre DEF DoesKeepId, Used
      <4>3. QED
        BY <4>2 DEF Kept
    <3>4. kind = "nvmeof" /\ DoesPost(r, "port") => pc[r] \in Kept(t)
      <4>1. SUFFICES ASSUME kind = "nvmeof", DoesPost(r, "port") PROVE pc[r] \in Kept(t)
        OBVIOUS
      <4>2. pc[r] = "port" /\ t \in {"subsys", "namespace"}
        BY <4>1 DEF DoesPost, Used
      <4>3. QED
        BY <4>2 DEF Kept
    <3>5. QED
      BY <1>3, <2>2, <3>1, <3>2, <3>3, <3>4, SharedBy
  <2>3. QED
    BY <2>1, <2>2
<1>4. CASE pc'[r] # pc[r] /\ pc'[r] \notin {"name"} \cup Shared
  <2>1. CASE t \in {"nfs", "smb", "lun"}
    BY <1>4, <2>1 DEF Kept
  <2>2. CASE t = "target"
    <3>1. pc'[r] \in {"extent", "keep-extent", "lun", "keep-lun"}
      BY <1>4, <2>2 DEF Kept
    <3>2. \/ DoesKeepId(r, "target") \/ DoesPost(r, "extent") \/ DoesKeepId(r, "extent")
          \/ DoesPost(r, "lun")
      BY <1>4, <3>1, CameBy
    <3>3. DoesKeepId(r, "target") \/ pc[r] \in {"extent", "keep-extent", "lun"}
      BY <3>2, TableStepsAre DEF DoesPost, DoesKeepId
    <3>4. QED
      BY <2>2, <3>3 DEF Kept
  <2>3. CASE t = "extent"
    <3>1. pc'[r] \in {"lun", "keep-lun"}
      BY <1>4, <2>3 DEF Kept
    <3>2. DoesKeepId(r, "extent") \/ DoesPost(r, "lun")
      BY <1>4, <3>1, CameBy
    <3>3. DoesKeepId(r, "extent") \/ pc[r] = "lun"
      BY <3>2 DEF DoesPost
    <3>4. QED
      BY <2>3, <3>3 DEF Kept
  <2>4. CASE t = "subsys"
    <3>1. pc'[r] \in {"namespace", "keep-namespace", "port"}
      BY <1>4, <2>4 DEF Kept
    <3>2. DoesKeepId(r, "subsys") \/ DoesPost(r, "namespace") \/ DoesKeepId(r, "namespace")
      BY <1>4, <3>1, CameBy
    <3>3. DoesKeepId(r, "subsys") \/ pc[r] \in {"namespace", "keep-namespace"}
      BY <3>2, TableStepsAre DEF DoesPost, DoesKeepId
    <3>4. QED
      BY <2>4, <3>3 DEF Kept
  <2>5. CASE t = "namespace"
    <3>1. pc'[r] = "port"
      BY <1>4, <2>5 DEF Kept
    <3>2. QED
      BY <1>4, <2>5, <3>1, CameBy
  <2>6. QED
    BY <1>1, <2>1, <2>2, <2>3, <2>4, <2>5 DEF Tables
<1>5. QED
  BY <1>2, <1>3, <1>4

\* What is said of a creation's rows, after a step: row by row.
LEMMA StandsNext ==
  ASSUME SetupIs, call' = call, Used' = Used, kind' = kind,
         NEW r \in Requests, NEW v, Creates(r, v),
         \A t \in Used : \A i :
           pc'[r] \in Got(t) /\ i = mem'[r].ids[t] => Belongs(t, i, v)',
         \A t \in Used \ {"port"} : pc'[r] \in Kept(t) => ds'[Vol(v)].ids[t] # 0,
         \A i : pc'[r] = "keep-target" /\ i = mem'[r].ids["target"]
                  => table'["target"][i] = <<v, TRUE>>,
         pc'[r] \in {"name"} \cup Shared /\ kind = "nvmeof" => \E i \in Ids : Belongs("port", i, v)'
  PROVE  ShareStands(r)'
<1>1. \A t : \A i : i = mem'[r].ids[t] =>
        (Belongs(t, i, v)' <=> Belongs(t, mem[r].ids[t], v)')
  BY DEF Belongs, Named, Rows
<1>2. VolumeId(call[r]) = v
  BY DEF Creates
<1>3. VolumeId(call[r])' = v /\ VolumeId(call'[r]) = v
  BY <1>2 DEF VolumeId
<1>4. \A t : Got(t)' = Got(t) /\ Kept(t)' = Kept(t) /\ Shared' = Shared
  BY DEF Got, Kept, Shared
<1>5. QED
  BY <1>1, <1>2, <1>3, <1>4 DEF ShareStands

\* The row that a creation gets the id of is its volume's.
LEMMA PostedOwn ==
  ASSUME Types, Control, VolumesAreSound, SharesAreSound, [Next]_vars,
         NEW r \in Requests, NEW v \in Volumes, Creates(r, v), NEW t \in Tables, DoesPost(r, t)
  PROVE  \E i \in Ids : mem' = [mem EXCEPT ![r].ids[t] = i] /\ Belongs(t, i, v)'
<1>1. /\ RowsAreSound /\ ShareStands(r) /\ pc[r] = t /\ t \in Used /\ Running(r) /\ ds' = ds
      /\ Is(r, "CreateVolume")
  BY DEF SharesAreSound, DoesPost, Moves
<1>2. PICK i \in Ids :
        /\ mem' = [mem EXCEPT ![r].ids[t] = i]
        /\ \/ Absent(r, t) /\ table[t][i] = Free /\ Inserts(t, i, RowOf(r, t))
           \/ /\ i \in Conflicts(t, RowOf(r, t)) /\ Same(t, table[t][i], RowOf(r, t))
              /\ table' = table
  BY DEF DoesPost
<1>3. CASE Absent(r, t) /\ table[t][i] = Free /\ Inserts(t, i, RowOf(r, t))
  <2>1. Posting(r, t, i)
    BY <1>1, <1>3 DEF Posting
  <2>2. PICK w \in Volumes : Posted(r, t, i, w)
    BY <1>1, <2>1, PostedIs
  <2>3. w = v
    BY <2>2 DEF Posted, Creates
  <2>4. QED
    BY <1>2, <2>2, <2>3 DEF Posted
<1>4. CASE /\ i \in Conflicts(t, RowOf(r, t)) /\ Same(t, table[t][i], RowOf(r, t))
           /\ table' = table
  <2>1. Belongs(t, i, v)
    BY <1>1, <1>4, FoundIs
  <2>2. Belongs(t, i, v)'
    BY <1>4, <2>1 DEF Belongs, Named, Rows
  <2>3. QED
    BY <1>2, <2>2
<1>5. QED
  BY <1>2, <1>3, <1>4

\* The rows of a volume that nobody deletes stay.
LEMMA WantedRowsStay ==
  ASSUME Types, Control, VolumesAreSound, SharesAreSound, [Next]_vars,
         NEW v, NEW t \in Tables, NEW i, ~ VolumeUnwanted(v), Belongs(t, i, v)
  PROVE  Belongs(t, i, v)'
BY OwnersChange

\* A creation that is making its share made a step of it before.
LEMMA SharingRan ==
  ASSUME Types, [Next]_vars, NEW r \in Requests, NEW v \in Volumes, Creates(r, v), Control,
         pc'[r] \in MadeSteps
  PROVE  Running(r) /\ Running(r)' /\ ~ VolumeUnwanted(v) /\ ~ DoesFindShare(r)
<1>1. SetupIs /\ Is(r, "CreateVolume")
  BY ForVolumes DEF Types
<1>2. First(call[r]) = "check"
  BY <1>1 DEF First, Is
<1>3. MadeSteps \cap {"idle", "pending", "done", "check"} = {}
  BY <1>1, MadeStepsAre
<1>4. Running(r)' /\ pc'[r] # First(call[r])
  BY <1>2, <1>3 DEF Running
<1>5. Running(r)
  BY <1>4, RanBefore
<1>6. ~ DoesFindShare(r)
  BY <1>1 DEF DoesFindShare, Is
<1>7. QED
  BY <1>4, <1>5, <1>6, CreationIsAlone

\* Those steps are where a creation has an id or has written one.
LEMMA SharingAre ==
  ASSUME kind \in Kinds, NEW t \in Used
  PROVE  /\ Got(t) \subseteq MadeSteps
         /\ t # "port" => Kept(t) \subseteq MadeSteps
<1>1. t \in {"nfs", "smb", "target", "extent", "lun", "subsys", "namespace", "port"}
  BY DEF Used, Kinds
<1>2. CASE t \in {"nfs", "smb"}
  BY <1>2 DEF Used, Kinds, Got, Kept, MadeSteps, Sharing
<1>3. CASE t \in {"target", "extent", "lun"}
  BY <1>3 DEF Used, Kinds, Got, Kept, MadeSteps, Sharing
<1>4. CASE t \in {"subsys", "namespace", "port"}
  BY <1>4 DEF Used, Kinds, Got, Kept, MadeSteps, Sharing
<1>5. QED
  BY <1>1, <1>2, <1>3, <1>4

\* A creation has the ids of its volume's rows.
LEMMA StandsGot ==
  ASSUME Types, Control, VolumesAreSound, SharesAreSound, [Next]_vars,
         NEW r \in Requests, NEW v \in Volumes, Creates(r, v),
         NEW t \in Used, NEW i, pc'[r] \in Got(t), i = mem'[r].ids[t]
  PROVE  Belongs(t, i, v)'
<1>1. kind \in Kinds /\ t \in Tables /\ mem[r].ids \in [Tables -> Ids0] /\ DOMAIN mem = Requests
      /\ mem[r] \in MemoryType
  BY SetupsAre, GotBy, IdsAreIds DEF Types
<1>2. pc'[r] \in MadeSteps
  BY <1>1, SharingAre
<1>3. Running(r)' /\ ~ VolumeUnwanted(v) /\ ~ DoesFindShare(r)
  BY <1>2, SharingRan
<1>4. CASE DoesPost(r, t)
  <2>1. PICK j \in Ids : mem' = [mem EXCEPT ![r].ids[t] = j] /\ Belongs(t, j, v)'
    BY <1>1, <1>4, PostedOwn
  <2>2. mem'[r].ids[t] = j
    BY <1>1, <2>1 DEF MemoryType
  <2>3. QED
    BY <2>1, <2>2
<1>5. CASE pc[r] \in Got(t) /\ ~ DoesPost(r, t)
  <2>1. Is(r, "CreateVolume") /\ VolumeId(call[r]) = v
    BY DEF Creates
  <2>2. \A j : j = mem[r].ids[t] => Belongs(t, j, v)
    BY <1>5, <2>1 DEF SharesAreSound, ShareStands, Is
  <2>3. mem'[r].ids[t] = mem[r].ids[t]
    <3>1. ASSUME NEW u \in Tables, DoesPost(r, u) PROVE mem'[r].ids[t] = mem[r].ids[t]
      <4>1. u # t
        BY <1>5, <3>1
      <4>2. \E j : mem' = [mem EXCEPT ![r].ids[u] = j]
        BY <3>1 DEF DoesPost
      <4>3. QED
        BY <1>1, <4>1, <4>2 DEF MemoryType
    <3>2. QED
      BY <1>3, <3>1, Remembered
  <2>4. Belongs(t, i, v)
    BY <2>2, <2>3
  <2>5. QED
    BY <1>1, <1>3, <2>4, WantedRowsStay
<1>6. QED
  BY <1>4, <1>5, GotBy

\* The ids that a creation has written are there.
LEMMA StandsKept ==
  ASSUME Types, Control, VolumesAreSound, SharesAreSound, [Next]_vars,
         NEW r \in Requests, NEW v \in Volumes, Creates(r, v),
         NEW t \in Used \ {"port"}, pc'[r] \in Kept(t)
  PROVE  ds'[Vol(v)].ids[t] # 0
<1>1. /\ kind \in Kinds /\ t \in Tables /\ Is(r, "CreateVolume") /\ VolumeId(call[r]) = v
      /\ Dest(call[r]) = Vol(v)
  BY SetupsAre, TableNextAre, ForVolumes DEF Types
<1>2. pc'[r] \in MadeSteps
  BY <1>1, SharingAre
<1>3. ~ VolumeUnwanted(v) /\ Vol(v) \in DOMAIN ds /\ Vol(v) \in DOMAIN ds'
  BY <1>2, SharingRan, StandsMade
<1>4. CASE pc[r] \in Kept(t)
  <2>1. ds[Vol(v)].ids[t] # 0
    BY <1>1, <1>4 DEF SharesAreSound, ShareStands, Is
  <2>2. QED
    BY <1>1, <1>3, <2>1, IdsChange
<1>5. CASE DoesKeepId(r, t)
  <2>1. pc[r] \in Got(t)
    BY <1>1, <1>5, KeepingIs DEF DoesKeepId
  <2>2. Belongs(t, mem[r].ids[t], v)
    BY <1>1, <2>1 DEF SharesAreSound, ShareStands, Is
  <2>3. mem[r].ids[t] # 0
    BY <2>2, IdsAssumption DEF Belongs, Rows
  <2>4. ds'[Vol(v)] = [ds[Vol(v)] EXCEPT !.ids[t] = mem[r].ids[t]]
    BY <1>1, <1>5 DEF DoesKeepId, Changes
  <2>5. ds[Vol(v)] \in DatasetType
    BY <1>3 DEF Types
  <2>6. QED
    BY <1>1, <2>3, <2>4, <2>5 DEF DatasetType
<1>6. CASE DoesLookUp(r) /\ Complete(ds[Dest(call[r])].ids)
  <2>1. ds' = ds
    BY <1>6 DEF DoesLookUp
  <2>2. kind = "iscsi" => ds[Vol(v)].ids["lun"] # 0
    BY <1>1, <1>6 DEF Complete
  <2>3. kind = "iscsi" => ds[Vol(v)].ids["target"] # 0 /\ ds[Vol(v)].ids["extent"] # 0
    BY <1>3, <2>2 DEF SharesAreSound, IdsAreSound
  <2>4. kind \in {"nfs", "smb"} => ds[Vol(v)].ids[kind] # 0 /\ t = kind
    BY <1>1, <1>6 DEF Complete, Used
  <2>5. kind # "nvmeof"
    BY <1>6 DEF Complete
  <2>6. kind = "iscsi" => t \in {"target", "extent", "lun"}
    BY DEF Used
  <2>7. QED
    BY <1>1, <2>1, <2>2, <2>3, <2>4, <2>5, <2>6 DEF Kinds
<1>7. QED
  BY <1>1, <1>4, <1>5, <1>6, KeptBy

\* A creation's rows stand.
LEMMA SharesStand ==
  ASSUME Types, Control, VolumesAreSound, SharesAreSound, [Next]_vars, NEW r \in Requests
  PROVE  ShareStands(r)'
<1>1. /\ SetupIs /\ call' = call /\ kind' = kind /\ Used' = Used /\ kind \in Kinds
      /\ DOMAIN mem = Requests /\ "target" \in Tables /\ "port" \in Tables
  BY ForwardIs, SetupsAre DEF Types, Forward, Used, Tables
<1>2. CASE ~ Is(r, "CreateVolume")
  BY <1>1, <1>2 DEF ShareStands, Is
<1>3. CASE Is(r, "CreateVolume")
  <2>1. PICK v \in Volumes : Creates(r, v)
    BY <1>1, <1>3, ForVolumes
  <2>2. \A t \in Used : \A i : pc'[r] \in Got(t) /\ i = mem'[r].ids[t] => Belongs(t, i, v)'
    BY <2>1, StandsGot
  <2>3. \A t \in Used \ {"port"} : pc'[r] \in Kept(t) => ds'[Vol(v)].ids[t] # 0
    BY <2>1, StandsKept
  <2>4. ASSUME NEW i, pc'[r] = "keep-target", i = mem'[r].ids["target"]
        PROVE  table'["target"][i] = <<v, TRUE>>
    <3>1. /\ Running(r) /\ ~ VolumeUnwanted(v)
          /\ \/ pc[r] = "keep-target" /\ mem'[r].ids = mem[r].ids
             \/ DoesSetGroups(r)
      <4>1. kind = "iscsi" /\ "target" \in Used /\ pc'[r] \in Got("target")
        <5>1. pc[r] # "keep-target" => kind = "iscsi"
          BY <2>4, CameBy DEF DoesSetGroups
        <5>2. pc[r] = "keep-target" => kind = "iscsi"
          BY <1>1, TablePlaceIs, TableStepsAre DEF Types, Used, Kinds
        <5>3. QED
          BY <2>4, <5>1, <5>2 DEF Used, Got
      <4>2. pc'[r] \in MadeSteps
        BY <1>1, <4>1, SharingAre
      <4>3. Running(r) /\ Running(r)' /\ ~ VolumeUnwanted(v) /\ ~ DoesFindShare(r)
        BY <2>1, <4>2, SharingRan
      <4>4. pc[r] # "keep-target" => DoesSetGroups(r)
        BY <2>4, CameBy
      <4>5. \A t \in Tables : DoesPost(r, t) => pc[r] # "keep-target"
        BY DEF DoesPost, Tables
      <4>6. QED
        BY <4>3, <4>4, <4>5, Remembered
    <3>2. VolumeId(call[r]) = v
      BY <2>1 DEF Creates
    <3>3. CASE pc[r] = "keep-target" /\ mem'[r].ids = mem[r].ids
      <4>1. table["target"][i] = <<v, TRUE>>
        BY <1>3, <2>4, <3>2, <3>3 DEF SharesAreSound, ShareStands, Is
      <4>2. "target" \in Used /\ pc'[r] \in Got("target")
        <5>1. kind = "iscsi"
          BY <1>1, <3>3, TablePlaceIs, TableStepsAre DEF Types, Used, Kinds
        <5>2. QED
          BY <2>4, <5>1 DEF Used, Got
      <4>3. Belongs("target", i, v)'
        BY <2>2, <2>4, <4>2
      <4>4. QED
        BY <1>1, <4>1, <4>3, OwnersChange
    <3>4. CASE DoesSetGroups(r)
      <4>1. mem' = mem /\ kind = "iscsi" /\ pc[r] = "groups"
        BY <3>4 DEF DoesSetGroups
      <4>2. Belongs("target", i, v)
        <5>1. "target" \in Used /\ pc[r] \in Got("target")
          BY <4>1 DEF Used, Got
        <5>2. \A j : j = mem[r].ids["target"] => Belongs("target", j, v)
          BY <1>3, <3>2, <5>1 DEF SharesAreSound, ShareStands, Is
        <5>3. QED
          BY <2>4, <4>1, <5>2
      <4>3. table["target"][i][1] = v
        BY <4>2, NamedIs DEF NamedTables, Named
      <4>4. table'["target"][i] = <<table["target"][i][1], TRUE>>
        BY <1>1, <2>4, <3>4, <4>1 DEF DoesSetGroups, Inserts
      <4>5. QED
        BY <4>3, <4>4
    <3>5. QED
      BY <3>1, <3>3, <3>4
  <2>5. ASSUME pc'[r] \in {"name"} \cup Shared, kind = "nvmeof"
        PROVE  \E i \in Ids : Belongs("port", i, v)'
    <3>1. pc'[r] \in MadeSteps
      BY <2>5 DEF MadeSteps, Sharing
    <3>2. ~ VolumeUnwanted(v) /\ VolumeId(call[r]) = v
      BY <2>1, <3>1, SharingRan DEF Creates
    <3>3. CASE pc[r] \in {"name"} \cup Shared
      <4>1. PICK i \in Ids : Belongs("port", i, v)
        BY <1>3, <2>5, <3>2, <3>3 DEF SharesAreSound, ShareStands, Is
      <4>2. QED
        BY <1>1, <3>2, <4>1, WantedRowsStay
    <3>4. CASE pc[r] \notin {"name"} \cup Shared
      <4>1. ~ Complete(ds[Dest(call[r])].ids)
        BY <2>5 DEF Complete
      <4>2. DoesPost(r, "port")
        BY <1>3, <2>5, <3>4, <4>1, SharedBy
      <4>3. QED
        BY <1>1, <2>1, <4>2, PostedOwn
    <3>5. QED
      BY <3>3, <3>4
  <2>6. QED
    BY <1>1, <2>1, <2>2, <2>3, <2>4, <2>5, StandsNext
<1>4. QED
  BY <1>2, <1>3

\* A step at which an id is removed comes after its row is gone.
LEMMA InheritingIs ==
  ASSUME kind \in Kinds, NEW t \in Used \ {"lun", "port"}
  PROVE  Inherit(t) \in Gone(t) /\ Inherit(t) \in Unsharing /\ t \in NamedTables
<1>1. t \in {"nfs", "smb", "target", "extent", "subsys", "namespace"}
  BY DEF Used, Kinds
<1>2. QED
  BY <1>1, TableStepsAre DEF Used, Kinds, Gone, NamedTables, Unsharing

\* An id is lost by a deletion that has deleted the row.
LEMMA IdsLost ==
  ASSUME Types, Control, VolumesAreSound, SharesAreSound, [Next]_vars, NEW v \in Volumes,
         Vol(v) \in DOMAIN ds, Vol(v) \in DOMAIN ds', NEW t \in NamedTables, NEW i \in Ids,
         ds[Vol(v)].ids[t] # 0, ds'[Vol(v)].ids[t] = 0
  PROVE  ~ Belongs(t, i, v)
<1>1. SUFFICES ASSUME Belongs(t, i, v) PROVE FALSE
  OBVIOUS
<1>2. t \in Tables /\ t \in Used /\ kind \in Kinds /\ ds[Vol(v)].ids \in [Tables -> Ids0]
  BY <1>1, SetupsAre, IdsAreIds
     DEF NamedTables, Tables, SharesAreSound, RowsAreSound, Belongs, Types
<1>3. ASSUME NEW q \in Requests, NEW u \in Tables, Running(q), DoesInheritId(q, u), Deletes(q, v),
             ds'[Vol(v)].ids = [ds[Vol(v)].ids EXCEPT ![u] = 0]
      PROVE  FALSE
  <2>1. u = t
    BY <1>2, <1>3
  <2>2. pc[q] = Inherit(t) /\ pc[q] \in Gone(t)
    BY <1>2, <1>3, <2>1, InheritingIs DEF DoesInheritId
  <2>3. QED
    BY <1>1, <1>2, <1>3, <2>2 DEF SharesAreSound, ShareGoes, Deletes, Is
<1>4. ASSUME NEW q \in Requests, NEW u \in Tables, Running(q), DoesKeepId(q, u), Creates(q, v)
      PROVE  FALSE
  <2>1. ~ VolumeUnwanted(v)
    BY <1>4, CreationIsAlone
  <2>2. QED
    BY <1>2, <2>1, IdsChange
<1>5. QED
  BY <1>3, <1>4, KeptVolume

\* Of a volume that was acknowledged, the ids stay known.
LEMMA SharesAreKept ==
  ASSUME Types, Control, VolumesAreSound, SharesAreSound, [Next]_vars, NEW v \in Volumes
  PROVE  ShareIsKept(v)'
<1>1. SUFFICES ASSUME v \in DOMAIN promised', Vol(v) \in DOMAIN ds'
      PROVE  /\ \A t \in NamedTables : \A i \in Ids :
                  Belongs(t, i, v)' => ds'[Vol(v)].ids[t] = i
             /\ ~ VolumeUnwanted(v)' =>
                  /\ \A t \in Used' \ {"port"} : ds'[Vol(v)].ids[t] # 0
                  /\ kind' = "nvmeof" => \E i \in Ids : Belongs("port", i, v)'
  BY DEF ShareIsKept
<1>2. /\ Used' = Used /\ kind' = kind /\ (VolumeUnwanted(v) => VolumeUnwanted(v)')
      /\ kind \in Kinds /\ "port" \in Tables /\ NamedTables \subseteq Tables /\ SetupIs
  BY ForwardIs, StaysUnwanted, SetupsAre DEF Forward, Used, Types, Tables, NamedTables
<1>3. \A t \in Used : t \in Tables
  BY <1>2, TableNextAre
<1>4. \A t \in NamedTables : t # "port"
  BY DEF NamedTables
<1>5. \A t \in Tables : \A i, j \in Ids : Belongs(t, i, v) /\ Belongs(t, j, v) => i = j
  BY DEF SharesAreSound, RowsAreSound
<1>6. \A t \in Tables : \A i : Belongs(t, i, v) => t \in Used /\ i \in Ids
  BY DEF SharesAreSound, RowsAreSound, Belongs, Rows
<1>7. Vol(v) \in DOMAIN ds /\ ~ VolumeUnwanted(v) =>
        \A t \in Tables : \A i : i = ds[Vol(v)].ids[t] /\ i # 0 => Belongs(t, i, v)
  BY DEF SharesAreSound, IdsAreSound
<1>8. CASE v \in DOMAIN promised
  <2>1. Vol(v) \in DOMAIN ds
    <3>1. SUFFICES ASSUME Vol(v) \notin DOMAIN ds PROVE FALSE
      OBVIOUS
    <3>2. ~ VolumeUnwanted(v)
      BY <1>1, <3>1, NewVolume
    <3>3. QED
      BY <1>8, <3>1, <3>2 DEF VolumesAreSound, VolumeIsKept
  <2>2. /\ \A t \in NamedTables : \A i \in Ids : Belongs(t, i, v) => ds[Vol(v)].ids[t] = i
        /\ ~ VolumeUnwanted(v) =>
             /\ \A t \in Used \ {"port"} : ds[Vol(v)].ids[t] # 0
             /\ kind = "nvmeof" => \E i \in Ids : Belongs("port", i, v)
    BY <1>8, <2>1 DEF SharesAreSound, ShareIsKept
  <2>3. ASSUME NEW t \in NamedTables, NEW i \in Ids, Belongs(t, i, v)'
        PROVE  ds'[Vol(v)].ids[t] = i
    <3>1. CASE Belongs(t, i, v)
      <4>1. ds[Vol(v)].ids[t] = i /\ i # 0
        BY <2>2, <3>1, IdsAssumption
      <4>2. ds'[Vol(v)].ids[t] # 0
        BY <1>1, <2>1, <3>1, <4>1, IdsLost
      <4>3. \A j : Belongs(t, j, v) => j = i
        BY <1>2, <1>5, <1>6, <3>1
      <4>4. QED
        BY <1>1, <1>2, <4>1, <4>2, <4>3, IdsChange
    <3>2. CASE ~ Belongs(t, i, v)
      <4>1. PICK q \in Requests : Posted(q, t, i, v)
        BY <1>2, <2>3, <3>2, OwnersChange
      <4>2. t \in Used /\ ~ VolumeUnwanted(v) /\ \A j : ~ Belongs(t, j, v)
        BY <4>1 DEF Posted
      <4>3. ds[Vol(v)].ids[t] # 0
        BY <1>4, <2>2, <4>2
      <4>4. QED
        BY <1>2, <1>7, <2>1, <4>2, <4>3
    <3>3. QED
      BY <3>1, <3>2
  <2>4. ASSUME ~ VolumeUnwanted(v)', NEW t \in Used \ {"port"} PROVE ds'[Vol(v)].ids[t] # 0
    BY <1>1, <1>2, <1>3, <2>1, <2>2, <2>4, IdsChange
  <2>5. ASSUME ~ VolumeUnwanted(v)', kind = "nvmeof" PROVE \E i \in Ids : Belongs("port", i, v)'
    BY <1>2, <2>2, <2>5, WantedRowsStay
  <2>6. QED
    BY <1>2, <2>3, <2>4, <2>5
<1>9. CASE v \notin DOMAIN promised
  <2>1. PICK q \in Requests : /\ Creates(q, v) \/ Expands(q, v)
                              /\ Reply(q) /\ Running(q) /\ pc[q] = "reply" /\ ds' = ds
    BY <1>1, <1>9, PromiseIs
  <2>2. table' = table
    BY <2>1, ReplyIs
  <2>3. ~ Expands(q, v)
    BY <1>9, <2>1 DEF Control, SourceWasMade, Sent, Expands, Is
  <2>4. ~ VolumeUnwanted(v) /\ Is(q, "CreateVolume") /\ VolumeId(call[q]) = v
    BY <2>1, <2>3, CreationIsAlone DEF Creates
  <2>5. \A t \in Used \ {"port"} : pc[q] \in Kept(t)
    BY <2>1 DEF Kept, Shared
  <2>6. /\ \A t \in Used \ {"port"} : ds[Vol(v)].ids[t] # 0
        /\ kind = "nvmeof" => \E i \in Ids : Belongs("port", i, v)
    BY <2>1, <2>4, <2>5 DEF SharesAreSound, ShareStands, Shared, Is
  <2>7. \A t, i : Belongs(t, i, v)' <=> Belongs(t, i, v)
    BY <2>2 DEF Belongs, Named, Rows
  <2>8. ASSUME NEW t \in NamedTables, NEW i \in Ids, Belongs(t, i, v)
        PROVE  ds[Vol(v)].ids[t] = i
    BY <1>1, <1>2, <1>4, <1>5, <1>6, <1>7, <2>1, <2>4, <2>6, <2>8
  <2>9. QED
    BY <1>2, <2>1, <2>6, <2>7, <2>8
<1>10. QED
  BY <1>8, <1>9

\* Who deletes a volume is the only one who works at it.
LEMMA DeletionIsAlone ==
  ASSUME Types, Control, NEW r \in Requests, NEW v \in Volumes, Deletes(r, v), Running(r)
  PROVE  /\ VolumeUnwanted(v) /\ v \in DOMAIN promised
         /\ \A q \in Requests : Creates(q, v) => ~ Unfinished(q)
         /\ \A q \in Requests : Running(q) /\ call[q].volume = v
              /\ call[q].method \in {"DeleteVolume", "ControllerExpandVolume", "CreateSnapshot"}
                => q = r
<1>1. Sent(r) /\ Is(r, "DeleteVolume") /\ call[r].volume = v
  BY DEF Sent, Running, Deletes, Is
<1>2. VolumeUnwanted(v) /\ v \in DOMAIN promised
  BY <1>1 DEF VolumeUnwanted, Control, SourceWasMade, Is
<1>3. \A q \in Requests : Creates(q, v) => ~ Unfinished(q)
  BY <1>1 DEF Control, UnwantedIsSettled
<1>4. ASSUME NEW q \in Requests, Running(q), call[q].volume = v, q # r,
             call[q].method \in {"DeleteVolume", "ControllerExpandVolume", "CreateSnapshot"}
      PROVE  FALSE
  <2>1. <<"volume_id", v>> \in Keys(call[q]) /\ <<"volume_id", v>> \in Keys(call[r])
    BY <1>1, <1>4 DEF Keys, Is
  <2>2. QED
    BY <1>4, <2>1 DEF Control, Exclusive
<1>5. QED
  BY <1>2, <1>3, <1>4

\* A deletion that has begun was there before.
LEMMA DeletingRan ==
  ASSUME Types, [Next]_vars, NEW r \in Requests, Is(r, "DeleteVolume"),
         pc'[r] \in {"find"} \cup Unsharing \cup Unshared
  PROVE  Running(r) /\ Running(r)' /\ (pc'[r] = pc[r] \/ Works(r))
<1>1. kind \in Kinds /\ First(call[r]) = "read"
  BY SetupsAre DEF Types, First, Is
<1>2. pc'[r] \notin {"idle", "pending", "done", "read"}
  BY <1>1 DEF Unsharing, Unshared, Kinds
<1>3. QED
  BY <1>1, <1>2, RanBefore DEF Running

\* How it gets to where it looks at the share,
LEMMA UnsharingBy ==
  ASSUME Types, [Next]_vars, NEW r \in Requests, Is(r, "DeleteVolume"), pc'[r] \in Unsharing
  PROVE  pc[r] \in Unsharing \/ (DoesFindShare(r) /\ Dest(call[r]) \in DOMAIN ds)
<1>1. kind \in Kinds /\ DOMAIN pc = Requests
  BY SetupsAre DEF Types
<1>2. CASE pc'[r] = pc[r]
  BY <1>2
<1>3. CASE pc'[r] # pc[r]
  <2>1. \/ DoesFindShare(r)
        \/ \E t \in Tables : DoesAskFor(r, t) \/ DoesDeleteRow(r, t) \/ DoesInheritId(r, t)
    <3>1. pc'[r] \in {"ask-nfs", "delete-nfs", "inherit-nfs", "ask-smb", "delete-smb",
                      "inherit-smb", "ask-target", "delete-target", "inherit-target",
                      "ask-extent", "delete-extent", "inherit-extent", "delete-namespace",
                      "inherit-namespace", "delete-subsys", "inherit-subsys"}
      BY <1>1 DEF Unsharing, Kinds
    <3>2. {"nfs", "smb", "target", "extent", "namespace", "subsys"} \subseteq Tables
      BY DEF Tables
    <3>3. QED
      BY <1>3, <3>1, <3>2, WentBy
  <2>2. CASE DoesFindShare(r)
    <3>1. SUFFICES ASSUME Dest(call[r]) \notin DOMAIN ds PROVE FALSE
      BY <2>2
    <3>2. pc'[r] = "origin"
      BY <1>1, <2>2, <3>1 DEF DoesFindShare, Moves
    <3>3. QED
      BY <1>1, <3>2 DEF Unsharing, Kinds
  <2>3. ASSUME NEW t \in Tables, DoesAskFor(r, t) \/ DoesDeleteRow(r, t) \/ DoesInheritId(r, t)
        PROVE  pc[r] \in Unsharing
    <3>1. t \in Used \ {"lun", "port"}
      BY <2>3 DEF DoesAskFor, DoesDeleteRow, DoesInheritId
    <3>2. t \in {"nfs", "smb", "target", "extent", "subsys", "namespace"}
      BY <1>1, <3>1 DEF Used, Kinds
    <3>3. DoesAskFor(r, t) => t \in {"nfs", "smb", "target", "extent"}
      BY <3>2 DEF DoesAskFor
    <3>4. pc[r] = Remove(t) \/ pc[r] = Inherit(t)
            \/ (pc[r] = Ask(t) /\ t \in {"nfs", "smb", "target", "extent"})
      BY <2>3, <3>3 DEF DoesAskFor, DoesDeleteRow, DoesInheritId
    <3>5. QED
      BY <1>1, <3>1, <3>2, <3>4, TableStepsAre DEF Used, Kinds, Unsharing
  <2>4. QED
    BY <2>1, <2>2, <2>3
<1>4. QED
  BY <1>2, <1>3

\* to where it will look at a row,
LEMMA AheadBy ==
  ASSUME Types, [Next]_vars, NEW r \in Requests, NEW t \in NamedTables, pc'[r] \in Ahead(t)
  PROVE  pc[r] \in Ahead(t) \/ DoesFindShare(r)
<1>1. CASE pc'[r] = pc[r]
  BY <1>1
<1>2. CASE pc'[r] # pc[r]
  <2>1. CASE t \in {"nfs", "smb", "target"}
    <3>1. CASE t = "nfs"
      BY <1>2, <3>1, WentBy, TableStepsAre DEF Ahead, DoesAskFor
    <3>2. CASE t = "smb"
      BY <1>2, <3>2, WentBy, TableStepsAre DEF Ahead, DoesAskFor
    <3>3. CASE t = "target"
      BY <1>2, <3>3, WentBy, TableStepsAre DEF Ahead, DoesAskFor
    <3>4. QED
      BY <2>1, <3>1, <3>2, <3>3
  <2>2. CASE t = "extent"
    <3>1. pc'[r] \in {"ask-target", "delete-target", "inherit-target", "ask-extent",
                      "delete-extent"}
      BY <2>2 DEF Ahead
    <3>2. \/ DoesFindShare(r) \/ DoesAskFor(r, "target") \/ DoesDeleteRow(r, "target")
          \/ DoesInheritId(r, "target") \/ DoesAskFor(r, "extent")
      BY <1>2, <3>1, WentBy
    <3>3. \/ DoesFindShare(r)
          \/ pc[r] \in {"ask-target", "delete-target", "inherit-target", "ask-extent"}
      BY <3>2, TableStepsAre DEF DoesAskFor, DoesDeleteRow, DoesInheritId
    <3>4. QED
      BY <2>2, <3>3 DEF Ahead
  <2>3. CASE t \in {"namespace", "subsys"}
    <3>1. pc'[r] \in {"delete-namespace", "inherit-namespace", "delete-subsys"}
          /\ (t = "namespace" => pc'[r] = "delete-namespace")
      BY <2>3 DEF Ahead
    <3>2. pc'[r] = "delete-namespace" => DoesFindShare(r)
      BY <1>2, WentBy
    <3>3. pc'[r] # "delete-namespace" =>
            DoesDeleteRow(r, "namespace") \/ DoesInheritId(r, "namespace")
      BY <1>2, <3>1, WentBy
    <3>4. pc'[r] # "delete-namespace" => pc[r] \in {"delete-namespace", "inherit-namespace"}
      BY <3>3, TableStepsAre DEF DoesDeleteRow, DoesInheritId
    <3>5. QED
      BY <2>3, <3>1, <3>2, <3>4 DEF Ahead
  <2>4. QED
    BY <2>1, <2>2, <2>3 DEF NamedTables
<1>3. QED
  BY <1>1, <1>2

\* and to where a row is gone.
LEMMA GoneBy ==
  ASSUME Types, [Next]_vars, NEW r \in Requests, Is(r, "DeleteVolume"),
         NEW t \in NamedTables, t \in Used, pc'[r] \in Gone(t)
  PROVE  \/ pc[r] \in Gone(t)
         \/ DoesFindShare(r) /\ Dest(call[r]) \notin DOMAIN ds
         \/ /\ DoesAskFor(r, t)
            /\ Own(r, t, mem[r].ids[t]) => <<t, call[r].volume>> \in overlooked'
         \/ DoesDeleteRow(r, t)
<1>1. kind \in Kinds /\ DOMAIN pc = Requests
  BY SetupsAre DEF Types
<1>2. CASE pc'[r] = pc[r]
  BY <1>2
<1>3. DoesFindShare(r) => pc'[r] # "origin" \/ Dest(call[r]) \notin DOMAIN ds
  BY <1>1 DEF DoesFindShare, Moves
<1>4. DoesAskFor(r, t) /\ Own(r, t, mem[r].ids[t]) => <<t, call[r].volume>> \in overlooked'
  <2>1. Moves(r, Remove(t)) => pc'[r] = Remove(t)
    BY <1>1 DEF Moves
  <2>2. Remove(t) \notin Gone(t)
    BY TableStepsAre DEF Gone, NamedTables, Unshared
  <2>3. QED
    BY <2>1, <2>2 DEF DoesAskFor
<1>5. CASE pc'[r] # pc[r] /\ pc'[r] \in Unshared
  <2>1. pc'[r] = "managed" => pc[r] \in Gone(t)
    <3>1. SUFFICES ASSUME pc'[r] = "managed" PROVE pc[r] \in Gone(t)
      OBVIOUS
    <3>2. pc[r] = "origin"
      BY <1>5, <3>1, WentBy DEF DoesDeferOrigin
    <3>3. QED
      BY <3>2 DEF Gone, NamedTables, Unshared
  <2>2. pc'[r] = "destroy" => pc[r] \in Gone(t)
    <3>1. SUFFICES ASSUME pc'[r] = "destroy" PROVE pc[r] \in Gone(t)
      OBVIOUS
    <3>2. pc[r] = "managed"
      BY <1>5, <3>1, WentBy DEF DoesCheckManaged, Is
    <3>3. QED
      BY <3>2 DEF Gone, NamedTables, Unshared
  <2>3. CASE pc'[r] = "origin"
    <3>1. \/ DoesFindShare(r)
          \/ \E u \in {"nfs", "smb", "extent", "subsys"} :
               DoesAskFor(r, u) \/ DoesDeleteRow(r, u) \/ DoesInheritId(r, u)
      BY <1>5, <2>3, WentBy
    <3>2. ASSUME NEW u \in {"nfs", "smb", "extent", "subsys"},
                 DoesAskFor(r, u) \/ DoesDeleteRow(r, u) \/ DoesInheritId(r, u)
          PROVE  \/ pc[r] \in Gone(t)
                 \/ u = t /\ (DoesAskFor(r, t) \/ DoesDeleteRow(r, t))
      <4>1. /\ u \in Used /\ (DoesAskFor(r, u) => u # "subsys")
            /\ pc[r] = Ask(u) \/ pc[r] = Remove(u) \/ pc[r] = Inherit(u)
            /\ DoesInheritId(r, u) => pc[r] = Inherit(u)
        BY <3>2 DEF DoesAskFor, DoesDeleteRow, DoesInheritId
      <4>2. CASE u = t
        <5>1. Inherit(t) \in Gone(t)
          BY <1>1, <3>2, <4>2, InheritingIs
        <5>2. QED
          BY <3>2, <4>1, <4>2, <5>1
      <4>3. CASE u # t
        <5>1. (u = "extent" /\ t = "target") \/ (u = "subsys" /\ t = "namespace")
          BY <1>1, <4>1, <4>3 DEF Used, Kinds, NamedTables
        <5>2. u = "subsys" => pc[r] = Remove(u) \/ pc[r] = Inherit(u)
          BY <3>2, <4>1 DEF DoesDeleteRow
        <5>3. QED
          BY <4>1, <5>1, <5>2, TableStepsAre DEF Gone
      <4>4. QED
        BY <4>2, <4>3
    <3>3. QED
      BY <1>3, <1>4, <2>3, <3>1, <3>2
  <2>4. QED
    BY <1>5, <2>1, <2>2, <2>3 DEF Unshared
<1>6. CASE pc'[r] # pc[r] /\ pc'[r] \notin Unshared
  <2>1. CASE t \in {"nfs", "smb", "extent", "subsys"}
    BY <1>6, <2>1, WentBy DEF Gone
  <2>2. CASE t = "target"
    <3>1. pc'[r] \in {"inherit-target", "ask-extent", "delete-extent", "inherit-extent"}
      BY <1>6, <2>2 DEF Gone
    <3>2. \/ DoesAskFor(r, "target") \/ DoesDeleteRow(r, "target") \/ DoesInheritId(r, "target")
          \/ DoesAskFor(r, "extent") \/ DoesDeleteRow(r, "extent")
      BY <1>6, <3>1, WentBy
    <3>3. \/ DoesAskFor(r, "target") \/ DoesDeleteRow(r, "target")
          \/ pc[r] \in {"inherit-target", "ask-extent", "delete-extent"}
      BY <3>2, TableStepsAre DEF DoesAskFor, DoesDeleteRow, DoesInheritId
    <3>4. QED
      BY <1>4, <2>2, <3>3 DEF Gone
  <2>3. CASE t = "namespace"
    <3>1. pc'[r] \in {"inherit-namespace", "delete-subsys", "inherit-subsys"}
      BY <1>6, <2>3 DEF Gone
    <3>2. \/ DoesDeleteRow(r, "namespace") \/ DoesInheritId(r, "namespace")
          \/ DoesDeleteRow(r, "subsys")
      BY <1>6, <3>1, WentBy
    <3>3. DoesDeleteRow(r, "namespace") \/ pc[r] \in {"inherit-namespace", "delete-subsys"}
      BY <3>2, TableStepsAre DEF DoesDeleteRow, DoesInheritId
    <3>4. QED
      BY <2>3, <3>3 DEF Gone
  <2>4. QED
    BY <2>1, <2>2, <2>3 DEF NamedTables
<1>7. QED
  BY <1>2, <1>5, <1>6

\* The places of a table are of its kind of share.
LEMMA AheadIs ==
  ASSUME kind \in Kinds, NEW t \in NamedTables, t \in Used
  PROVE  /\ Ahead(t) \subseteq Unsharing /\ Gone(t) \subseteq Unsharing \cup Unshared
         /\ Ahead(t) \cap Gone(t) = {} /\ Remove(t) \in Ahead(t)
         /\ t \notin {"subsys", "namespace"} => Ask(t) \in Ahead(t)
         /\ t \notin {"lun", "port"} /\ t \in Tables
<1>1. t \in {"nfs", "smb"} \/ t \in {"target", "extent"} \/ t \in {"subsys", "namespace"}
  BY DEF NamedTables
<1>2. CASE t \in {"nfs", "smb"}
  BY <1>2, TableStepsAre DEF Used, Kinds, Ahead, Gone, Unsharing, Unshared, Tables
<1>3. CASE t \in {"target", "extent"}
  BY <1>3, TableStepsAre DEF Used, Kinds, Ahead, Gone, Unsharing, Unshared, Tables
<1>4. CASE t \in {"subsys", "namespace"}
  BY <1>4, TableStepsAre DEF Used, Kinds, Ahead, Gone, Unsharing, Unshared, Tables
<1>5. QED
  BY <1>1, <1>2, <1>3, <1>4

\* What is said of a deletion's rows, after a step: row by row.
LEMMA GoesNext ==
  ASSUME call' = call, Used' = Used, kind' = kind, reuse' = reuse,
         NEW r \in Requests, NEW v, Deletes(r, v),
         pc'[r] \in Unsharing => Vol(v) \in DOMAIN ds',
         \A t \in NamedTables :
           /\ t \in Used /\ pc'[r] \in Ahead(t) => mem'[r].ids[t] = ds'[Vol(v)].ids[t]
           /\ \A i : pc'[r] = Remove(t) /\ reuse /\ i = mem'[r].ids[t] => Belongs(t, i, v)'
           /\ t \in Used /\ pc'[r] \in Gone(t) =>
                \A i \in Ids : Belongs(t, i, v)' => Forgotten(t, v)' /\ pc'[r] # Inherit(t)
  PROVE  ShareGoes(r)'
<1>1. \A t : \A i : i = mem'[r].ids[t] =>
        (Belongs(t, i, v)' <=> Belongs(t, mem[r].ids[t], v)')
  BY DEF Belongs, Named, Rows
<1>2. call[r].volume = v /\ call'[r].volume = v
  BY DEF Deletes
<1>3. \A t : /\ Ahead(t)' = Ahead(t) /\ Gone(t)' = Gone(t) /\ Unsharing' = Unsharing
             /\ Remove(t)' = Remove(t) /\ Inherit(t)' = Inherit(t)
  BY DEF Ahead, Gone, Unsharing, Unshared, Remove, RemoveSteps, Inherit, InheritSteps
<1>4. QED
  BY <1>1, <1>2, <1>3 DEF ShareGoes

\* A volume whose share is being deleted is there.
LEMMA UnsharingStands ==
  ASSUME Types, Control, VolumesAreSound, SharesAreSound, [Next]_vars,
         NEW r \in Requests, NEW v \in Volumes, Deletes(r, v), pc'[r] \in Unsharing
  PROVE  Vol(v) \in DOMAIN ds /\ Vol(v) \in DOMAIN ds'
<1>1. kind \in Kinds /\ SetupIs /\ DOMAIN pc = Requests
  BY SetupsAre DEF Types
<1>2. Is(r, "DeleteVolume") /\ call[r].volume = v /\ Dest(call[r]) = Vol(v)
  BY <1>1, ForVolumes DEF Deletes
<1>3. Vol(v) \in DOMAIN ds
  <2>1. pc[r] \in Unsharing \/ Vol(v) \in DOMAIN ds
    BY <1>2, UnsharingBy
  <2>2. ShareGoes(r)
    BY DEF SharesAreSound
  <2>3. QED
    BY <1>2, <2>1, <2>2 DEF ShareGoes
<1>4. Running(r) /\ Running(r)'
  BY <1>2, DeletingRan
<1>5. v \in DOMAIN promised
  BY <1>4, DeletionIsAlone
<1>6. ds[Vol(v)].whole
  <2>1. VolumeIsKept(v)
    BY DEF VolumesAreSound
  <2>2. QED
    BY <1>3, <1>5, <2>1 DEF VolumeIsKept, Receiving
<1>7. SUFFICES ASSUME Vol(v) \notin DOMAIN ds' PROVE FALSE
  BY <1>3
<1>8. PICK q \in Requests : Deletes(q, v) /\ Running(q) /\ DoesDestroyVolume(q)
  BY <1>3, <1>6, <1>7, LostVolume
<1>9. q = r
  BY <1>4, <1>8, DeletionIsAlone DEF Deletes, Is
<1>10. pc'[r] = "reply"
  BY <1>8, <1>9, TargetsAre
<1>11. QED
  BY <1>1, <1>10 DEF Unsharing, Kinds

\* The ids that are still to be looked at are the dataset's.
LEMMA AheadIsRead ==
  ASSUME Types, Control, VolumesAreSound, SharesAreSound, [Next]_vars,
         NEW r \in Requests, NEW v \in Volumes, Deletes(r, v),
         NEW t \in NamedTables, t \in Used, pc'[r] \in Ahead(t)
  PROVE  mem'[r].ids[t] = ds'[Vol(v)].ids[t]
<1>1. kind \in Kinds /\ SetupIs /\ DOMAIN mem = Requests
  BY SetupsAre DEF Types
<1>2. Is(r, "DeleteVolume") /\ call[r].volume = v /\ Dest(call[r]) = Vol(v)
  BY <1>1, ForVolumes DEF Deletes
<1>3. pc'[r] \in Unsharing /\ t \in Tables /\ t \notin {"lun", "port"}
        /\ Ahead(t) \cap Gone(t) = {} /\ Ahead(t) \subseteq Unsharing
  BY <1>1, AheadIs
<1>4. Vol(v) \in DOMAIN ds /\ Vol(v) \in DOMAIN ds'
  BY <1>3, UnsharingStands
<1>5. Running(r) /\ Running(r)'
  BY <1>2, <1>3, DeletingRan
<1>6. CASE DoesFindShare(r)
  <2>1. mem \in [Requests -> MemoryType]
    BY DEF Types
  <2>2. mem' = [mem EXCEPT ![r].ids = ds[Vol(v)].ids] /\ ds' = ds
    BY <1>2, <1>4, <1>6 DEF DoesFindShare
  <2>3. mem'[r].ids = ds[Vol(v)].ids
    BY <2>1, <2>2 DEF MemoryType
  <2>4. QED
    BY <2>2, <2>3
<1>7. CASE ~ DoesFindShare(r)
  <2>1. pc[r] \in Ahead(t)
    BY <1>7, AheadBy
  <2>2. mem[r].ids[t] = ds[Vol(v)].ids[t]
    <3>1. ShareGoes(r)
      BY DEF SharesAreSound
    <3>2. QED
      BY <1>2, <2>1, <3>1 DEF ShareGoes
  <2>3. mem'[r].ids = mem[r].ids
    BY <1>2, <1>5, <1>7, Remembered DEF DoesPost, Is
  <2>4. ds'[Vol(v)].ids[t] = ds[Vol(v)].ids[t]
    <3>1. \/ ds'[Vol(v)].ids = ds[Vol(v)].ids
          \/ \E q \in Requests : \E u \in Tables :
                 /\ Running(q)
                 /\ \/ /\ DoesKeepId(q, u) /\ Creates(q, v)
                       /\ ds'[Vol(v)].ids = [ds[Vol(v)].ids EXCEPT ![u] = mem[q].ids[u]]
                    \/ /\ DoesInheritId(q, u) /\ Deletes(q, v)
                       /\ ds'[Vol(v)].ids = [ds[Vol(v)].ids EXCEPT ![u] = 0]
      BY <1>4, KeptVolume
    <3>2. ASSUME NEW q \in Requests, NEW u \in Tables, Running(q), DoesKeepId(q, u), Creates(q, v)
          PROVE  FALSE
      BY <1>5, <3>2, DeletionIsAlone DEF Running, Unfinished
    <3>3. ASSUME NEW q \in Requests, NEW u \in Tables, Running(q), DoesInheritId(q, u),
                 Deletes(q, v)
          PROVE  u # t
      <4>1. q = r
        BY <1>5, <3>3, DeletionIsAlone DEF Deletes, Is
      <4>2. pc[r] = Inherit(u)
        BY <3>3, <4>1 DEF DoesInheritId
      <4>3. Inherit(t) \in Gone(t)
        BY <1>1, <1>3, InheritingIs
      <4>4. QED
        BY <1>3, <2>1, <4>2, <4>3
    <3>4. ds[Vol(v)].ids \in [Tables -> Ids0]
      BY <1>4, IdsAreIds
    <3>5. QED
      BY <1>3, <3>1, <3>2, <3>3, <3>4
  <2>5. QED
    BY <2>2, <2>3, <2>4
<1>8. QED
  BY <1>6, <1>7

\* The row that is about to be deleted is the volume's, though ids are given again.
LEMMA RemovingIsMine ==
  ASSUME Types, Control, VolumesAreSound, SharesAreSound, [Next]_vars,
         NEW r \in Requests, NEW v \in Volumes, Deletes(r, v),
         NEW t \in NamedTables, pc'[r] = Remove(t), reuse, NEW i, i = mem'[r].ids[t]
  PROVE  Belongs(t, i, v)'
<1>1. kind \in Kinds /\ SetupIs /\ DOMAIN mem = Requests /\ DOMAIN pc = Requests
        /\ ~ drops /\ kind # "nvmeof" /\ InItsPlace(r)
  BY SetupsAre DEF Types
<1>2. Is(r, "DeleteVolume") /\ call[r].volume = v /\ Dest(call[r]) = Vol(v) /\ Mine(r) = v
  BY <1>1, ForVolumes DEF Deletes, Mine
<1>3. t \in Tables
  BY DEF NamedTables, Tables
<1>4. ShareGoes(r) /\ RowsAreSound /\ VolumeIsKept(v)
  BY DEF SharesAreSound, VolumesAreSound
<1>5. CASE pc'[r] = pc[r]
  <2>1. t \in Used \ {"lun", "port"}
    BY <1>1, <1>3, <1>5, TablePlaceIs
  <2>2. pc'[r] \in Unsharing
    BY <1>1, <2>1, RemovingIs
  <2>3. Running(r) /\ Running(r)'
    BY <1>2, <2>2, DeletingRan
  <2>4. pc[r] # "find"
    BY <1>5, TableStepsAre DEF NamedTables
  <2>5. mem'[r].ids = mem[r].ids
    BY <1>2, <2>3, <2>4, Remembered DEF DoesPost, DoesFindShare, Is
  <2>6. Belongs(t, i, v)
    BY <1>2, <1>4, <1>5, <2>5 DEF ShareGoes
  <2>7. SUFFICES ASSUME ~ Belongs(t, i, v)' PROVE FALSE
    OBVIOUS
  <2>8. PICK q \in Requests, u \in Tables : \E j \in Ids : Erased(q, u, j, v)
    BY <1>3, <2>6, <2>7, OwnersChange
  <2>9. Deletes(q, v) /\ Running(q) /\ DoesDeleteRow(q, u)
    BY <1>1, <2>8 DEF Erased
  <2>10. q = r
    BY <2>3, <2>9, DeletionIsAlone DEF Deletes, Is
  <2>11. u \in {"nfs", "smb", "target", "extent", "subsys", "namespace"}
    BY <1>1, <2>9 DEF DoesDeleteRow, Used, Kinds
  <2>12. pc[r] = Remove(u) /\ pc'[r] \in {Inherit(u), AfterInherit(u)}
    <3>1. pc[r] = Remove(u)
      BY <2>9, <2>10 DEF DoesDeleteRow
    <3>2. QED
      BY <2>9, <2>10, <3>1, TargetsAre
  <2>13. QED
    BY <1>5, <2>11, <2>12, TableStepsAre DEF AfterInherit
<1>6. CASE pc'[r] # pc[r]
  <2>1. "namespace" \notin Used
    BY <1>1 DEF Used, Kinds
  <2>2. DoesAskFor(r, t)
    <3>1. t = "namespace" => FALSE
      <4>1. SUFFICES ASSUME t = "namespace" PROVE FALSE
        OBVIOUS
      <4>2. pc'[r] = "delete-namespace"
        BY <4>1, TableStepsAre
      <4>3. DoesFindShare(r)
        BY <1>6, <4>2, WentBy
      <4>4. QED
        BY <1>1, <4>2, <4>3 DEF DoesFindShare, Moves, Kinds
    <3>2. t = "subsys" => FALSE
      <4>1. SUFFICES ASSUME t = "subsys" PROVE FALSE
        OBVIOUS
      <4>2. pc'[r] = "delete-subsys"
        BY <4>1, TableStepsAre
      <4>3. DoesDeleteRow(r, "namespace") \/ DoesInheritId(r, "namespace")
        BY <1>6, <4>2, WentBy
      <4>4. QED
        BY <2>1, <4>3 DEF DoesDeleteRow, DoesInheritId
    <3>3. CASE t \in {"nfs", "smb", "target", "extent"}
      <4>1. pc'[r] \in {"delete-nfs", "delete-smb", "delete-target", "delete-extent"}
        BY <3>3, TableStepsAre
      <4>2. QED
        BY <1>6, <3>3, <4>1, WentBy, TableStepsAre
    <3>4. QED
      BY <3>1, <3>2, <3>3 DEF NamedTables
  <2>3. /\ t \in Used \ {"lun", "port", "subsys", "namespace"} /\ mem' = mem /\ table' = table
        /\ \/ Moves(r, Remove(t)) /\ Own(r, t, mem[r].ids[t])
           \/ Moves(r, AfterInherit(t))
    BY <2>2 DEF DoesAskFor
  <2>4. Own(r, t, i)
    <3>1. t \in {"nfs", "smb", "target", "extent"}
      BY <1>1, <2>3 DEF Used, Kinds
    <3>2. AfterInherit(t) # Remove(t)
      BY <3>1, TableStepsAre DEF AfterInherit
    <3>3. QED
      BY <1>1, <2>3, <3>2 DEF Moves
  <2>5. Vol(v) \in DOMAIN ds
    <3>1. Remove(t) \in Unsharing
      BY <1>1, <2>3, RemovingIs
    <3>2. QED
      BY <3>1, UnsharingStands
  <2>6. v \in DOMAIN promised
    <3>1. Running(r)
      BY <2>3 DEF Moves
    <3>2. QED
      BY <3>1, DeletionIsAlone
  <2>7. kind = "iscsi" => "name" \in ds[Dest(call[r])].has
    BY <1>2, <1>4, <2>5, <2>6 DEF VolumeIsKept
  <2>8. Named(t, i, v)
    BY <1>2, <2>4, <2>7 DEF Own, Named
  <2>9. Belongs(t, i, v)
    BY <1>4, <2>8, NamedIs
  <2>10. QED
    BY <2>3, <2>9 DEF Belongs, Named, Rows
<1>7. QED
  BY <1>5, <1>6

\* And where it is gone, it is, or was taken for it.
LEMMA GoneIsGone ==
  ASSUME Types, Control, VolumesAreSound, SharesAreSound, [Next]_vars,
         NEW r \in Requests, NEW v \in Volumes, Deletes(r, v),
         NEW t \in NamedTables, t \in Used, pc'[r] \in Gone(t), NEW i \in Ids, Belongs(t, i, v)'
  PROVE  Forgotten(t, v)' /\ pc'[r] # Inherit(t)
<1>1. kind \in Kinds /\ SetupIs
  BY SetupsAre DEF Types
<1>2. Is(r, "DeleteVolume") /\ call[r].volume = v /\ Dest(call[r]) = Vol(v) /\ Mine(r) = v
  BY <1>1, ForVolumes DEF Deletes, Mine
<1>3. /\ pc'[r] \in Unsharing \cup Unshared /\ t \in Tables /\ t \notin {"lun", "port"}
      /\ Ahead(t) \subseteq Unsharing /\ Remove(t) \in Ahead(t)
      /\ t \notin {"subsys", "namespace"} => Ask(t) \in Ahead(t)
  BY <1>1, AheadIs
<1>4. Running(r) /\ Running(r)'
  BY <1>2, <1>3, DeletingRan
<1>5. v \in DOMAIN promised
  BY <1>4, DeletionIsAlone
<1>6. ShareGoes(r) /\ RowsAreSound /\ ShareIsKept(v)
  BY DEF SharesAreSound
<1>8. Belongs(t, i, v)
  <2>1. Belongs(t, i, v) \/ \E q \in Requests : Posted(q, t, i, v)
    BY <1>3, OwnersChange
  <2>2. ASSUME NEW q \in Requests, Posted(q, t, i, v) PROVE FALSE
    <3>1. Creates(q, v) /\ Running(q)
      BY <2>2 DEF Posted
    <3>2. QED
      BY <1>4, <3>1, DeletionIsAlone DEF Running, Unfinished
  <2>3. QED
    BY <2>1, <2>2
<1>9. i \in Rows(t) /\ Named(t, i, v) /\ table[t][i][1] = v
  BY <1>8, NamedIs DEF Named
<1>10. pc[r] \in Ahead(t) => mem[r].ids[t] = i
  <2>1. SUFFICES ASSUME pc[r] \in Ahead(t) PROVE mem[r].ids[t] = i
    OBVIOUS
  <2>2. Vol(v) \in DOMAIN ds /\ mem[r].ids[t] = ds[Vol(v)].ids[t]
    BY <1>2, <1>3, <1>6, <2>1 DEF ShareGoes
  <2>3. QED
    BY <1>5, <1>6, <1>8, <2>2 DEF ShareIsKept
<1>11. ASSUME DoesDeleteRow(r, t) PROVE FALSE
  <2>1. pc[r] = Remove(t)
    BY <1>11 DEF DoesDeleteRow
  <2>2. mem[r].ids[t] = i
    BY <1>3, <1>10, <2>1
  <2>3. i # 0
    BY IdsAssumption
  <2>4. Erases(t, i)
    BY <1>9, <1>11, <2>2, <2>3 DEF DoesDeleteRow
  <2>5. table'[t][i] \in {Free, Spent}
    BY <1>3, <2>4 DEF Erases
  <2>6. i \in Rows(t)'
    BY DEF Belongs
  <2>7. QED
    BY <2>5, <2>6, RowsAre
<1>12. pc'[r] # Inherit(t)
  <2>1. pc[r] # Inherit(t) \/ pc[r] \notin Gone(t)
    BY <1>2, <1>6, <1>8 DEF ShareGoes
  <2>2. QED
    BY <1>11, <2>1, WentBy, TableStepsAre DEF NamedTables
<1>13. CASE pc[r] \in Gone(t)
  BY <1>2, <1>6, <1>8, <1>12, <1>13, ForgottenStays DEF ShareGoes
<1>14. CASE Dest(call[r]) \notin DOMAIN ds
  <2>1. PICK w \in Volumes : Belongs(t, i, w) /\ (Vol(w) \in DOMAIN ds \/ Forgotten(t, w))
    BY <1>3, <1>6, <1>9 DEF RowsAreSound
  <2>2. w = v
    BY <1>3, <1>8, <2>1, OneOwner
  <2>3. QED
    BY <1>2, <1>12, <1>14, <2>1, <2>2, ForgottenStays
<1>15. CASE /\ DoesAskFor(r, t)
            /\ Own(r, t, mem[r].ids[t]) => <<t, call[r].volume>> \in overlooked'
  <2>1. pc[r] = Ask(t) /\ t \notin {"subsys", "namespace"}
    BY <1>15 DEF DoesAskFor
  <2>2. mem[r].ids[t] = i
    BY <1>3, <1>10, <2>1
  <2>3. QED
    BY <1>2, <1>3, <1>9, <1>12, <1>15, <2>2 DEF Own, Forgotten
<1>16. QED
  BY <1>2, <1>11, <1>13, <1>14, <1>15, GoneBy

\* What is known of the rows of a deletion.
LEMMA DeletionsGo ==
  ASSUME Types, Control, VolumesAreSound, SharesAreSound, [Next]_vars, NEW r \in Requests
  PROVE  ShareGoes(r)'
<1>1. SetupIs /\ call \in Plans /\ UNCHANGED <<call, kind, reuse>>
  BY SetupsAre, ForwardIs DEF Types, Forward
<1>2. Used' = Used
  BY <1>1 DEF Used
<1>3. CASE ~ Is(r, "DeleteVolume")
  BY <1>1, <1>3 DEF ShareGoes, Is
<1>4. CASE Is(r, "DeleteVolume")
  <2>1. PICK v \in Volumes : v = call[r].volume
    BY <1>1, CallsAre
  <2>2. Deletes(r, v)
    BY <1>4, <2>1 DEF Deletes
  <2>3. pc'[r] \in Unsharing => Vol(v) \in DOMAIN ds'
    BY <2>2, UnsharingStands
  <2>4. ASSUME NEW t \in NamedTables
        PROVE  /\ t \in Used /\ pc'[r] \in Ahead(t) => mem'[r].ids[t] = ds'[Vol(v)].ids[t]
               /\ \A i : pc'[r] = Remove(t) /\ reuse /\ i = mem'[r].ids[t] => Belongs(t, i, v)'
               /\ t \in Used /\ pc'[r] \in Gone(t) =>
                    \A i \in Ids : Belongs(t, i, v)' => Forgotten(t, v)' /\ pc'[r] # Inherit(t)
    <3>1. t \in Used /\ pc'[r] \in Ahead(t) => mem'[r].ids[t] = ds'[Vol(v)].ids[t]
      BY <2>2, AheadIsRead
    <3>2. \A i : pc'[r] = Remove(t) /\ reuse /\ i = mem'[r].ids[t] => Belongs(t, i, v)'
      BY <2>2, RemovingIsMine
    <3>3. t \in Used /\ pc'[r] \in Gone(t) =>
            \A i \in Ids : Belongs(t, i, v)' => Forgotten(t, v)' /\ pc'[r] # Inherit(t)
      BY <2>2, GoneIsGone
    <3>4. QED
      BY <3>1, <3>2, <3>3
  <2>5. QED
    BY <1>1, <1>2, <2>2, <2>3, <2>4, GoesNext
<1>5. QED
  BY <1>3, <1>4

\* What is said of shares stays true,
LEMMA SharesStay ==
  ASSUME Types, Control, VolumesAreSound, SharesAreSound, [Next]_vars
  PROVE  SharesAreSound'
<1>1. RowsAreSound'
  BY RowsStaySound
<1>2. \A v \in Volumes : IdsAreSound(v)' /\ ShareIsKept(v)'
  BY IdsStaySound, SharesAreKept
<1>3. \A r \in Requests : ShareStands(r)' /\ ShareGoes(r)'
  BY SharesStand, DeletionsGo
<1>4. QED
  BY <1>1, <1>2, <1>3 DEF SharesAreSound

\* and is true at first, when the tables are empty.
LEMMA SharesBegin ==
  ASSUME Init
  PROVE  SharesAreSound
<1>1. /\ DOMAIN ds = {} /\ DOMAIN promised = {} /\ \A r \in Requests : pc[r] = "idle"
      /\ \A t \in Tables, i \in Ids : table[t][i] = Free
  BY DEF Init, EmptyTables
<1>2. SetupIs /\ kind \in Kinds
  BY TypesBegin, SetupsAre DEF Types
<1>3. \A t \in Tables : \A i : i \notin Rows(t)
  BY <1>1 DEF Rows
<1>4. RowsAreSound
  BY <1>3 DEF RowsAreSound, Belongs
<1>5. \A v \in Volumes : IdsAreSound(v) /\ ShareIsKept(v)
  BY <1>1 DEF IdsAreSound, ShareIsKept
<1>6. ASSUME NEW r \in Requests PROVE ShareStands(r) /\ ShareGoes(r)
  <2>1. pc[r] = "idle" /\ "idle" \notin MadeSteps /\ "idle" \notin Unsharing \cup Unshared
    BY <1>1, <1>2, MadeStepsAre DEF Unsharing, Unshared, Kinds
  <2>2. ASSUME NEW t \in Used PROVE pc[r] \notin Got(t) /\ (t # "port" => pc[r] \notin Kept(t))
    BY <1>2, <2>1, SharingAre
  <2>3. pc[r] \notin {"name", "keep-target"} \cup Shared
    BY <2>1 DEF Shared
  <2>4. ShareStands(r)
    BY <2>2, <2>3 DEF ShareStands
  <2>5. ASSUME NEW t \in NamedTables
        PROVE  /\ pc[r] # Remove(t)
               /\ t \in Used => pc[r] \notin Ahead(t) /\ pc[r] \notin Gone(t)
    <3>1. pc[r] # Remove(t)
      BY <2>1, TableStepsAre DEF NamedTables
    <3>2. t \in Used => pc[r] \notin Ahead(t) /\ pc[r] \notin Gone(t)
      BY <1>2, <2>1, AheadIs
    <3>3. QED
      BY <3>1, <3>2
  <2>6. ShareGoes(r)
    BY <2>1, <2>5 DEF ShareGoes
  <2>7. QED
    BY <2>4, <2>6
<1>7. QED
  BY <1>4, <1>5, <1>6 DEF SharesAreSound

------------------------------------------------------------
(* What the shares' part of the invariant shows.          *)

\* A row of a volume goes only while its deletion runs.
LEMMA RowsGoByDeletion ==
  ASSUME Types, Control, VolumesAreSound, SharesAreSound, [Next]_vars,
         NEW v \in Volumes, ~ Deleting(v)
  PROVE  RowsNamed(v) \subseteq RowsNamed(v)'
<1>1. SUFFICES ASSUME NEW x \in RowsNamed(v) PROVE x \in RowsNamed(v)'
  OBVIOUS
<1>2. PICK t \in NamedTables, i \in Ids : x = <<t, i>> /\ Named(t, i, v)
  BY <1>1 DEF RowsNamed, Named
<1>3. RowsAreSound /\ t \in Tables
  BY DEF SharesAreSound, NamedTables, Tables
<1>4. Belongs(t, i, v)
  BY <1>2, <1>3, NamedIs
<1>5. Belongs(t, i, v)' \/ \E q \in Requests, u \in Tables : \E j \in Ids : Erased(q, u, j, v)
  BY <1>3, <1>4, OwnersChange
<1>6. ASSUME NEW q \in Requests, NEW u \in Tables, NEW j \in Ids, Erased(q, u, j, v)
      PROVE  FALSE
  <2>1. Deletes(q, v) /\ Running(q)
    BY <1>6 DEF Erased
  <2>2. QED
    BY <2>1 DEF Deletes, Deleting
<1>7. Named(t, i, v)'
  BY <1>5, <1>6, NamedIs
<1>8. QED
  BY <1>2, <1>7 DEF RowsNamed, Named

\* The rows of a volume that was acknowledged belong together.
LEMMA KeptServes ==
  ASSUME Types, SharesAreSound, NEW v \in Volumes, v \in DOMAIN promised,
         Vol(v) \in DOMAIN ds, ~ VolumeUnwanted(v)
  PROVE  Serves(v)
<1>1. kind \in Kinds /\ RowsAreSound /\ IdsAreSound(v) /\ ShareIsKept(v)
  BY SetupsAre DEF Types, SharesAreSound
<1>2. PICK ids : ids = ds[Vol(v)].ids
  OBVIOUS
<1>3. \A t \in Used \ {"port"} : ids[t] # 0
  BY <1>1, <1>2 DEF ShareIsKept
<1>4. \A t \in Used : t \in Tables
  BY <1>1 DEF Used, Kinds, Tables
<1>5. \A t \in Used \ {"port"} : Belongs(t, ids[t], v)
  BY <1>1, <1>2, <1>3, <1>4 DEF IdsAreSound
<1>6. \A t \in NamedTables : \A i \in Ids : Named(t, i, v) => i = ids[t]
  BY <1>1, <1>2, NamedIs DEF ShareIsKept
<1>7. CASE kind = "iscsi"
  <2>1. Used = {"target", "extent", "lun"}
    BY <1>7 DEF Used
  <2>2. table["target"][ids["target"]] = <<v, TRUE>>
    BY <1>1, <1>2, <1>3, <2>1 DEF IdsAreSound
  <2>3. table["extent"][ids["extent"]] = <<v>>
    BY <1>5, <2>1, BelongsIs
  <2>4. table["lun"][ids["lun"]] = <<ids["target"], ids["extent"]>>
    <3>1. Belongs("lun", ids["lun"], v)
      BY <1>5, <2>1
    <3>2. PICK a \in Ids, b \in Ids : /\ table["lun"][ids["lun"]] = <<a, b>>
                                      /\ Named("target", a, v) /\ Named("extent", b, v)
      BY <3>1, BelongsIs
    <3>3. "target" \in NamedTables /\ "extent" \in NamedTables
      BY DEF NamedTables
    <3>4. a = ids["target"] /\ b = ids["extent"]
      BY <1>6, <3>2, <3>3
    <3>5. QED
      BY <3>2, <3>4
  <2>5. ids["target"] # 0 /\ ids["extent"] # 0 /\ ids["lun"] # 0
    BY <1>3, <2>1
  <2>6. QED
    BY <1>2, <1>7, <2>2, <2>3, <2>4, <2>5 DEF Serves, Target, Extent, Lun
<1>8. CASE kind = "nvmeof"
  <2>1. Used = {"subsys", "namespace", "port"} /\ "subsys" \in NamedTables
    BY <1>8 DEF Used, NamedTables
  <2>2. table["subsys"][ids["subsys"]] = <<v>>
    BY <1>5, <2>1, BelongsIs
  <2>3. table["namespace"][ids["namespace"]] = <<v, ids["subsys"]>>
    <3>1. Belongs("namespace", ids["namespace"], v)
      BY <1>5, <2>1
    <3>2. PICK a \in Ids : /\ table["namespace"][ids["namespace"]] = <<v, a>>
                           /\ Named("subsys", a, v)
      BY <3>1, BelongsIs
    <3>3. a = ids["subsys"]
      BY <1>6, <2>1, <3>2
    <3>4. QED
      BY <3>2, <3>3
  <2>4. \E i \in Rows("port") : table["port"][i] = <<ids["subsys"]>>
    <3>1. PICK i \in Ids : Belongs("port", i, v)
      BY <1>1, <1>8 DEF ShareIsKept
    <3>2. i \in Rows("port") /\ \E a \in Ids : table["port"][i] = <<a>> /\ Named("subsys", a, v)
      BY <3>1, BelongsIs
    <3>3. QED
      BY <1>6, <2>1, <3>2
  <2>5. ids["subsys"] # 0 /\ ids["namespace"] # 0
    BY <1>3, <2>1
  <2>6. QED
    BY <1>2, <1>8, <2>2, <2>3, <2>4, <2>5 DEF Serves, Subsystem, Namespace, Port
<1>9. CASE kind \in {"nfs", "smb"}
  <2>1. Used = {kind} /\ kind # "port"
    BY <1>9 DEF Used
  <2>2. ids[kind] # 0 /\ Belongs(kind, ids[kind], v)
    BY <1>3, <1>5, <2>1
  <2>3. table[kind][ids[kind]] = <<v>>
    BY <1>9, <2>2, BelongsIs
  <2>4. QED
    BY <1>2, <1>9, <2>2, <2>3 DEF Serves
<1>10. QED
  BY <1>1, <1>7, <1>8, <1>9 DEF Kinds

\* Volumes that were acknowledged serve.
LEMMA AckedServe ==
  ASSUME Types, VolumesAreSound, SharesAreSound
  PROVE  AckedVolumesServe
<1>1. SUFFICES ASSUME NEW v \in Volumes, OwnsVolume(v)
               PROVE  /\ Vol(v) \in DOMAIN ds
                      /\ {"context", "success"} \subseteq ds[Vol(v)].has
                      /\ Zvols => ds[Vol(v)].size >= promised[v]
                      /\ Serves(v)
  BY DEF AckedVolumesServe
<1>2. v \in DOMAIN promised /\ ~ VolumeUnwanted(v)
  BY <1>1 DEF OwnsVolume, VolumeUnwanted, Deletes, Sent, Is
<1>3. VolumeIsKept(v)
  BY DEF VolumesAreSound
<1>4. /\ Vol(v) \in DOMAIN ds /\ {"context", "success"} \subseteq ds[Vol(v)].has
      /\ Zvols => ds[Vol(v)].size >= promised[v]
  BY <1>2, <1>3 DEF VolumeIsKept
<1>5. QED
  BY <1>2, <1>4, KeptServes

------------------------------------------------------------
(* Snapshots stay sound.                                  *)

\* The tags of what is copied, and who replicates.
LEMMA TagsAre ==
  ASSUME SetupIs, NEW r \in Requests
  PROVE  /\ Copies(call[r]) =>
              /\ Is(r, "CreateSnapshot") \/ (Is(r, "CreateVolume") /\ call[r].source[1] # "none")
              /\ Tag(call[r])[1] # "csi" /\ CopyFrom(call[r])[2] = Tag(call[r])
              /\ CopyFrom(call[r])[1] = From(call[r])
         /\ Replicates(call[r]) =>
              /\ Copies(call[r]) /\ call[r].detached /\ ~ ByCloning(call[r])
              /\ Is(r, "CreateSnapshot") \/ (Is(r, "CreateVolume") /\ call[r].source[1] # "none")
<1>1. call \in Plans
  BY SetupsAre
<1>2. Is(r, "CreateVolume") /\ call[r].source[1] # "none" =>
        call[r].source[1] \in {"volume", "detached"} \/ ~ call[r].detached
  <2>1. Is(r, "CreateVolume") /\ call[r].source[1] = "snapshot" => ~ call[r].detached
    BY SetupsAre
  <2>2. call[r].source[1] \in {"none", "volume", "snapshot", "detached"}
    BY <1>1, SourcesAre
  <2>3. QED
    BY <2>1, <2>2
<1>3. Replicates(call[r]) => Copies(call[r])
  BY <1>2 DEF Replicates, Copies, Is
<1>4. Copies(call[r]) =>
        Is(r, "CreateSnapshot") \/ (Is(r, "CreateVolume") /\ call[r].source[1] # "none")
  BY DEF Copies, Is
<1>5. Copies(call[r]) => Tag(call[r])[1] # "csi"
  <2>1. Copies(call[r]) => \/ Is(r, "CreateSnapshot")
                           \/ Is(r, "CreateVolume") /\ call[r].source[1] \in {"volume", "detached"}
    BY DEF Copies, Is
  <2>2. \A x : <<"for-snapshot", x>>[1] = "for-snapshot" /\ <<"for-volume", x>>[1] = "for-volume"
    OBVIOUS
  <2>3. QED
    BY <2>1, <2>2, FromIs
<1>6. Copies(call[r]) => CopyFrom(call[r])[2] = Tag(call[r]) /\ CopyFrom(call[r])[1] = From(call[r])
  BY <1>1, <1>4, CopyIs
<1>7. Replicates(call[r]) => call[r].detached /\ ~ ByCloning(call[r])
  BY DEF Replicates, ByCloning
<1>8. QED
  BY <1>3, <1>4, <1>5, <1>6, <1>7

\* What is copied is whole.
LEMMA SourcesAreWhole ==
  ASSUME Types, Control, VolumesAreSound, SnapshotsAreSound, NEW r \in Requests, Running(r),
         Copies(call[r]) \/ Is(r, "CreateSnapshot"), From(call[r]) \in DOMAIN ds
  PROVE  ds[From(call[r])].whole
<1>1. SetupIs /\ call \in Plans /\ Sent(r) /\ SourceWasMade(r)
  BY SetupsAre DEF Types, Control, Running, Sent
<1>2. \A v \in DOMAIN promised : Vol(v) \in DOMAIN ds => ds[Vol(v)].whole
  BY DEF VolumesAreSound, VolumeIsKept, Receiving, Types
<1>3. CASE Is(r, "CreateSnapshot")
  <2>1. From(call[r]) = Vol(call[r].volume) /\ call[r].volume \in DOMAIN promised
    BY <1>1, <1>3, FromIs DEF SourceWasMade, Is
  <2>2. QED
    BY <1>2, <2>1
<1>4. CASE Is(r, "CreateVolume") /\ call[r].source[1] = "volume"
  <2>1. From(call[r]) = Vol(call[r].source[2]) /\ call[r].source[2] \in DOMAIN promised
    BY <1>1, <1>4, FromIs DEF SourceWasMade, Is
  <2>2. QED
    BY <1>2, <2>1
<1>5. CASE Is(r, "CreateVolume") /\ call[r].source[1] = "detached"
  <2>1. PICK sid : sid = call[r].source
    OBVIOUS
  <2>2. From(call[r]) = Det(sid[2], sid[3]) /\ sid \in DOMAIN captured /\ sid[1] = "detached"
    BY <1>1, <1>5, <2>1, FromIs DEF SourceWasMade, Is
  <2>3. PICK q \in Requests : Takes(q, sid) /\ pc[q] = "done"
    BY <2>2 DEF Control, PromisesAreMade
  <2>4. /\ Is(q, "CreateSnapshot") /\ IdOf(call[q]) = sid /\ call[q].detached
        /\ Dest(call[q]) = From(call[r])
    <3>1. Is(q, "CreateSnapshot") /\ IdOf(call[q]) = sid
      BY <2>3 DEF Takes
    <3>2. call[q].volume = sid[2] /\ call[q].name = sid[3] /\ call[q].detached
      BY <2>2, <3>1, IdsAre
    <3>3. QED
      BY <1>1, <2>2, <3>1, <3>2, DestIs
  <2>5. SUFFICES ASSUME ~ ds[From(call[r])].whole PROVE FALSE
    OBVIOUS
  <2>6. CASE ~ SnapshotUnwanted(sid)
    <3>1. SnapshotStands(q)
      BY DEF SnapshotsAreSound
    <3>2. ~ Receiving(Dest(call[q]))
      BY <2>3, <2>4, <2>6, <3>1 DEF SnapshotStands, Is
    <3>3. QED
      BY <2>4, <2>5, <3>2 DEF Receiving
  <2>7. CASE SnapshotUnwanted(sid)
    <3>1. PICK p \in Requests : /\ Replicates(call[p]) /\ Dest(call[p]) = From(call[r])
                                /\ pc[p] \in Holding
      BY <2>5 DEF VolumesAreSound, ReceivingIsHeld
    <3>2. Is(p, "CreateSnapshot")
      <4>1. Is(p, "CreateVolume") => Dest(call[p]) = Vol(VolumeId(call[p]))
        BY <1>1, DestIs DEF Is
      <4>2. QED
        BY <1>1, <2>2, <3>1, <4>1, TagsAre, NamesDiffer
    <3>3. Dest(call[p]) = Det(call[p].volume, call[p].name) /\ call[p].detached
      BY <1>1, <3>1, <3>2, DestIs DEF Replicates
    <3>4. call[p].volume = sid[2] /\ call[p].name = sid[3]
      <4>1. Det(call[p].volume, call[p].name) = Det(sid[2], sid[3])
        BY <2>2, <3>1, <3>3
      <4>2. QED
        BY <4>1, NamesAre
    <3>5. call[q].volume = sid[2] /\ call[q].name = sid[3]
      BY <2>4, IdsAre
    <3>6. IdOf(call[p]) = sid
      BY <2>4, <3>3, <3>4, <3>5 DEF IdOf
    <3>7. Takes(p, sid) /\ sid \in SnapshotIds
      BY <2>2, <3>2, <3>6 DEF Takes, Types
    <3>8. ~ Unfinished(p)
      BY <2>7, <3>7 DEF SnapshotUnwanted, Control, UnwantedIsSettled
    <3>9. QED
      BY <3>1, <3>8 DEF Holding, Unfinished
  <2>8. QED
    BY <2>6, <2>7
<1>6. QED
  BY <1>3, <1>4, <1>5 DEF Copies, Is

\* The origin of a dataset does not change.
LEMMA OriginStays ==
  ASSUME Types, [Next]_vars, NEW d \in DOMAIN ds, d \in DOMAIN ds'
  PROVE  ds'[d].origin = ds[d].origin
<1>1. ds[d] \in DatasetType
  BY DEF Types
<1>2. PICK new : new = ds'[d]
  OBVIOUS
<1>3. \/ new = ds[d]
      \/ \E x : new = [ds[d] EXCEPT !.has = x]
      \/ \E x : new = [ds[d] EXCEPT !.size = x]
      \/ \E t \in Tables : \E x : new = [ds[d] EXCEPT !.ids[t] = x]
      \/ \E x : new = [ds[d] EXCEPT !.whole = x]
  BY <1>2, KeptDatasets
<1>4. new.origin = ds[d].origin
  BY <1>1, <1>3 DEF DatasetType
<1>5. QED
  BY <1>2, <1>4

\* A dataset that has an origin is a clone.
LEMMA NewOrigins ==
  ASSUME Types, [Next]_vars, NEW d \in DOMAIN ds', d \notin DOMAIN ds, ds'[d].origin # NoOrigin
  PROVE  \E r \in Requests :
           /\ DoesClone(r) /\ d = Dest(call[r]) /\ CopyFrom(call[r]) \in DOMAIN snap
           /\ ds'[d].origin = CopyFrom(call[r]) /\ snap' = snap
<1>1. \A k, size, has, whole : Dataset(k, size, has, whole).origin = k
  BY DEF Dataset
<1>2. PICK r \in Requests :
        \/ /\ DoesCreate(r) /\ d = Dest(call[r])
           /\ ds'[d] = Dataset(NoOrigin, IF Zvols THEN call[r].size ELSE 0, {"managed"}, TRUE)
        \/ /\ DoesClone(r) /\ d = Dest(call[r])
           /\ LET k == CopyFrom(call[r]) IN
              k \in DOMAIN snap /\ ds'[d] = Dataset(k, snap[k].size, {"managed"}, TRUE)
        \/ /\ DoesRunReplication(r) /\ d = Dest(call[r])
           /\ LET k == CopyFrom(call[r]) IN
              k \in DOMAIN snap /\ ds'[d] = Dataset(NoOrigin, snap[k].size, {}, FALSE)
           /\ d[1] = "det" => Con(d[2]) \in DOMAIN ds
        \/ /\ DoesCreateContainer(r) /\ d = Con(call[r].volume)
           /\ ds'[d] = Dataset(NoOrigin, 0, {}, TRUE)
  BY NewDatasets
<1>3. DoesClone(r) => snap' = snap
  BY DEF DoesClone
<1>4. \A size, has, whole : ds'[d] # Dataset(NoOrigin, size, has, whole)
  BY <1>1
<1>5. /\ DoesClone(r) /\ d = Dest(call[r]) /\ CopyFrom(call[r]) \in DOMAIN snap
      /\ ds'[d] = Dataset(CopyFrom(call[r]), snap[CopyFrom(call[r])].size, {"managed"}, TRUE)
  BY <1>2, <1>4
<1>6. ds'[d].origin = CopyFrom(call[r])
  BY <1>5 DEF Dataset
<1>7. QED
  BY <1>3, <1>5, <1>6

\* A snapshot has its dataset.
LEMMA SnapshotsHaveDatasets ==
  ASSUME Types, Control, VolumesAreSound, SnapshotsAreSound, [Next]_vars, NEW k \in DOMAIN snap'
  PROVE  k[1] \in DOMAIN ds' /\ ds'[k[1]].whole
<1>1. SetupIs /\ call \in Plans
  BY SetupsAre DEF Types
<1>2. CASE k \in DOMAIN snap
  <2>1. k[1] \in DOMAIN ds /\ ds[k[1]].whole
    BY <1>2 DEF SnapshotsAreSound, PoolIsSound
  <2>2. SUFFICES ASSUME k[1] \notin DOMAIN ds' PROVE FALSE
    BY <2>1, WholeStays
  <2>3. k[1] \in Vols \cup Dets
    BY <1>2, SnapNamesAre DEF Types
  <2>4. PICK r \in Requests :
           \/ (DoesDestroyVolume(r) \/ DoesDestroyDetached(r)) /\ k[1] = Dest(call[r])
           \/ k[1] = Con(call[r].source[2])
    BY <2>1, <2>2, LostDatasets
  <2>5. k[1] # Con(call[r].source[2])
    BY <2>3, NamesDiffer DEF Vols, Dets
  <2>6. k \in SnapsOf(Dest(call[r]))
    BY <1>2, <2>4, <2>5 DEF SnapsOf
  <2>7. \E s : Discards(SnapsOf(Dest(call[r])) \cup s)
    BY <2>4, <2>5 DEF DoesDestroyVolume, DoesDestroyDetached
  <2>8. QED
    BY <2>6, <2>7 DEF Discards
<1>3. CASE k \notin DOMAIN snap
  <2>1. PICK r \in Requests :
           \/ /\ DoesTakeTemporary(r) /\ k = CopyFrom(call[r]) /\ k[1] \in DOMAIN ds /\ ds' = ds
           \/ /\ DoesTakeSnapshot(r) /\ k = SnapOf(IdOf(call[r])) /\ k[1] \in DOMAIN ds /\ ds' = ds
           \/ /\ JobCloses(r) /\ k = <<Dest(call[r]), Tag(call[r])>> /\ k[1] \in DOMAIN ds
              /\ k[1] \in DOMAIN ds' /\ ds'[k[1]] = [ds[k[1]] EXCEPT !.whole = TRUE]
    BY <1>3, NewSnapshots
  <2>2. CASE DoesTakeTemporary(r) /\ k = CopyFrom(call[r]) /\ k[1] \in DOMAIN ds /\ ds' = ds
    <3>1. Copies(call[r]) /\ Running(r)
      BY <2>2 DEF DoesTakeTemporary, Moves
    <3>2. k[1] = From(call[r])
      BY <1>1, <2>2, <3>1, TagsAre
    <3>3. QED
      BY <2>2, <3>1, <3>2, SourcesAreWhole
  <2>3. CASE DoesTakeSnapshot(r) /\ k = SnapOf(IdOf(call[r])) /\ k[1] \in DOMAIN ds /\ ds' = ds
    <3>1. Is(r, "CreateSnapshot") /\ Running(r)
      BY <2>3 DEF DoesTakeSnapshot, Moves
    <3>2. k[1] = From(call[r])
      BY <1>1, <2>3, <3>1, FromIs, IdsAre
    <3>3. QED
      BY <2>3, <3>1, <3>2, SourcesAreWhole
  <2>4. CASE /\ k[1] \in DOMAIN ds /\ k[1] \in DOMAIN ds'
             /\ ds'[k[1]] = [ds[k[1]] EXCEPT !.whole = TRUE]
    <3>1. ds[k[1]] \in DatasetType
      BY <2>4 DEF Types
    <3>2. QED
      BY <2>4, <3>1 DEF DatasetType
  <2>5. QED
    BY <2>1, <2>2, <2>3, <2>4
<1>4. QED
  BY <1>2, <1>3

\* A clone goes only when it is destroyed.
LEMMA CloneGoes ==
  ASSUME Types, SnapshotsAreSound, [Next]_vars, NEW k \in DOMAIN snap, NEW d \in Clones(k),
         d \notin DOMAIN ds'
  PROVE  \E r \in Requests : Destroys(r) /\ d = Dest(call[r]) /\ Removes(d)
<1>1. SetupIs /\ call \in Plans
  BY SetupsAre DEF Types
<1>2. d \in DOMAIN ds /\ ds[d].origin = k /\ k # NoOrigin
  BY SnapNamesAre DEF Clones, Types
<1>3. OriginIs(d)
  BY <1>2 DEF SnapshotsAreSound
<1>4. PICK r \in Requests :
           \/ /\ DoesDestroyVolume(r) \/ DoesDestroyDetached(r)
              /\ d = Dest(call[r]) /\ ds[d].whole
           \/ /\ DoesDestroyContainer(r)
              /\ d = Con(call[r].source[2]) /\ Details(call[r].source[2]) = {}
           \/ /\ JobCloses(r) /\ snap' = snap /\ Removes(d)
              /\ d = Dest(call[r]) /\ ~ ds[d].whole
  BY <1>2, LostDatasets
<1>5. CASE (DoesDestroyVolume(r) \/ DoesDestroyDetached(r)) /\ d = Dest(call[r])
  BY <1>5 DEF Destroys, DoesDestroyVolume, DoesDestroyDetached
<1>6. CASE d = Con(call[r].source[2])
  BY <1>2, <1>3, <1>6, NamesAre DEF OriginIs
<1>7. CASE JobCloses(r) /\ d = Dest(call[r])
  <2>1. Replicates(call[r])
    BY <1>7 DEF JobCloses, Filling
  <2>2. ~ ByCloning(call[r]) /\ (Is(r, "CreateSnapshot") \/ Is(r, "CreateVolume"))
    BY <1>1, <2>1, TagsAre
  <2>3. CASE Is(r, "CreateSnapshot")
    <3>1. d = Det(call[r].volume, call[r].name)
      BY <1>1, <1>7, <2>3, DestIs
    <3>2. d[1] # "vol"
      BY <3>1, NamesAre
    <3>3. QED
      BY <1>2, <1>3, <3>2 DEF OriginIs
  <2>4. CASE Is(r, "CreateVolume")
    <3>1. PICK v \in Volumes : v = VolumeId(call[r])
      BY <1>1, CallsAre
    <3>2. Creates(r, v) /\ d = Vol(v)
      BY <1>1, <1>7, <2>4, <3>1, ForVolumes
    <3>3. QED
      BY <1>2, <1>3, <2>2, <3>2 DEF OriginIs
  <2>5. QED
    BY <2>2, <2>3, <2>4
<1>8. QED
  BY <1>4, <1>5, <1>6, <1>7

\* What a clone was made of stays as long as it,
LEMMA OriginsHaveSnapshots ==
  ASSUME Types, SnapshotsAreSound, [Next]_vars, NEW d \in DOMAIN ds', ds'[d].origin # NoOrigin
  PROVE  ds'[d].origin \in DOMAIN snap'
<1>1. CASE d \notin DOMAIN ds
  BY <1>1, NewOrigins
<1>2. CASE d \in DOMAIN ds
  <2>1. PICK o : o = ds[d].origin
    OBVIOUS
  <2>2. ds'[d].origin = o /\ o # NoOrigin
    BY <1>2, <2>1, OriginStays
  <2>3. o \in DOMAIN snap /\ d \in Clones(o)
    BY <1>2, <2>1, <2>2 DEF SnapshotsAreSound, PoolIsSound, Clones
  <2>4. SUFFICES ASSUME o \notin DOMAIN snap' PROVE FALSE
    BY <2>2
  <2>5. PICK r \in Requests :
           \/ Frees(r, o) /\ Clones(o) = {} /\ ds' = ds
           \/ /\ Destroys(r)
              /\ o[1] = Dest(call[r]) \/ (snap[o].defer /\ Clones(o) = {Dest(call[r])})
    BY <2>3, <2>4, LostSnapshots
  <2>6. Destroys(r)
    BY <2>3, <2>5
  <2>7. ~ HasClones(Dest(call[r])) /\ Removes(Dest(call[r]))
    BY <2>6 DEF Destroys, DoesDestroyVolume, DoesDestroyDetached
  <2>8. o[1] # Dest(call[r])
    BY <2>3, <2>7 DEF HasClones, SnapsOf
  <2>9. d = Dest(call[r])
    BY <2>3, <2>5, <2>8
  <2>10. QED
    BY <2>7, <2>9 DEF Removes
<1>3. QED
  BY <1>1, <1>2

\* and a clone of what is marked to go with its last clone.
LEMMA MarkedHaveClones ==
  ASSUME Types, SnapshotsAreSound, [Next]_vars, NEW k \in DOMAIN snap', snap'[k].defer
  PROVE  Clones(k)' # {}
<1>1. k \in DOMAIN snap
  <2>1. SUFFICES ASSUME k \notin DOMAIN snap PROVE FALSE
    OBVIOUS
  <2>2. \E size, managed : snap'[k] = [size |-> size, managed |-> managed, defer |-> FALSE]
    BY <2>1, NewSnapshots
  <2>3. QED
    BY <2>2
<1>2. \A d : d \in DOMAIN ds' /\ ds'[d].origin = k => d \in Clones(k)'
  BY DEF Clones
<1>3. \A d \in Clones(k) : d \in DOMAIN ds /\ ds[d].origin = k
  BY DEF Clones
<1>4. \A d \in Clones(k) : d \in DOMAIN ds' => d \in Clones(k)'
  BY <1>2, <1>3, OriginStays
<1>5. CASE snap'[k] = snap[k]
  <2>1. PICK d : d \in Clones(k)
    BY <1>1, <1>5 DEF SnapshotsAreSound, PoolIsSound
  <2>2. CASE d \in DOMAIN ds'
    BY <1>4, <2>1, <2>2
  <2>3. CASE d \notin DOMAIN ds'
    <3>1. PICK r \in Requests : Destroys(r) /\ d = Dest(call[r]) /\ Removes(d)
      BY <1>1, <2>1, <2>3, CloneGoes
    <3>2. \E s : Discards(s \cup {x \in DOMAIN snap : snap[x].defer /\ Clones(x) = {d}})
      BY <3>1 DEF Destroys, DoesDestroyVolume, DoesDestroyDetached
    <3>3. Clones(k) # {d}
      BY <1>1, <1>5, <3>2 DEF Discards
    <3>4. PICK e : e \in Clones(k) /\ e # d
      BY <2>1, <3>3
    <3>5. e \in DOMAIN ds'
      BY <1>3, <3>1, <3>4 DEF Removes
    <3>6. QED
      BY <1>4, <3>4, <3>5
  <2>4. QED
    BY <2>2, <2>3
<1>6. CASE Clones(k) # {} /\ ds' = ds
  <2>1. PICK d : d \in Clones(k)
    BY <1>6
  <2>2. QED
    BY <1>3, <1>4, <1>6, <2>1
<1>7. QED
  BY <1>1, <1>5, <1>6, KeptSnapshots

\* Volumes are clones of what their creation copies.
LEMMA OriginsStay ==
  ASSUME Types, Control, SnapshotsAreSound, [Next]_vars, NEW d \in DOMAIN ds'
  PROVE  OriginIs(d)'
<1>1. SetupIs /\ call \in Plans /\ call' = call /\ Forward
  BY SetupsAre, ForwardIs DEF Types, Forward
<1>2. PICK o : o = ds'[d].origin
  OBVIOUS
<1>3. SUFFICES /\ d[1] # "vol" => o = NoOrigin
               /\ \A v \in Volumes : d = Vol(v) =>
                    /\ \E r \in Requests : Creates(r, v) /\ Sent(r)
                    /\ \A r \in Requests : Creates(r, v) =>
                          o = IF ByCloning(call[r]) THEN CopyFrom(call[r]) ELSE NoOrigin
  <2>1. \A v, r : Creates(r, v)' <=> Creates(r, v)
    BY <1>1 DEF Creates, Is
  <2>2. \A r \in Requests : Sent(r) => Sent(r)'
    BY <1>1 DEF Forward
  <2>3. QED
    BY <1>1, <1>2, <2>1, <2>2 DEF OriginIs
<1>4. CASE d \in DOMAIN ds
  <2>1. o = ds[d].origin /\ OriginIs(d)
    BY <1>2, <1>4, OriginStays DEF SnapshotsAreSound
  <2>2. QED
    BY <2>1 DEF OriginIs
<1>5. CASE d \notin DOMAIN ds
  <2>1. d[1] # "vol" => o = NoOrigin
    <3>1. SUFFICES ASSUME o # NoOrigin PROVE d[1] = "vol"
      OBVIOUS
    <3>2. PICK r \in Requests : DoesClone(r) /\ d = Dest(call[r])
      BY <1>2, <1>5, <3>1, NewOrigins
    <3>3. Is(r, "CreateVolume")
      BY <3>2 DEF DoesClone
    <3>4. d = Vol(VolumeId(call[r]))
      BY <1>1, <3>2, <3>3, DestIs DEF Is
    <3>5. QED
      BY <3>4, NamesAre
  <2>2. ASSUME NEW v \in Volumes, d = Vol(v)
        PROVE  /\ \E r \in Requests : Creates(r, v) /\ Sent(r)
               /\ \A r \in Requests : Creates(r, v) =>
                     o = IF ByCloning(call[r]) THEN CopyFrom(call[r]) ELSE NoOrigin
    <3>1. PICK q \in Requests :
           /\ Creates(q, v) /\ Running(q)
           /\ \/ DoesCreate(q) /\ o = NoOrigin
              \/ DoesClone(q) /\ o = CopyFrom(call[q])
              \/ DoesRunReplication(q) /\ o = NoOrigin
      BY <1>2, <1>5, <2>2, NewVolume
    <3>2. o = IF ByCloning(call[q]) THEN CopyFrom(call[q]) ELSE NoOrigin
      <4>1. DoesCreate(q) => ~ ByCloning(call[q])
        BY DEF DoesCreate, ByCloning
      <4>2. DoesClone(q) => ByCloning(call[q])
        BY DEF DoesClone
      <4>3. DoesRunReplication(q) => ~ ByCloning(call[q])
        BY <1>1, TagsAre DEF DoesRunReplication
      <4>4. QED
        BY <3>1, <4>1, <4>2, <4>3
    <3>3. ASSUME NEW r \in Requests, Creates(r, v)
          PROVE  o = IF ByCloning(call[r]) THEN CopyFrom(call[r]) ELSE NoOrigin
      <4>1. \/ q = r \/ call[r] = call[q]
            \/ call[r].source[1] = "none" /\ call[q].source[1] = "none"
        BY <1>1, <3>1, <3>3, CallsAreWellFormed
      <4>2. QED
        BY <3>2, <4>1 DEF ByCloning
    <3>4. Sent(q)
      BY <3>1 DEF Running, Sent
    <3>5. QED
      BY <3>1, <3>3, <3>4
  <2>3. QED
    BY <2>1, <2>2
<1>6. QED
  BY <1>4, <1>5

\* An attached snapshot is made for its request only.
LEMMA NewAttached ==
  ASSUME Types, [Next]_vars, NEW k \in DOMAIN snap', k \notin DOMAIN snap, k[2][1] = "csi"
  PROVE  \E r \in Requests : /\ DoesTakeSnapshot(r) /\ k = SnapOf(IdOf(call[r]))
                             /\ ~ snap'[k].defer
<1>1. SetupIs
  BY DEF Types
<1>2. ~ snap'[k].defer
  <2>1. \E size, managed : snap'[k] = [size |-> size, managed |-> managed, defer |-> FALSE]
    BY NewSnapshots
  <2>2. QED
    BY <2>1
<1>3. PICK r \in Requests :
        \/ DoesTakeTemporary(r) /\ k = CopyFrom(call[r])
        \/ DoesTakeSnapshot(r) /\ k = SnapOf(IdOf(call[r]))
        \/ JobCloses(r) /\ k = <<Dest(call[r]), Tag(call[r])>>
  BY NewSnapshots
<1>4. CASE DoesTakeTemporary(r) /\ k = CopyFrom(call[r])
  <2>1. Copies(call[r])
    BY <1>4 DEF DoesTakeTemporary
  <2>2. QED
    BY <1>1, <1>4, <2>1, TagsAre
<1>5. CASE JobCloses(r) /\ k = <<Dest(call[r]), Tag(call[r])>>
  <2>1. Replicates(call[r])
    BY <1>5 DEF JobCloses, Filling
  <2>2. Tag(call[r])[1] # "csi"
    BY <1>1, <2>1, TagsAre
  <2>3. QED
    BY <1>5, <2>2
<1>6. QED
  BY <1>2, <1>3, <1>4, <1>5

\* And freed for the deletion of its own, whatever is stripped of the snapshots it came with.
LEMMA AttachedIsFreed ==
  ASSUME Types, Control, SnapshotsAreSound, NEW k \in DOMAIN snap, k[2][1] = "csi",
         NEW r \in Requests, Frees(r, k)
  PROVE  /\ DoesReleaseSnapshot(r) /\ Is(r, "DeleteSnapshot") /\ Sent(r)
         /\ k = SnapOf(call[r].source) /\ call[r].source[1] = "snapshot"
<1>1. SetupIs /\ call \in Plans
  BY SetupsAre DEF Types
<1>2. CASE DoesStripSnapshots(r)
  <2>1. Replicates(call[r]) /\ Tag(call[r])[1] # "csi"
    BY <1>1, <1>2, TagsAre DEF DoesStripSnapshots
  <2>2. Is(r, "CreateSnapshot") => k[2] = Tag(call[r])
    BY <1>2 DEF Frees, DoesStripSnapshots, DoesDropTemporary, DoesDeferOrigin, DoesReleaseSnapshot
  <2>3. Is(r, "CreateVolume") /\ call[r].source[1] # "none" /\ call[r].detached
    BY <1>1, <2>1, <2>2, TagsAre
  <2>4. k[1] = Dest(call[r])
    BY <1>2, <2>3 DEF Frees, DoesStripSnapshots, DoesDropTemporary, DoesDeferOrigin,
                     DoesReleaseSnapshot, Is
  <2>5. PICK q \in Requests : Is(q, "CreateSnapshot") /\ k = SnapOf(IdOf(call[q])) /\ Sent(q)
    BY DEF SnapshotsAreSound, AttachedIs
  <2>6. PICK v \in Volumes : v = VolumeId(call[r])
    BY <1>1, CallsAre
  <2>7. Creates(r, v) /\ Dest(call[r]) = Vol(v)
    BY <1>1, <2>3, <2>6, ForVolumes
  <2>8. k[1] = Vol(call[q].volume)
    BY <2>5, IdsAre
  <2>9. call[q].volume = v
    BY <2>4, <2>7, <2>8, NamesDiffer
  <2>10. call[r].source[1] = "none" \/ ~ call[r].detached
    <3>1. v \in DOMAIN promised
      BY <2>5, <2>9 DEF Control, SourceWasMade, Is
    <3>2. PICK p \in Requests : Creates(p, v) /\ pc[p] = "done"
      BY <3>1 DEF Control, PromisesAreMade
    <3>3. p # r
      BY <1>2, <3>2 DEF DoesStripSnapshots
    <3>4. \A x \in Requests : Is(x, "CreateSnapshot") /\ call[x].volume = v
                               => call[r].source[1] = "none" \/ ~ call[r].detached
      BY <1>1, <2>7, <3>2, <3>3, CallsAreWellFormed
    <3>5. QED
      BY <2>5, <2>9, <3>4
  <2>11. QED
    BY <2>3, <2>10
<1>3. CASE DoesDropTemporary(r) /\ k = CopyFrom(call[r])
  <2>1. Copies(call[r])
    BY <1>3 DEF DoesDropTemporary
  <2>2. QED
    BY <1>1, <1>3, <2>1, TagsAre
<1>4. CASE DoesReleaseSnapshot(r) /\ k = SnapOf(call[r].source)
  <2>1. Is(r, "DeleteSnapshot") /\ call[r].source[1] # "detached" /\ Running(r)
    BY <1>4 DEF DoesReleaseSnapshot, Moves
  <2>2. call[r].source \in SnapshotIds
    BY <1>1, <2>1, CallsAre DEF Is
  <2>3. call[r].source[1] = "snapshot"
    BY <2>1, <2>2 DEF SnapshotIds
  <2>4. QED
    BY <1>4, <2>1, <2>3 DEF Running, Sent
<1>5. QED
  BY <1>2, <1>3, <1>4 DEF Frees

\* Attached snapshots stay what they are.
LEMMA AttachedStay ==
  ASSUME Types, Control, SnapshotsAreSound, [Next]_vars, NEW k \in DOMAIN snap'
  PROVE  AttachedIs(k)'
<1>1. SetupIs /\ call \in Plans /\ call' = call /\ Forward
  BY SetupsAre, ForwardIs DEF Types, Forward
<1>2. SUFFICES ASSUME k[2][1] = "csi"
               PROVE  /\ \E r \in Requests : /\ Is(r, "CreateSnapshot") /\ ~ call[r].detached
                                             /\ k = SnapOf(IdOf(call[r])) /\ Sent(r)
                      /\ snap'[k].defer =>
                           \E r \in Requests : /\ Is(r, "DeleteSnapshot") /\ Sent(r)
                                               /\ call[r].source[1] = "snapshot"
                                               /\ k = SnapOf(call[r].source)
  <2>1. \A r \in Requests : Sent(r) => Sent(r)'
    BY <1>1 DEF Forward
  <2>2. QED
    BY <1>1, <2>1 DEF AttachedIs, Is
<1>3. CASE k \notin DOMAIN snap
  <2>1. PICK r \in Requests : /\ DoesTakeSnapshot(r) /\ k = SnapOf(IdOf(call[r]))
                              /\ ~ snap'[k].defer
    BY <1>2, <1>3, NewAttached
  <2>2. Is(r, "CreateSnapshot") /\ ~ call[r].detached /\ Sent(r)
    BY <2>1 DEF DoesTakeSnapshot, Moves, Running, Sent
  <2>3. QED
    BY <2>1, <2>2
<1>4. CASE k \in DOMAIN snap
  <2>1. AttachedIs(k)
    BY <1>4 DEF SnapshotsAreSound
  <2>2. CASE snap'[k] = snap[k]
    BY <1>2, <2>1, <2>2 DEF AttachedIs
  <2>3. ASSUME NEW r \in Requests, Frees(r, k)
        PROVE  /\ Is(r, "DeleteSnapshot") /\ Sent(r)
               /\ call[r].source[1] = "snapshot" /\ k = SnapOf(call[r].source)
    BY <1>2, <1>4, <2>3, AttachedIsFreed
  <2>4. CASE \E r \in Requests : Frees(r, k)
    BY <1>2, <2>1, <2>3, <2>4 DEF AttachedIs
  <2>5. QED
    BY <1>4, <2>2, <2>4, KeptSnapshots
<1>5. QED
  BY <1>3, <1>4

\* Who makes a snapshot is the only one to work at its volume.
LEMMA TakingIsAlone ==
  ASSUME Types, Control, NEW q \in Requests, NEW r \in Requests, Is(q, "CreateSnapshot"),
         Is(r, "CreateSnapshot"), call[q].volume = call[r].volume, Running(q), Running(r)
  PROVE  q = r
<1>1. SUFFICES ASSUME q # r PROVE FALSE
  OBVIOUS
<1>2. <<"volume_id", call[r].volume>> \in Keys(call[q])
        /\ <<"volume_id", call[r].volume>> \in Keys(call[r])
  BY DEF Keys, Is
<1>3. QED
  BY <1>1, <1>2 DEF Control, Exclusive

\* A dataset that is received is the work of a replication.
LEMMA NewReceiving ==
  ASSUME Types, [Next]_vars, NEW d \in DOMAIN ds', d \notin DOMAIN ds, ~ ds'[d].whole
  PROVE  \E r \in Requests : DoesRunReplication(r) /\ d = Dest(call[r])
<1>1. PICK r \in Requests :
        \/ /\ DoesCreate(r) /\ d = Dest(call[r])
           /\ ds'[d] = Dataset(NoOrigin, IF Zvols THEN call[r].size ELSE 0, {"managed"}, TRUE)
        \/ /\ DoesClone(r) /\ d = Dest(call[r])
           /\ LET k == CopyFrom(call[r]) IN
              k \in DOMAIN snap /\ ds'[d] = Dataset(k, snap[k].size, {"managed"}, TRUE)
        \/ /\ DoesRunReplication(r) /\ d = Dest(call[r])
           /\ LET k == CopyFrom(call[r]) IN
              k \in DOMAIN snap /\ ds'[d] = Dataset(NoOrigin, snap[k].size, {}, FALSE)
           /\ d[1] = "det" => Con(d[2]) \in DOMAIN ds
        \/ /\ DoesCreateContainer(r) /\ d = Con(call[r].volume)
           /\ ds'[d] = Dataset(NoOrigin, 0, {}, TRUE)
  BY NewDatasets
<1>2. \A k, size, has : Dataset(k, size, has, TRUE).whole
  BY DEF Dataset
<1>3. \A k, size, has : ds'[d] # Dataset(k, size, has, TRUE)
  BY <1>2
<1>4. DoesRunReplication(r) /\ d = Dest(call[r])
  BY <1>1, <1>3
<1>5. QED
  BY <1>4

\* A detached snapshot that is made stands,
LEMMA DetachedStands ==
  ASSUME Types, Control, VolumesAreSound, SnapshotsAreSound, [Next]_vars,
         NEW r \in Requests, Is(r, "CreateSnapshot"), call[r].detached,
         ~ SnapshotUnwanted(IdOf(call[r])), NEW d, d = Dest(call[r])
  PROVE  /\ pc'[r] \in {"success", "reply", "done"} => ~ Receiving(d)'
         /\ pc'[r] \in {"reply", "done"} => d \in DOMAIN ds'
<1>1. SetupIs /\ call \in Plans /\ DOMAIN pc = Requests
  BY SetupsAre DEF Types
<1>2. SnapshotStands(r) /\ d = Det(call[r].volume, call[r].name) /\ d[1] = "det"
  BY <1>1, DestIs, NamesAre DEF SnapshotsAreSound
<1>3. /\ pc[r] \in {"success", "reply", "done"} => ~ Receiving(d)
      /\ pc[r] \in {"reply", "done"} => d \in DOMAIN ds
  BY <1>2 DEF SnapshotStands, Is
<1>4. pc'[r] = pc[r] \/ pc'[r] \notin {"success", "reply", "done"}
        \/ (pc'[r] = "success" /\ DoesDropTemporary(r))
        \/ (pc'[r] = "reply" /\ DoesSetSuccess(r)) \/ (pc'[r] = "done" /\ Reply(r))
  <2>1. pc'[r] = pc[r] \/ pc'[r] # "success" \/ DoesDropTemporary(r)
    BY CameBy DEF DoesSetContext, DoesTakeSnapshot, Is
  <2>2. pc'[r] = pc[r] \/ pc'[r] # "reply" \/ DoesSetSuccess(r)
    BY CameBy DEF DoesResize, DoesDestroyVolume, DoesReleaseSnapshot, DoesDestroyContainer, Is
  <2>3. pc'[r] = pc[r] \/ pc'[r] # "done" \/ Reply(r)
    <3>1. First(call[r]) # "done" /\ "done" \notin Places(call[r])
      BY <1>1, PlacesAreNoStates DEF First
    <3>2. QED
      BY <3>1, ArrivalIs
  <2>4. QED
    BY <2>1, <2>2, <2>3
<1>5. CASE DoesDropTemporary(r) /\ pc'[r] = "success"
  <2>1. ds' = ds /\ ~ Receiving(d)
    BY <1>5 DEF DoesDropTemporary
  <2>2. QED
    BY <1>5, <2>1 DEF Receiving
<1>6. CASE DoesSetSuccess(r) /\ pc'[r] = "reply"
  <2>1. pc[r] = "success" /\ Changes(d, [ds[d] EXCEPT !.has = @ \cup {"success"}])
    BY <1>6 DEF DoesSetSuccess
  <2>2. d \in DOMAIN ds /\ d \in DOMAIN ds' /\ ds[d].whole
    BY <1>3, <2>1 DEF Changes, Receiving
  <2>3. QED
    BY <2>2, WholeStays DEF Receiving
<1>7. CASE Reply(r) /\ pc'[r] = "done"
  <2>1. pc[r] = "reply" /\ ds' = ds
    BY <1>7, ReplyIs
  <2>2. QED
    BY <1>3, <2>1 DEF Receiving
<1>8. CASE pc'[r] = pc[r]
  <2>1. ASSUME pc[r] \in {"success", "reply", "done"}, Receiving(d)' PROVE FALSE
    <3>1. d \in DOMAIN ds' /\ ~ ds'[d].whole
      BY <2>1 DEF Receiving
    <3>2. d \notin DOMAIN ds
      BY <1>3, <2>1, <3>1, WholeStays DEF Receiving
    <3>3. pc[r] = "success"
      BY <1>3, <2>1, <3>2
    <3>4. PICK q \in Requests : DoesRunReplication(q) /\ d = Dest(call[q])
      BY <3>1, <3>2, NewReceiving
    <3>5. Replicates(call[q]) /\ Running(q) /\ pc[q] = "run"
      BY <3>4 DEF DoesRunReplication, Moves
    <3>6. Is(q, "CreateSnapshot")
      <4>1. Is(q, "CreateVolume") => d = Vol(VolumeId(call[q]))
        BY <1>1, <3>4, DestIs DEF Is
      <4>2. QED
        BY <1>1, <1>2, <3>5, <4>1, TagsAre, NamesDiffer
    <3>7. Det(call[q].volume, call[q].name) = Det(call[r].volume, call[r].name)
      BY <1>1, <1>2, <3>4, <3>6, DestIs
    <3>8. call[q].volume = call[r].volume
      BY <3>7, NamesAre
    <3>9. q = r
      BY <3>3, <3>5, <3>6, <3>8, TakingIsAlone DEF Running
    <3>10. QED
      BY <3>3, <3>5, <3>9
  <2>2. ASSUME pc[r] \in {"reply", "done"}, d \notin DOMAIN ds' PROVE FALSE
    <3>1. d \in DOMAIN ds /\ ds[d].whole
      BY <1>3, <2>2 DEF Receiving
    <3>2. PICK q \in Requests :
           \/ (DoesDestroyVolume(q) \/ DoesDestroyDetached(q)) /\ d = Dest(call[q])
           \/ d = Con(call[q].source[2])
      BY <2>2, <3>1, LostDatasets
    <3>3. d # Con(call[q].source[2])
      BY <1>2, NamesDiffer
    <3>4. CASE DoesDestroyVolume(q) /\ d = Dest(call[q])
      <4>1. Is(q, "DeleteVolume")
        BY <3>4 DEF DoesDestroyVolume
      <4>2. d = Vol(VolumeId(call[q]))
        BY <1>1, <3>4, <4>1, DestIs DEF Is
      <4>3. QED
        BY <1>2, <4>2, NamesAre
    <3>5. CASE DoesDestroyDetached(q) /\ d = Dest(call[q])
      <4>1. Is(q, "DeleteSnapshot") /\ call[q].source[1] = "detached" /\ Sent(q)
        BY <3>5 DEF DoesDestroyDetached, Moves, Running, Sent
      <4>2. Det(call[q].source[2], call[q].source[3]) = Det(call[r].volume, call[r].name)
        BY <1>1, <1>2, <3>5, <4>1, DestIs
      <4>3. call[q].source[2] = call[r].volume /\ call[q].source[3] = call[r].name
        BY <4>2, NamesAre
      <4>4. call[q].source \in SnapshotIds
        BY <1>1, <4>1, CallsAre DEF Is
      <4>5. call[q].source = <<"detached", call[r].volume, call[r].name>>
        BY <4>1, <4>3, <4>4 DEF SnapshotIds
      <4>6. call[q].source = IdOf(call[r])
        BY <4>5 DEF IdOf
      <4>7. QED
        BY <4>1, <4>6 DEF SnapshotUnwanted, Drops
    <3>6. QED
      BY <3>2, <3>3, <3>4, <3>5
  <2>3. QED
    BY <1>8, <2>1, <2>2
<1>9. QED
  BY <1>4, <1>5, <1>6, <1>7, <1>8

\* and so does an attached one.
LEMMA AttachedStands ==
  ASSUME Types, Control, SnapshotsAreSound, [Next]_vars,
         NEW r \in Requests, Is(r, "CreateSnapshot"), ~ call[r].detached,
         ~ SnapshotUnwanted(IdOf(call[r])), pc'[r] \in {"success", "reply", "done"}
  PROVE  SnapOf(IdOf(call[r])) \in DOMAIN snap'
<1>1. SetupIs /\ call \in Plans /\ DOMAIN pc = Requests
  BY SetupsAre DEF Types
<1>2. PICK k : k = SnapOf(IdOf(call[r]))
  OBVIOUS
<1>3. pc[r] \in {"success", "reply", "done"} => k \in DOMAIN snap
  <2>1. SnapshotStands(r)
    BY DEF SnapshotsAreSound
  <2>2. QED
    BY <1>2, <2>1 DEF SnapshotStands, Is
<1>4. \/ pc[r] \in {"success", "reply", "done"}
      \/ DoesTakeSnapshot(r)
  <2>1. pc'[r] = pc[r] \/ pc'[r] # "success" \/ DoesTakeSnapshot(r)
    BY CameBy DEF DoesSetContext, DoesDropTemporary, Copies, Is
  <2>2. pc'[r] = pc[r] \/ pc'[r] # "reply" \/ pc[r] = "success"
    BY CameBy DEF DoesResize, DoesDestroyVolume, DoesReleaseSnapshot, DoesDestroyContainer,
                  DoesSetSuccess, Is
  <2>3. pc'[r] = pc[r] \/ pc'[r] # "done" \/ pc[r] = "reply"
    <3>1. First(call[r]) # "done" /\ "done" \notin Places(call[r])
      BY <1>1, PlacesAreNoStates DEF First
    <3>2. QED
      BY <3>1, ArrivalIs
  <2>4. QED
    BY <2>1, <2>2, <2>3
<1>5. CASE DoesTakeSnapshot(r)
  BY <1>5 DEF DoesTakeSnapshot, Captures
<1>6. CASE pc[r] \in {"success", "reply", "done"}
  <2>1. k \in DOMAIN snap
    BY <1>3, <1>6
  <2>2. /\ k[1] = Vol(call[r].volume) /\ k[2] = <<"csi", call[r].name>>
        /\ IdOf(call[r]) = <<"snapshot", call[r].volume, call[r].name>>
    BY <1>2, IdsAre DEF IdOf
  <2>3. k[2][1] = "csi"
    BY <2>2
  <2>4. SUFFICES ASSUME k \notin DOMAIN snap' PROVE FALSE
    BY <1>2
  <2>5. ASSUME NEW q \in Requests, Is(q, "DeleteSnapshot"), Sent(q),
               k = SnapOf(call[q].source), call[q].source[1] = "snapshot"
        PROVE  FALSE
    <3>1. k[1] = Vol(call[q].source[2]) /\ k[2] = <<"csi", call[q].source[3]>>
      BY <2>5, IdsAre
    <3>2. call[q].source[2] = call[r].volume /\ call[q].source[3] = call[r].name
      <4>1. call[q].source[2] = call[r].volume
        BY <2>2, <3>1, NamesDiffer
      <4>2. <<"csi", call[q].source[3]>> = <<"csi", call[r].name>>
        BY <2>2, <3>1
      <4>3. QED
        BY <4>1, <4>2
    <3>3. call[q].source \in SnapshotIds
      BY <1>1, <2>5, CallsAre DEF Is
    <3>4. call[q].source = IdOf(call[r])
      BY <2>2, <2>5, <3>2, <3>3 DEF SnapshotIds
    <3>5. QED
      BY <2>5, <3>4 DEF SnapshotUnwanted, Drops
  <2>6. PICK q \in Requests :
           \/ Frees(q, k)
           \/ Destroys(q) /\ (k[1] = Dest(call[q]) \/ snap[k].defer)
    BY <2>1, <2>4, LostSnapshots
  <2>7. CASE Frees(q, k)
    BY <2>1, <2>3, <2>5, <2>7, AttachedIsFreed
  <2>8. CASE snap[k].defer
    <3>1. AttachedIs(k)
      BY <2>1 DEF SnapshotsAreSound
    <3>2. QED
      BY <2>3, <2>5, <2>8, <3>1 DEF AttachedIs
  <2>9. CASE Destroys(q) /\ k[1] = Dest(call[q])
    <3>1. CASE DoesDestroyDetached(q)
      <4>1. Is(q, "DeleteSnapshot")
        BY <3>1 DEF DoesDestroyDetached
      <4>2. Dest(call[q]) = Det(call[q].source[2], call[q].source[3])
        BY <1>1, <4>1, DestIs
      <4>3. Dest(call[q])[1] = "det" /\ k[1][1] = "vol"
        BY <2>2, <4>2, NamesAre
      <4>4. QED
        BY <2>9, <4>3
    <3>2. CASE DoesDestroyVolume(q)
      <4>1. Is(q, "DeleteVolume") /\ pc[q] = "destroy"
        BY <3>2 DEF DoesDestroyVolume
      <4>2. VolumeId(call[q]) = call[q].volume
        BY <4>1 DEF VolumeId, Is
      <4>3. Dest(call[q]) = Vol(call[q].volume)
        BY <1>1, <4>1, <4>2, DestIs DEF Is
      <4>4. k \in SnapsOf(Vol(call[q].volume))
        BY <2>1, <2>9, <4>3 DEF SnapsOf
      <4>5. SnapshotsAreListed(q)
        BY DEF SnapshotsAreSound
      <4>6. k \in mem[q].listed /\ mem[q].listed = {}
        BY <2>3, <4>1, <4>4, <4>5 DEF SnapshotsAreListed, Unshared
      <4>7. QED
        BY <4>6
    <3>3. QED
      BY <2>9, <3>1, <3>2 DEF Destroys
  <2>10. QED
    BY <2>6, <2>7, <2>8, <2>9
<1>7. QED
  BY <1>4, <1>5, <1>6

\* What CreateSnapshot has made stands.
LEMMA SnapshotsStand ==
  ASSUME Types, Control, VolumesAreSound, SnapshotsAreSound, [Next]_vars, NEW r \in Requests
  PROVE  SnapshotStands(r)'
<1>1. call' = call /\ Forward
  BY ForwardIs DEF Forward
<1>2. PICK d, k : d = Dest(call[r]) /\ k = SnapOf(IdOf(call[r]))
  OBVIOUS
<1>3. SnapshotUnwanted(IdOf(call[r])) => SnapshotUnwanted(IdOf(call[r]))'
  BY <1>1 DEF SnapshotUnwanted, Drops, Is, Forward
<1>4. SUFFICES ASSUME Is(r, "CreateSnapshot"), ~ SnapshotUnwanted(IdOf(call[r]))
               PROVE  /\ call[r].detached =>
                           /\ pc'[r] \in {"success", "reply", "done"} => ~ Receiving(d)'
                           /\ pc'[r] \in {"reply", "done"} => d \in DOMAIN ds'
                      /\ ~ call[r].detached /\ pc'[r] \in {"success", "reply", "done"}
                           => k \in DOMAIN snap'
  BY <1>1, <1>2, <1>3 DEF SnapshotStands, Receiving, Is
<1>5. call[r].detached =>
         /\ pc'[r] \in {"success", "reply", "done"} => ~ Receiving(d)'
         /\ pc'[r] \in {"reply", "done"} => d \in DOMAIN ds'
  BY <1>2, <1>4, DetachedStands
<1>6. ~ call[r].detached /\ pc'[r] \in {"success", "reply", "done"} => k \in DOMAIN snap'
  BY <1>2, <1>4, AttachedStands
<1>7. QED
  BY <1>5, <1>6

\* What DeleteVolume has listed is all there is.
LEMMA ListedStay ==
  ASSUME Types, Control, SnapshotsAreSound, [Next]_vars, NEW r \in Requests
  PROVE  SnapshotsAreListed(r)'
<1>1. SetupIs /\ call \in Plans /\ call' = call /\ kind' = kind /\ kind \in Kinds
        /\ DOMAIN pc = Requests /\ DOMAIN mem = Requests /\ InItsPlace(r)
  BY SetupsAre, ForwardIs DEF Types, Forward
<1>2. PICK d, v : d = Vol(v) /\ v = call[r].volume
  OBVIOUS
<1>3. SUFFICES ASSUME Is(r, "DeleteVolume"), pc'[r] \in {"find"} \cup Unsharing \cup Unshared
               PROVE  /\ \A k \in DOMAIN snap' : k[1] = d /\ k[2][1] = "csi" => k \in mem'[r].listed
                      /\ pc'[r] = "destroy" => mem'[r].listed = {}
  <2>1. Unsharing' = Unsharing /\ Unshared' = Unshared
    BY <1>1 DEF Unsharing, Unshared
  <2>2. "destroy" \in Unshared
    BY DEF Unshared
  <2>3. QED
    BY <1>1, <1>2, <2>1, <2>2 DEF SnapshotsAreListed, SnapsOf, Is
<1>4. Running(r) /\ Running(r)' /\ (pc'[r] = pc[r] \/ Works(r))
  BY <1>3, DeletingRan
<1>5. v \in Volumes /\ Deletes(r, v)
  BY <1>1, <1>2, <1>3, CallsAre DEF Deletes
<1>6. ASSUME NEW k \in DOMAIN snap', k[1] = d, k[2][1] = "csi" PROVE k \in DOMAIN snap
  <2>1. SUFFICES ASSUME k \notin DOMAIN snap PROVE FALSE
    OBVIOUS
  <2>2. PICK q \in Requests : DoesTakeSnapshot(q) /\ k = SnapOf(IdOf(call[q]))
    BY <1>6, <2>1, NewAttached
  <2>3. Is(q, "CreateSnapshot") /\ Running(q)
    BY <2>2 DEF DoesTakeSnapshot, Moves
  <2>4. Vol(call[q].volume) = Vol(v)
    BY <1>2, <1>6, <2>2, IdsAre
  <2>5. call[q].volume = v
    BY <2>4, NamesDiffer
  <2>6. q = r
    BY <1>4, <1>5, <2>3, <2>5, DeletionIsAlone DEF Is
  <2>7. QED
    BY <1>3, <2>3, <2>6 DEF Is
<1>7. CASE DoesReadDataset(r)
  <2>1. mem \in [Requests -> MemoryType]
    BY DEF Types
  <2>2. Dest(call[r]) = d
    BY <1>1, <1>2, <1>5, ForVolumes
  <2>3. d \in DOMAIN ds => mem'[r].listed = SnapsOf(d)
    BY <1>7, <2>1, <2>2 DEF DoesReadDataset, MemoryType
  <2>4. \A k \in DOMAIN snap : k[1] \in DOMAIN ds
    BY DEF SnapshotsAreSound, PoolIsSound
  <2>5. pc'[r] = "find"
    BY <1>7, TargetsAre
  <2>6. QED
    BY <1>6, <2>3, <2>4, <2>5 DEF SnapsOf
<1>8. CASE ~ DoesReadDataset(r)
  <2>1. mem'[r].listed = mem[r].listed
    BY <1>4, <1>8, Remembered
  <2>2. pc[r] \in {"find"} \cup Unsharing \cup Unshared
    <3>1. CASE pc'[r] = pc[r]
      BY <1>3, <3>1
    <3>2. CASE Works(r)
      <4>1. pc[r] # "reply" /\ pc[r] \in Places(call[r])
        BY <1>1, <3>2, WorksMoves DEF InItsPlace, Running
      <4>2. Places(call[r]) = {"read", "find"} \cup Unsharing \cup Unshared
        BY <1>1, <1>3, PlacesAre
      <4>3. pc[r] # "read"
        BY <1>8, <3>2, WorkIs
      <4>4. QED
        BY <4>1, <4>2, <4>3
    <3>3. QED
      BY <1>4, <3>1, <3>2
  <2>3. SnapshotsAreListed(r)
    BY DEF SnapshotsAreSound
  <2>4. \A k \in DOMAIN snap : k[1] = d /\ k[2][1] = "csi" => k \in mem[r].listed
    BY <1>2, <1>3, <2>2, <2>3 DEF SnapshotsAreListed, SnapsOf
  <2>5. pc'[r] = "destroy" => mem[r].listed = {}
    <3>1. CASE pc[r] = "destroy"
      BY <1>2, <1>3, <2>3, <3>1 DEF SnapshotsAreListed
    <3>2. CASE pc[r] # "destroy"
      BY <1>3, <3>2, WentBy DEF DoesCheckManaged, Is
    <3>3. QED
      BY <3>1, <3>2
  <2>6. QED
    BY <1>6, <2>1, <2>4, <2>5
<1>9. QED
  BY <1>7, <1>8

\* What is said of snapshots stays true,
LEMMA SnapshotsStay ==
  ASSUME Types, Control, VolumesAreSound, SnapshotsAreSound, [Next]_vars
  PROVE  SnapshotsAreSound'
<1>1. PoolIsSound'
  BY SnapshotsHaveDatasets, OriginsHaveSnapshots, MarkedHaveClones DEF PoolIsSound
<1>2. \A d \in DOMAIN ds' : OriginIs(d)'
  BY OriginsStay
<1>3. \A k \in DOMAIN snap' : AttachedIs(k)'
  BY AttachedStay
<1>4. \A r \in Requests : SnapshotStands(r)' /\ SnapshotsAreListed(r)'
  BY SnapshotsStand, ListedStay
<1>5. QED
  BY <1>1, <1>2, <1>3, <1>4 DEF SnapshotsAreSound

\* and is true at first.
LEMMA SnapshotsBegin ==
  ASSUME Init
  PROVE  SnapshotsAreSound
<1>1. DOMAIN ds = {} /\ DOMAIN snap = {} /\ \A r \in Requests : pc[r] = "idle"
  BY DEF Init
<1>2. kind \in Kinds
  BY TypesBegin, SetupsAre DEF Types
<1>3. "idle" \notin {"find"} \cup Unsharing \cup Unshared
  BY <1>2 DEF Unsharing, Unshared, Kinds
<1>4. PoolIsSound
  BY <1>1 DEF PoolIsSound
<1>5. \A r \in Requests : SnapshotStands(r)
  BY <1>1 DEF SnapshotStands
<1>6. \A r \in Requests : SnapshotsAreListed(r)
  BY <1>1, <1>3 DEF SnapshotsAreListed
<1>7. QED
  BY <1>1, <1>4, <1>5, <1>6 DEF SnapshotsAreSound

\* What was answered OK as a copy is whole.
LEMMA AckedAreWhole ==
  ASSUME Types, Control, VolumesAreSound, SnapshotsAreSound
  PROVE  AckedCopiesAreWhole
<1>1. SetupIs /\ call \in Plans
  BY SetupsAre DEF Types
<1>2. ASSUME NEW v \in Volumes, OwnsVolume(v) PROVE ~ Receiving(Vol(v))
  BY <1>2 DEF OwnsVolume, VolumesAreSound, VolumeIsKept
<1>3. ASSUME NEW sid \in SnapshotIds, OwnsSnapshot(sid)
      PROVE  IF sid[1] = "snapshot"
             THEN SnapOf(sid) \in DOMAIN snap /\ ~ snap[SnapOf(sid)].defer
             ELSE Det(sid[2], sid[3]) \in DOMAIN ds /\ ~ Receiving(Det(sid[2], sid[3]))
  <2>1. sid \in DOMAIN captured /\ ~ SnapshotUnwanted(sid)
    BY <1>3 DEF OwnsSnapshot, SnapshotUnwanted, Drops, Is
  <2>2. PICK r \in Requests : Takes(r, sid) /\ pc[r] = "done"
    BY <2>1 DEF Control, PromisesAreMade
  <2>3. Is(r, "CreateSnapshot") /\ IdOf(call[r]) = sid /\ SnapshotStands(r)
    BY <2>2 DEF Takes, SnapshotsAreSound
  <2>4. sid[2] = call[r].volume /\ sid[3] = call[r].name
          /\ sid[1] = IF call[r].detached THEN "detached" ELSE "snapshot"
    BY <2>3, IdsAre
  <2>5. CASE call[r].detached
    <3>1. Dest(call[r]) = Det(sid[2], sid[3])
      BY <1>1, <2>3, <2>4, DestIs
    <3>2. QED
      BY <2>1, <2>2, <2>3, <2>4, <2>5, <3>1 DEF SnapshotStands, Is
  <2>6. CASE ~ call[r].detached
    <3>1. SnapOf(sid) \in DOMAIN snap
      BY <2>1, <2>2, <2>3, <2>6 DEF SnapshotStands, Is
    <3>2. SUFFICES ASSUME snap[SnapOf(sid)].defer PROVE FALSE
      BY <2>4, <2>6, <3>1
    <3>3. AttachedIs(SnapOf(sid)) /\ SnapOf(sid)[2][1] = "csi"
      <4>1. SnapOf(sid)[2] = <<"csi", sid[3]>>
        BY IdsAre
      <4>2. QED
        BY <3>1, <4>1 DEF SnapshotsAreSound
    <3>4. PICK q \in Requests : /\ Is(q, "DeleteSnapshot") /\ Sent(q)
                                /\ call[q].source[1] = "snapshot"
                                /\ SnapOf(sid) = SnapOf(call[q].source)
      BY <3>2, <3>3 DEF AttachedIs
    <3>5. call[q].source \in SnapshotIds
      BY <1>1, <3>4, CallsAre DEF Is
    <3>6. Vol(sid[2]) = Vol(call[q].source[2]) /\ <<"csi", sid[3]>> = <<"csi", call[q].source[3]>>
      BY <3>4, IdsAre
    <3>7. sid[2] = call[q].source[2] /\ sid[3] = call[q].source[3]
      <4>1. sid[2] = call[q].source[2]
        BY <3>6, NamesDiffer
      <4>2. QED
        BY <3>6, <4>1
    <3>8. call[q].source = sid
      BY <2>4, <2>6, <3>4, <3>5, <3>7 DEF SnapshotIds
    <3>9. QED
      BY <2>1, <3>4, <3>8 DEF SnapshotUnwanted, Drops
  <2>7. QED
    BY <2>5, <2>6
<1>4. QED
  BY <1>2, <1>3 DEF AckedCopiesAreWhole
------------------------------------------------------------
(* The types that the model states.                       *)

\* A row has one column or two.
LEMMA RowsHaveColumns ==
  ASSUME RowsAreSound, NEW t \in Tables, NEW i \in Rows(t)
  PROVE  Len(table[t][i]) \in 1..2
<1>1. \A a : Len(<<a>>) = 1
  OBVIOUS
<1>2. \A a, b : Len(<<a, b>>) = 2
  OBVIOUS
<1>3. PICK v \in Volumes : Belongs(t, i, v)
  BY DEF RowsAreSound
<1>4. \/ \E a : table[t][i] = <<a>>
      \/ \E a, b : table[t][i] = <<a, b>>
  <2>1. CASE t \in {"nfs", "smb", "extent", "subsys"}
    BY <1>3, <2>1, BelongsIs
  <2>2. CASE t = "target"
    BY <1>3, <2>2, BelongsIs
  <2>3. CASE t = "lun"
    BY <1>3, <2>3, BelongsIs
  <2>4. CASE t = "namespace"
    BY <1>3, <2>4, BelongsIs
  <2>5. CASE t = "port"
    BY <1>3, <2>5, BelongsIs
  <2> QED
    BY <2>1, <2>2, <2>3, <2>4, <2>5 DEF Tables
<1> QED
  BY <1>1, <1>2, <1>4

\* The invariant implies the types that the model states.
LEMMA TypesAreOK ==
  ASSUME Types, SharesAreSound, SnapshotsAreSound
  PROVE  TypeOK
<1>0. SetupIs /\ faults \in Nat
  BY SetupsAre DEF Types
<1>1. \E s \in Setups : /\ kind = s.kind /\ reuse = s.reuse /\ drops = s.drops
                        /\ call \in s.plans /\ faults <= s.faults
  <2>1. PICK s \in Setups : /\ kind = s.kind /\ reuse = s.reuse /\ drops = s.drops
                            /\ call \in s.plans /\ faults \in 0 .. s.faults
    BY <1>0 DEF SetupIs
  <2>2. s.faults \in Nat
    BY SetupsAssumption DEF Setup
  <2>3. faults <= s.faults
    BY <2>1, <2>2
  <2> QED
    BY <2>1, <2>3
<1>2. ASSUME NEW r \in Requests
      PROVE  /\ pc[r] \in {"idle", "pending", "reply", "done"}
                            \cup {Steps(call[r])[i] : i \in DOMAIN Steps(call[r])}
             /\ answer[r] \in {"none", "OK", "UNKNOWN", "ALREADY_EXISTS", "NOT_FOUND",
                               "FAILED_PRECONDITION"}
             /\ mem[r].ids \in [Tables -> {0} \cup Ids]
             /\ mem[r].job \in {"none", "RUNNING", "SUCCESS", "FAILED", "already-exists"}
  <2>1. pc[r] \in Places(call[r]) \cup {"idle", "pending", "reply", "done"}
    BY DEF Types, InItsPlace
  <2>2. ASSUME pc[r] \in Places(call[r])
        PROVE  pc[r] \in {Steps(call[r])[i] : i \in DOMAIN Steps(call[r])}
    BY <1>0, <2>2, PlacesAreSteps DEF StepOf
  <2>3. answer[r] \in Codes
    BY DEF Types
  <2>4. mem[r] \in MemoryType
    BY DEF Types
  <2> QED
    BY <2>1, <2>2, <2>3, <2>4 DEF Codes, MemoryType, Ids0
<1>3. ASSUME NEW d \in DOMAIN ds
      PROVE  /\ ds[d].size \in Nat /\ ds[d].whole \in BOOLEAN
             /\ ds[d].ids \in [Tables -> {0} \cup Ids]
             /\ ds[d].has \subseteq {"managed", "name", "context", "success"}
             /\ ds[d].origin # NoOrigin => ds[d].origin \in DOMAIN snap
  <2>1. ds[d] \in DatasetType
    BY DEF Types
  <2>2. ds[d].origin # NoOrigin => ds[d].origin \in DOMAIN snap
    BY DEF SnapshotsAreSound, PoolIsSound
  <2> QED
    BY <2>1, <2>2 DEF DatasetType, Ids0
<1>4. ASSUME NEW k \in DOMAIN snap
      PROVE  k[1] \in DOMAIN ds /\ {snap[k].managed, snap[k].defer} \subseteq BOOLEAN
  <2>1. snap[k] \in SnapshotType
    BY DEF Types
  <2>2. k[1] \in DOMAIN ds
    BY DEF SnapshotsAreSound, PoolIsSound
  <2> QED
    BY <2>1, <2>2 DEF SnapshotType
<1>5. \A t \in Tables : \A i \in Rows(t) : Len(table[t][i]) \in 1..2
  BY RowsHaveColumns DEF SharesAreSound
<1>6. overlooked \subseteq NamedTables \X Volumes
  BY DEF Types
<1> QED
  BY <1>0, <1>1, <1>2, <1>3, <1>4, <1>5, <1>6 DEF TypeOK

------------------------------------------------------------
(* What is left over: the deletions.                      *)

\* Nobody makes or destroys a volume that r is deleting, but r, which then answers.
LEMMA DeletedStands ==
  ASSUME Types, Control, VolumesAreSound, [Next]_vars, NEW r \in Requests, NEW v \in Volumes,
         Deletes(r, v), Running(r)
  PROVE  /\ Vol(v) \in DOMAIN ds' => Vol(v) \in DOMAIN ds /\ ds'[Vol(v)].origin = ds[Vol(v)].origin
         /\ Vol(v) \in DOMAIN ds => Vol(v) \in DOMAIN ds' \/ pc'[r] = "reply"
<1>1. ASSUME Vol(v) \in DOMAIN ds', Vol(v) \notin DOMAIN ds
      PROVE  FALSE
  <2>1. PICK q \in Requests : Creates(q, v) /\ Running(q)
    BY <1>1, NewVolume
  <2>2. ~ Unfinished(q)
    BY <2>1, DeletionIsAlone
  <2> QED
    BY <2>1, <2>2 DEF Running, Unfinished
<1>2. ASSUME Vol(v) \in DOMAIN ds, Vol(v) \notin DOMAIN ds'
      PROVE  pc'[r] = "reply"
  <2>1. v \in DOMAIN promised
    BY DeletionIsAlone
  <2>2. ds[Vol(v)].whole
    <3>1. VolumeIsKept(v)
      BY DEF VolumesAreSound
    <3> QED
      BY <1>2, <2>1, <3>1 DEF VolumeIsKept, Receiving
  <2>3. PICK q \in Requests : Deletes(q, v) /\ Running(q) /\ DoesDestroyVolume(q)
    BY <1>2, <2>2, LostVolume
  <2>4. q = r
    BY <2>3, DeletionIsAlone DEF Deletes, Is
  <2> QED
    BY <2>3, <2>4, TargetsAre
<1>3. Vol(v) \in DOMAIN ds /\ Vol(v) \in DOMAIN ds' => ds'[Vol(v)].origin = ds[Vol(v)].origin
  BY OriginStays
<1> QED
  BY <1>1, <1>2, <1>3

\* Before it reads the dataset, a deletion remembers no origin.
LEMMA ReadingIsFirst ==
  ASSUME Types, Control, Leftovers, [Next]_vars, NEW r \in Requests,
         Is(r, "DeleteVolume"), pc'[r] = "read"
  PROVE  mem'[r].origin = NoOrigin
<1>1. SetupIs /\ DOMAIN pc = Requests
  BY DEF Types
<1>2. Running(r)'
  BY DEF Running
<1>3. CASE pc'[r] = pc[r]
  <2>1. VolumeGoes(r) /\ pc[r] = "read"
    BY <1>3 DEF Leftovers
  <2>2. mem[r].origin = NoOrigin
    BY <2>1 DEF VolumeGoes, Is
  <2>3. ~ DoesReadDataset(r)
    <3>1. DoesReadDataset(r) => pc'[r] = "find"
      BY TargetsAre
    <3> QED
      BY <3>1
  <2> QED
    BY <1>2, <2>2, <2>3, Remembered
<1>4. CASE pc'[r] # pc[r]
  <2>1. Start(r)
    BY <1>4, WentBy
  <2>2. mem' = mem /\ pc[r] \in {"idle", "pending"}
    BY <2>1, StartIs
  <2>3. mem[r] = Blank
    BY <2>2 DEF Control, Running
  <2> QED
    BY <2>2, <2>3 DEF Blank
<1> QED
  BY <1>3, <1>4

\* A deletion comes to its steps from the ones before.
LEMMA OriginBy ==
  ASSUME Types, [Next]_vars, NEW r \in Requests, Is(r, "DeleteVolume"),
         pc'[r] \in {"origin"} \cup Unsharing
  PROVE  pc[r] \in {"find", "origin"} \cup Unsharing
<1>1. SetupIs /\ InItsPlace(r) /\ kind \in Kinds
  BY SetupsAre DEF Types
<1>2. CASE pc'[r] \in Unsharing
  BY <1>2, UnsharingBy DEF DoesFindShare
<1>3. CASE pc'[r] = "origin" /\ pc[r] # "origin"
  <2>1. \/ DoesFindShare(r)
        \/ \E t \in {"nfs", "smb", "extent", "subsys"} :
             DoesAskFor(r, t) \/ DoesDeleteRow(r, t) \/ DoesInheritId(r, t)
    BY <1>3, WentBy
  <2>2. ASSUME NEW t \in {"nfs", "smb", "extent", "subsys"},
               DoesAskFor(r, t) \/ DoesDeleteRow(r, t) \/ DoesInheritId(r, t)
        PROVE  pc[r] \in Unsharing
    <3>1. t \in NamedTables
      BY DEF NamedTables
    <3>2. CASE DoesAskFor(r, t)
      <4>1. pc[r] = Ask(t) /\ t \in Used /\ t \notin {"subsys", "namespace"}
        BY <3>2 DEF DoesAskFor
      <4>2. Ask(t) \in Ahead(t) /\ Ahead(t) \subseteq Unsharing
        BY <1>1, <3>1, <4>1, AheadIs
      <4> QED
        BY <4>1, <4>2
    <3>3. CASE DoesDeleteRow(r, t)
      <4>1. pc[r] = Remove(t) /\ t \in Used \ {"lun", "port"}
        BY <3>3 DEF DoesDeleteRow
      <4> QED
        BY <1>1, <4>1, RemovingIs
    <3>4. CASE DoesInheritId(r, t)
      <4>1. pc[r] = Inherit(t) /\ t \in Used \ {"lun", "port"}
        BY <3>4 DEF DoesInheritId
      <4> QED
        BY <1>1, <4>1, InheritingIs
    <3> QED
      BY <2>2, <3>2, <3>3, <3>4
  <2>3. DoesFindShare(r) => pc[r] = "find"
    BY DEF DoesFindShare
  <2> QED
    BY <2>1, <2>2, <2>3
<1> QED
  BY <1>2, <1>3

\* A deletion remembers the origin of its volume.
LEMMA OriginIsRead ==
  ASSUME Types, Control, VolumesAreSound, Leftovers, [Next]_vars,
         NEW r \in Requests, NEW v \in Volumes, Deletes(r, v),
         pc'[r] \in {"find", "origin"} \cup Unsharing
  PROVE  mem'[r].origin = IF Vol(v) \in DOMAIN ds' THEN ds'[Vol(v)].origin ELSE NoOrigin
<1>1. SetupIs /\ kind \in Kinds /\ mem \in [Requests -> MemoryType]
  BY SetupsAre DEF Types
<1>2. Is(r, "DeleteVolume") /\ call[r].method = "DeleteVolume" /\ call[r].volume = v
        /\ Dest(call[r]) = Vol(v)
  BY <1>1, ForVolumes DEF Deletes, Is
<1>3. Running(r) /\ Running(r)'
  BY <1>2, DeletingRan DEF Unshared
<1>4. /\ Vol(v) \in DOMAIN ds' <=> Vol(v) \in DOMAIN ds
      /\ Vol(v) \in DOMAIN ds' => ds'[Vol(v)].origin = ds[Vol(v)].origin
  <2>1. pc'[r] # "reply"
    BY <1>1 DEF Unsharing, Kinds
  <2> QED
    BY <1>3, <2>1, DeletedStands
<1>5. VolumeGoes(r)
  BY DEF Leftovers
<1>6. CASE DoesReadDataset(r)
  <2>1. pc[r] = "read"
    BY <1>6 DEF DoesReadDataset
  <2>2. mem[r].origin = NoOrigin
    BY <1>2, <1>5, <2>1 DEF VolumeGoes
  <2>3. CASE Vol(v) \in DOMAIN ds
    <3>1. mem' = [mem EXCEPT ![r].origin = ds[Vol(v)].origin, ![r].listed = SnapsOf(Vol(v))]
      BY <1>2, <1>6, <2>3 DEF DoesReadDataset
    <3>2. mem'[r].origin = ds[Vol(v)].origin
      BY <1>1, <3>1 DEF MemoryType
    <3> QED
      BY <1>4, <2>3, <3>2
  <2>4. CASE Vol(v) \notin DOMAIN ds
    <3>1. mem' = mem
      BY <1>2, <1>6, <2>4 DEF DoesReadDataset
    <3> QED
      BY <1>4, <2>2, <2>4, <3>1
  <2> QED
    BY <2>3, <2>4
<1>7. CASE ~ DoesReadDataset(r)
  <2>1. mem'[r].origin = mem[r].origin
    BY <1>3, <1>7, Remembered
  <2>2. pc[r] \in {"find", "origin"} \cup Unsharing
    <3>1. CASE pc'[r] = "find"
      BY <1>7, <3>1, WentBy
    <3>2. CASE pc'[r] # "find"
      BY <1>2, <3>2, OriginBy
    <3> QED
      BY <3>1, <3>2
  <2>3. mem[r].origin = IF Vol(v) \in DOMAIN ds THEN ds[Vol(v)].origin ELSE NoOrigin
    BY <1>2, <1>5, <2>2 DEF VolumeGoes
  <2> QED
    BY <1>4, <2>1, <2>3
<1> QED
  BY <1>6, <1>7

\* Before a volume is destroyed, its temporary origin is marked to go with it.
LEMMA OriginIsMarked ==
  ASSUME Types, Control, VolumesAreSound, SnapshotsAreSound, Leftovers, [Next]_vars,
         NEW r \in Requests, NEW v \in Volumes, Deletes(r, v),
         pc'[r] \in {"managed", "destroy"}, Vol(v) \in DOMAIN ds',
         NEW o, o = ds'[Vol(v)].origin, o # NoOrigin, o[2][1] = "for-volume"
  PROVE  snap'[o].defer
<1>1. SetupIs /\ kind \in Kinds
  BY SetupsAre DEF Types
<1>2. Is(r, "DeleteVolume") /\ call[r].method = "DeleteVolume" /\ call[r].volume = v
        /\ Dest(call[r]) = Vol(v)
  BY <1>1, ForVolumes DEF Deletes, Is
<1>3. Running(r) /\ Running(r)'
  BY <1>2, DeletingRan DEF Unshared
<1>4. Vol(v) \in DOMAIN ds /\ ds[Vol(v)].origin = o
  BY <1>3, DeletedStands
<1>5. o \in DOMAIN snap /\ o \in DOMAIN snap'
  BY <1>4, OriginsHaveSnapshots DEF SnapshotsAreSound, PoolIsSound
<1>6. snap[o] \in SnapshotType
  BY <1>5 DEF Types
<1>7. VolumeGoes(r)
  BY DEF Leftovers
<1>8. CASE pc[r] \in {"managed", "destroy"}
  <2>1. snap[o].defer
    BY <1>2, <1>4, <1>7, <1>8 DEF VolumeGoes
  <2>2. \/ snap'[o] = snap[o]
        \/ snap'[o] = [snap[o] EXCEPT !.defer = TRUE]
    BY <1>5, KeptSnapshots
  <2> QED
    BY <1>6, <2>1, <2>2 DEF SnapshotType
<1>9. CASE pc[r] \notin {"managed", "destroy"}
  <2>1. DoesDeferOrigin(r)
    <3>1. DoesCheckManaged(r) => pc[r] = "managed"
      BY DEF DoesCheckManaged
    <3>2. ~ Is(r, "DeleteSnapshot")
      BY <1>2 DEF Is
    <3> QED
      BY <1>9, <3>1, <3>2, WentBy
  <2>2. mem[r].origin = o
    <3>1. pc[r] = "origin"
      BY <2>1 DEF DoesDeferOrigin
    <3> QED
      BY <1>2, <1>4, <1>7, <3>1 DEF VolumeGoes
  <2>3. Releases({o})
    BY <2>1, <2>2 DEF DoesDeferOrigin
  <2>4. snap'[o] = [snap[o] EXCEPT !.defer = TRUE]
    BY <1>5, <2>3 DEF Releases
  <2> QED
    BY <1>6, <2>4 DEF SnapshotType
<1> QED
  BY <1>8, <1>9

\* When DeleteVolume answers its volume is gone, and it never comes back.
LEMMA VolumeIsGone ==
  ASSUME Types, Control, Leftovers, [Next]_vars,
         NEW r \in Requests, NEW v \in Volumes, Deletes(r, v), pc'[r] \in {"reply", "done"}
  PROVE  Vol(v) \notin DOMAIN ds'
<1>1. SetupIs
  BY DEF Types
<1>2. Is(r, "DeleteVolume") /\ call[r].method = "DeleteVolume" /\ call[r].volume = v
        /\ Dest(call[r]) = Vol(v)
  BY <1>1, ForVolumes DEF Deletes, Is
<1>3. CASE pc[r] \in {"reply", "done"}
  <2>1. VolumeGoes(r)
    BY DEF Leftovers
  <2>2. Vol(v) \notin DOMAIN ds
    BY <1>2, <1>3, <2>1 DEF VolumeGoes
  <2>3. VolumeUnwanted(v)
    BY <1>3 DEF VolumeUnwanted, Sent
  <2> QED
    BY <2>2, <2>3, NewVolume
<1>4. CASE pc[r] \notin {"reply", "done"}
  <2>1. pc'[r] = "reply"
    <3>1. ASSUME pc'[r] = "done"
          PROVE  FALSE
      <4>1. Places(call[r]) \cap {"idle", "pending", "reply", "done"} = {}
        BY <1>1, PlacesAreNoStates
      <4>2. Start(r) => First(call[r]) \in Places(call[r])
        BY StartIs
      <4> QED
        BY <1>4, <3>1, <4>1, <4>2, ArrivalIs
    <3> QED
      BY <3>1
  <2>2. DoesDestroyVolume(r)
    <3>1. \/ DoesSetSuccess(r) \/ DoesResize(r) \/ DoesDestroyVolume(r)
          \/ DoesReleaseSnapshot(r) \/ DoesDestroyContainer(r)
      BY <1>4, <2>1, CameBy
    <3> QED
      BY <1>2, <3>1 DEF DoesSetSuccess, DoesResize, DoesReleaseSnapshot, DoesDestroyContainer, Is
  <2> QED
    BY <1>2, <2>2 DEF DoesDestroyVolume, Removes
<1> QED
  BY <1>3, <1>4

\* All that a deletion knows of its volume stays true.
LEMMA VolumesGo ==
  ASSUME Types, Control, VolumesAreSound, SnapshotsAreSound, Leftovers, [Next]_vars,
         NEW r \in Requests
  PROVE  VolumeGoes(r)'
<1>1. SetupIs /\ call' = call /\ kind' = kind
  BY ForwardIs DEF Types, Forward
<1>2. SUFFICES ASSUME Is(r, "DeleteVolume")
               PROVE  VolumeGoes(r)'
  BY <1>1 DEF VolumeGoes, Is
<1>3. PICK v \in Volumes : v = call[r].volume
  BY <1>1, CallsAre, SetupsAre
<1>4. Deletes(r, v) /\ call'[r].volume = v
  BY <1>1, <1>2, <1>3 DEF Deletes
<1>5. pc'[r] = "read" => mem'[r].origin = NoOrigin
  BY <1>2, ReadingIsFirst
<1>6. pc'[r] \in {"find", "origin"} \cup Unsharing' =>
        mem'[r].origin = IF Vol(v) \in DOMAIN ds' THEN ds'[Vol(v)].origin ELSE NoOrigin
  <2>1. Unsharing' = Unsharing
    BY <1>1 DEF Unsharing
  <2> QED
    BY <1>4, <2>1, OriginIsRead
<1>7. pc'[r] \in {"managed", "destroy"} /\ Vol(v) \in DOMAIN ds' =>
        \A o : o = ds'[Vol(v)].origin /\ o # NoOrigin /\ o[2][1] = "for-volume" => snap'[o].defer
  BY <1>4, OriginIsMarked
<1>8. pc'[r] \in {"reply", "done"} => Vol(v) \notin DOMAIN ds'
  BY <1>4, VolumeIsGone
<1> QED
  BY <1>4, <1>5, <1>6, <1>7, <1>8 DEF VolumeGoes

------------------------------------------------------------
(* What is left over: temporary snapshots.                *)

\* The snapshot that a replicated dataset is received with is nobody's temporary one.
LEMMA ReceivedIsNotTemporary ==
  ASSUME Types, NEW q \in Requests, Replicates(call[q]), NEW r \in Requests, Copies(call[r])
  PROVE  CopyFrom(call[r]) # <<Dest(call[q]), Tag(call[q])>>
<1>1. SetupIs /\ call \in Plans
  BY SetupsAre DEF Types
<1>2. SUFFICES ASSUME From(call[r]) = Dest(call[q]), Tag(call[r]) = Tag(call[q])
               PROVE  FALSE
  BY DEF CopyFrom
<1>3. /\ Is(q, "CreateSnapshot") \/ (Is(q, "CreateVolume") /\ call[q].source[1] # "none")
      /\ Is(r, "CreateSnapshot") \/ (Is(r, "CreateVolume") /\ call[r].source[1] # "none")
      /\ Copies(call[q])
  BY <1>1, TagsAre
<1>4. CASE Is(q, "CreateSnapshot")
  <2>1. Dest(call[q])[1] = "det" /\ Tag(call[q])[1] = "for-snapshot"
    BY <1>1, <1>4, DestIs, FromIs, NamesAre
  <2>2. CASE Is(r, "CreateSnapshot")
    BY <1>1, <1>2, <2>1, <2>2, FromIs, NamesAre
  <2>3. CASE Is(r, "CreateVolume")
    <3>1. call[r].source[1] \in {"volume", "detached"}
      BY <2>3 DEF Copies, Is
    <3> QED
      BY <1>1, <1>2, <2>1, <2>3, <3>1, FromIs
  <2> QED
    BY <1>3, <2>2, <2>3
<1>5. CASE Is(q, "CreateVolume")
  <2>1. call[q].source[1] \in {"volume", "detached"} /\ Dest(call[q]) = Vol(VolumeId(call[q]))
          /\ Tag(call[q]) = <<"for-volume", VolumeId(call[q])>>
    <3>1. call[q].source[1] \in {"volume", "detached"}
      BY <1>3, <1>5 DEF Copies, Is
    <3> QED
      BY <1>1, <1>5, <3>1, DestIs, FromIs DEF Is
  <2>2. CASE Is(r, "CreateSnapshot")
    BY <1>1, <1>2, <2>1, <2>2, FromIs
  <2>3. CASE Is(r, "CreateVolume")
    <3>1. call[r].source[1] \in {"volume", "detached"}
      BY <2>3 DEF Copies, Is
    <3>2. Tag(call[r]) = <<"for-volume", VolumeId(call[r])>>
      BY <1>1, <2>3, <3>1, FromIs
    <3>3. VolumeId(call[r]) = VolumeId(call[q])
      BY <1>2, <2>1, <3>2
    <3>4. CASE call[r].source[1] = "detached"
      <4>1. From(call[r])[1] = "det"
        BY <1>1, <2>3, <3>4, FromIs, NamesAre
      <4> QED
        BY <1>2, <2>1, <4>1, NamesAre
    <3>5. CASE call[r].source[1] = "volume"
      <4>1. Vol(call[r].source[2]) = Vol(VolumeId(call[r]))
        BY <1>1, <1>2, <2>1, <2>3, <3>3, <3>5, FromIs
      <4>2. Creates(r, VolumeId(call[r])) /\ VolumeId(call[r]) \in Volumes
        BY <1>1, <2>3, ForVolumes
      <4>3. call[r].source[2] # VolumeId(call[r])
        BY <1>1, <3>5, <4>2, CallsAreWellFormed
      <4> QED
        BY <4>1, <4>3, NamesDiffer
    <3> QED
      BY <3>1, <3>4, <3>5
  <2> QED
    BY <1>3, <2>2, <2>3
<1> QED
  BY <1>3, <1>4, <1>5

\* A temporary snapshot is made by a call that copies it.
LEMMA NewTemporary ==
  ASSUME Types, [Next]_vars, NEW k \in DOMAIN snap', k \notin DOMAIN snap,
         NEW r \in Requests, Copies(call[r]), k = CopyFrom(call[r])
  PROVE  \E q \in Requests : /\ Copies(call[q]) /\ k = CopyFrom(call[q])
                             /\ pc'[q] \in Holding \cup {"clone"}
<1>1. SetupIs
  BY DEF Types
<1>2. k[2][1] # "csi"
  BY <1>1, TagsAre
<1>3. PICK q \in Requests :
           \/ /\ DoesTakeTemporary(q) /\ k = CopyFrom(call[q]) /\ k[1] \in DOMAIN ds /\ ds' = ds
              /\ snap'[k] = [size |-> ds[k[1]].size, managed |-> FALSE, defer |-> FALSE]
           \/ /\ DoesTakeSnapshot(q) /\ k = SnapOf(IdOf(call[q])) /\ k[1] \in DOMAIN ds /\ ds' = ds
              /\ snap'[k] = [size |-> ds[k[1]].size, managed |-> TRUE, defer |-> FALSE]
           \/ /\ JobCloses(q) /\ k = <<Dest(call[q]), Tag(call[q])>> /\ k[1] \in DOMAIN ds
              /\ k[1] \in DOMAIN ds' /\ ds'[k[1]] = [ds[k[1]] EXCEPT !.whole = TRUE]
              /\ snap'[k] = [size |-> ds[k[1]].size, managed |-> FALSE, defer |-> FALSE]
  BY NewSnapshots
<1>4. CASE DoesTakeTemporary(q) /\ k = CopyFrom(call[q])
  <2>1. pc'[q] \in {"run", "clone"}
    BY <1>4, TargetsAre
  <2>2. Copies(call[q])
    BY <1>4 DEF DoesTakeTemporary
  <2> QED
    BY <1>4, <2>1, <2>2 DEF Holding
<1>5. CASE k = SnapOf(IdOf(call[q]))
  BY <1>2, <1>5, IdsAre
<1>6. CASE JobCloses(q) /\ k = <<Dest(call[q]), Tag(call[q])>>
  <2>1. Replicates(call[q])
    BY <1>6 DEF JobCloses, Filling
  <2> QED
    BY <1>6, <2>1, ReceivedIsNotTemporary
<1> QED
  BY <1>3, <1>4, <1>5, <1>6

\* A temporary snapshot that stays keeps a clone if it has one.
LEMMA ClonesOfTemporaryStay ==
  ASSUME Types, Control, SnapshotsAreSound, Leftovers, [Next]_vars,
         NEW k \in DOMAIN snap, k \in DOMAIN snap', Clones(k) # {},
         NEW r \in Requests, Copies(call[r]), k = CopyFrom(call[r])
  PROVE  Clones(k)' # {}
<1>1. SetupIs /\ k \in SnapNames
  BY DEF Types
<1>2. k[2][1] # "csi" /\ k # NoOrigin
  BY <1>1, TagsAre, SnapNamesAre
<1>3. PICK d \in DOMAIN ds : d \in Clones(k) /\ ds[d].origin = k
  BY DEF Clones
<1>4. SUFFICES ASSUME Clones(k)' = {}
               PROVE  FALSE
  OBVIOUS
<1>5. ASSUME NEW e \in DOMAIN ds, ds[e].origin = k
      PROVE  e \notin DOMAIN ds'
  <2>1. e \in DOMAIN ds' => ds'[e].origin = k
    BY <1>5, OriginStays
  <2> QED
    BY <1>4, <2>1 DEF Clones
<1>6. PICK q \in Requests : Destroys(q) /\ d = Dest(call[q]) /\ Removes(d)
  BY <1>3, <1>5, CloneGoes
<1>7. Clones(k) = {d}
  BY <1>3, <1>5, <1>6 DEF Removes, Clones
<1>8. Discards(SnapsOf(d) \cup {x \in DOMAIN snap : snap[x].defer /\ Clones(x) = {d}})
  BY <1>6 DEF Destroys, DoesDestroyVolume, DoesDestroyDetached
<1>9. ~ snap[k].defer
  BY <1>7, <1>8 DEF Discards
<1>10. OriginIs(d)
  BY <1>3 DEF SnapshotsAreSound
<1>11. d[1] = "vol"
  BY <1>2, <1>3, <1>10 DEF OriginIs
<1>12. DoesDestroyVolume(q)
  <2>1. ASSUME DoesDestroyDetached(q)
        PROVE  FALSE
    <3>1. Is(q, "DeleteSnapshot")
      BY <2>1 DEF DoesDestroyDetached
    <3>2. d[1] = "det"
      BY <1>1, <1>6, <3>1, DestIs, SetupsAre, NamesAre
    <3> QED
      BY <1>11, <3>2
  <2> QED
    BY <1>6, <2>1 DEF Destroys
<1>13. PICK v \in Volumes : Deletes(q, v) /\ d = Vol(v) /\ v = call[q].volume
  <2>1. Is(q, "DeleteVolume") /\ call[q].volume \in Volumes
    BY <1>1, <1>12, CallsAre, SetupsAre DEF DoesDestroyVolume
  <2>2. Deletes(q, call[q].volume)
    BY <2>1 DEF Deletes
  <2> QED
    BY <1>1, <1>6, <2>1, <2>2, ForVolumes
<1>14. k[2][1] = "for-volume"
  <2>1. PICK p \in Requests : Creates(p, v)
    BY <1>10, <1>13 DEF OriginIs
  <2>2. ByCloning(call[p]) /\ k = CopyFrom(call[p])
    BY <1>2, <1>3, <1>10, <1>13, <2>1 DEF OriginIs
  <2>3. Is(p, "CreateVolume") /\ k[2] = Tag(call[p])
    BY <2>1, <2>2 DEF Creates, CopyFrom
  <2>4. call[p].source[1] \in {"volume", "snapshot", "detached"}
    <3>1. call[p].source[1] # "none"
      BY <2>2 DEF ByCloning
    <3> QED
      BY <1>1, <3>1, SourcesAre, SetupsAre
  <2> QED
    BY <1>1, <1>2, <2>3, <2>4, FromIs
<1>15. VolumeGoes(q)
  BY DEF Leftovers
<1>16. call[q].method = "DeleteVolume" /\ pc[q] = "destroy"
  BY <1>12 DEF DoesDestroyVolume, Is
<1>17. snap[k].defer
  BY <1>2, <1>3, <1>13, <1>14, <1>15, <1>16 DEF VolumeGoes
<1> QED
  BY <1>9, <1>17

\* Who needs a temporary snapshot without a clone goes on needing it until it is gone.
LEMMA NeedStays ==
  ASSUME Types, Control, SnapshotsAreSound, [Next]_vars,
         NEW k \in DOMAIN snap, k \in DOMAIN snap', Clones(k) = {},
         NEW r \in Requests, Copies(call[r]), k = CopyFrom(call[r]),
         pc[r] \in Holding \cup {"clone"}
  PROVE  pc'[r] \in Holding \cup {"clone"} \/ Clones(k)' # {}
<1>1. SetupIs /\ InItsPlace(r)
  BY DEF Types
<1>2. Is(r, "CreateSnapshot") \/ (Is(r, "CreateVolume") /\ call[r].source[1] # "none")
  BY <1>1, TagsAre
<1>3. ~ Is(r, "DeleteVolume") /\ ~ Is(r, "ControllerExpandVolume") /\ ~ Is(r, "DeleteSnapshot")
  BY <1>2 DEF Is
<1>4. CASE pc'[r] = pc[r] \/ pc'[r] = "pending"
  BY <1>4 DEF Holding
<1>5. CASE Start(r)
  <2>1. pc'[r] = "check"
    <3>1. pc'[r] = pc[r] \/ pc'[r] = First(call[r])
      <4>1. pc[r] \in {"idle", "pending"}
        BY <1>5, StartIs
      <4> QED
        BY <1>5, <4>1, ArrivalIs, WorksMoves DEF Running, Reply, On
    <3>2. First(call[r]) = "check"
      BY <1>2 DEF First, Is
    <3>3. pc'[r] # pc[r]
      <4>1. pc' = [pc EXCEPT ![r] = First(call[r])] /\ pc[r] \in {"idle", "pending"}
        BY <1>5, StartIs
      <4>2. DOMAIN pc = Requests
        BY DEF Types
      <4> QED
        BY <3>2, <4>1, <4>2
    <3> QED
      BY <3>1, <3>2, <3>3
  <2> QED
    BY <2>1 DEF Holding
<1>6. CASE Works(r)
  <2>1. CASE pc[r] = "check"
    <3>1. DoesCheckSize(r) => pc'[r] \in {"clone", "tmp"}
      <4>1. DOMAIN pc = Requests
        BY DEF Types
      <4>2. DoesCheckSize(r) => call[r].source[1] # "none"
        BY <1>2 DEF DoesCheckSize, Is
      <4> QED
        BY <4>1, <4>2 DEF DoesCheckSize, Moves
    <3>2. DoesCheckName(r) => pc'[r] = "container"
      <4>1. DOMAIN pc = Requests
        BY DEF Types
      <4>2. DoesCheckName(r) => call[r].detached
        BY DEF Copies, DoesCheckName, Is
      <4> QED
        BY <4>1, <4>2 DEF DoesCheckName, Moves
    <3> QED
      BY <1>6, <2>1, <3>1, <3>2, WorkIs DEF Holding
  <2>2. CASE pc[r] = "container"
    BY <1>6, <2>2, WorkIs, TargetsAre DEF Holding
  <2>3. CASE pc[r] = "tmp"
    <3>1. pc'[r] \in {"run", "clone"}
      BY <1>6, <2>3, WorkIs, TargetsAre
    <3> QED
      BY <3>1 DEF Holding
  <2>4. CASE pc[r] \in {"run", "poll", "props", "strip"}
    BY <1>6, <2>4, WorkIs, TargetsAre DEF Holding
  <2>5. CASE pc[r] = "untmp"
    <3>1. Releases({k})
      BY <1>6, <2>5, WorkIs DEF DoesDropTemporary
    <3> QED
      BY <3>1 DEF Releases
  <2>6. CASE pc[r] = "clone"
    <3>1. DoesClone(r) /\ Is(r, "CreateVolume") /\ ByCloning(call[r])
      BY <1>6, <2>6, WorkIs DEF DoesClone
    <3>2. PICK d : d = Dest(call[r])
      OBVIOUS
    <3>3. CASE d \in DOMAIN ds
      <4>1. PICK v \in Volumes : Creates(r, v) /\ d = Vol(v)
        BY <1>1, <3>1, <3>2, ForVolumes
      <4>2. OriginIs(d)
        BY <3>3 DEF SnapshotsAreSound
      <4>3. ds[d].origin = k
        BY <3>1, <4>1, <4>2 DEF OriginIs
      <4> QED
        BY <3>3, <4>3 DEF Clones
    <3>4. CASE d \notin DOMAIN ds
      <4>1. Adds(d, Dataset(k, snap[k].size, {"managed"}, TRUE))
        BY <3>1, <3>2, <3>4 DEF DoesClone
      <4>2. d \in DOMAIN ds' /\ ds'[d].origin = k
        BY <4>1 DEF Adds, Dataset
      <4> QED
        BY <4>2 DEF Clones
    <3> QED
      BY <3>3, <3>4
  <2>7. pc[r] \in {"check", "container", "tmp", "run", "poll", "props", "strip", "untmp", "clone"}
    <3>1. pc[r] # "pending"
      BY <1>6, WorksMoves DEF Running
    <3> QED
      BY <3>1 DEF Holding
  <2> QED
    BY <2>1, <2>2, <2>3, <2>4, <2>5, <2>6, <2>7
<1>7. ~ Reply(r)
  BY DEF Reply, On, Holding
<1> QED
  BY <1>4, <1>5, <1>6, <1>7, ArrivalIs

\* A temporary snapshot stays for its clones, or for a call that copies it.
LEMMA TemporaryStays ==
  ASSUME Types, Control, SnapshotsAreSound, Leftovers, [Next]_vars, NEW k \in DOMAIN snap'
  PROVE  TemporaryIsHeld(k)'
<1>1. call' = call
  BY ForwardIs DEF Forward
<1>2. \A r \in Requests : /\ Copies(call[r])' <=> Copies(call[r])
                          /\ CopyFrom(call[r])' = CopyFrom(call[r])
  BY <1>1
<1>3. Holding' = Holding
  BY DEF Holding
<1>4. SUFFICES ASSUME NEW r \in Requests, Copies(call[r]), k = CopyFrom(call[r])
               PROVE  \/ Clones(k)' # {}
                      \/ \E q \in Requests : /\ Copies(call[q]) /\ k = CopyFrom(call[q])
                                             /\ pc'[q] \in Holding \cup {"clone"}
  BY <1>2, <1>3 DEF TemporaryIsHeld
<1>5. CASE k \notin DOMAIN snap
  BY <1>4, <1>5, NewTemporary
<1>6. CASE k \in DOMAIN snap /\ Clones(k) # {}
  BY <1>4, <1>6, ClonesOfTemporaryStay
<1>7. CASE k \in DOMAIN snap /\ Clones(k) = {}
  <2>1. TemporaryIsHeld(k)
    BY <1>7 DEF Leftovers
  <2>2. PICK q \in Requests : /\ Copies(call[q]) /\ k = CopyFrom(call[q])
                              /\ pc[q] \in Holding \cup {"clone"}
    BY <1>4, <1>7, <2>1 DEF TemporaryIsHeld
  <2> QED
    BY <1>7, <2>2, NeedStays
<1> QED
  BY <1>5, <1>6, <1>7

------------------------------------------------------------
(* What is left over: the parents of detached snapshots.  *)

\* When a detached snapshot goes, whoever made or destroys it is not done.
LEMMA DetachedGoes ==
  ASSUME Types, VolumesAreSound, [Next]_vars, NEW v \in Volumes,
         NEW e \in DOMAIN ds, e[1] = "det", e[2] = v, e \notin DOMAIN ds'
  PROVE  \E q \in Requests : \/ Makes(q, v) /\ Unfinished(q)'
                             \/ Unmakes(q, v) /\ Unfinished(q)' /\ pc'[q] # "reply"
<1>1. SetupIs /\ call \in Plans
  BY SetupsAre DEF Types
<1>2. PICK q \in Requests :
        \/ (DoesDestroyVolume(q) \/ DoesDestroyDetached(q)) /\ e = Dest(call[q])
        \/ DoesDestroyContainer(q) /\ e = Con(call[q].source[2])
        \/ JobCloses(q) /\ e = Dest(call[q]) /\ ~ ds[e].whole
  BY LostDatasets
<1>3. CASE DoesDestroyVolume(q) /\ e = Dest(call[q])
  <2>1. Is(q, "DeleteVolume")
    BY <1>3 DEF DoesDestroyVolume
  <2> QED
    BY <1>1, <1>3, <2>1, DestIs, NamesAre DEF Is
<1>4. CASE DoesDestroyDetached(q) /\ e = Dest(call[q])
  <2>1. Is(q, "DeleteSnapshot") /\ call[q].source[1] = "detached"
    BY <1>4 DEF DoesDestroyDetached
  <2>2. e = Det(call[q].source[2], call[q].source[3])
    BY <1>1, <1>4, <2>1, DestIs
  <2>3. Unmakes(q, v)
    BY <2>1, <2>2, NamesAre DEF Unmakes
  <2>4. pc'[q] = "uncontain"
    BY <1>4, TargetsAre
  <2> QED
    BY <2>3, <2>4 DEF Unfinished
<1>5. CASE e = Con(call[q].source[2])
  BY <1>5, NamesAre
<1>6. CASE JobCloses(q) /\ e = Dest(call[q]) /\ ~ ds[e].whole
  <2>1. PICK p \in Requests : Replicates(call[p]) /\ Dest(call[p]) = e /\ pc[p] \in Holding
    BY <1>6 DEF VolumesAreSound, ReceivingIsHeld
  <2>2. Is(p, "CreateSnapshot") \/ Is(p, "CreateVolume")
    BY <2>1 DEF Replicates, Is
  <2>3. ~ Is(p, "CreateVolume")
    BY <1>1, <2>1, DestIs, NamesAre DEF Is
  <2>4. e = Det(call[p].volume, call[p].name)
    BY <1>1, <2>1, <2>2, <2>3, DestIs
  <2>5. Makes(p, v)
    BY <2>1, <2>2, <2>3, <2>4, NamesAre DEF Makes, Replicates
  <2>6. pc' = pc
    BY <1>6 DEF JobCloses
  <2> QED
    BY <2>1, <2>5, <2>6 DEF Unfinished, Holding
<1> QED
  BY <1>2, <1>3, <1>4, <1>5, <1>6

\* Who makes a detached snapshot is not done before it is there.
LEMMA MakerStays ==
  ASSUME Types, Control, SnapshotsAreSound, [Next]_vars, NEW v \in Volumes,
         NEW q \in Requests, Makes(q, v), Unfinished(q)
  PROVE  Unfinished(q)' \/ Details(v)' # {}
<1>1. SetupIs /\ call \in Plans /\ DOMAIN pc = Requests
  BY SetupsAre DEF Types
<1>2. SUFFICES ASSUME ~ Unfinished(q)'
               PROVE  Details(v)' # {}
  OBVIOUS
<1>3. Reply(q) /\ pc[q] = "reply"
  <2>1. pc'[q] # pc[q]
    BY <1>2 DEF Unfinished
  <2>2. pc'[q] \in {"idle", "done"}
    BY <1>2 DEF Unfinished
  <2>3. Places(call[q]) \cap {"idle", "pending", "reply", "done"} = {}
    BY <1>1, PlacesAreNoStates
  <2>4. Start(q) => pc'[q] \in Places(call[q])
    BY <1>1, StartIs
  <2> QED
    BY <2>1, <2>2, <2>3, <2>4, ArrivalIs
<1>4. PICK sid \in SnapshotIds : sid = IdOf(call[q])
  BY <1>1, CallsAre DEF Makes, Is
<1>5. ~ SnapshotUnwanted(sid)
  <2>1. ASSUME NEW p \in Requests, Drops(p, sid), Sent(p)
        PROVE  FALSE
    <3>1. Takes(q, sid)
      BY <1>4 DEF Takes, Makes
    <3>2. ~ Unfinished(q)
      BY <2>1, <3>1 DEF Control, UnwantedIsSettled
    <3> QED
      BY <3>2
  <2> QED
    BY <2>1 DEF SnapshotUnwanted
<1>6. SnapshotStands(q)
  BY DEF SnapshotsAreSound
<1>7. PICK d : d = Dest(call[q]) /\ d = Det(call[q].volume, call[q].name)
  BY <1>1, DestIs DEF Makes
<1>8. d \in DOMAIN ds
  BY <1>3, <1>4, <1>5, <1>6, <1>7 DEF SnapshotStands, Makes, Is
<1>9. ds' = ds
  BY <1>3, ReplyIs
<1>10. d[1] = "det" /\ d[2] = v
  BY <1>7, NamesAre DEF Makes
<1> QED
  BY <1>8, <1>9, <1>10 DEF Details

\* Who destroys a detached snapshot does not answer before its empty parent is gone.
LEMMA UnmakerStays ==
  ASSUME Types, [Next]_vars, NEW v \in Volumes, NEW q \in Requests, Unmakes(q, v),
         Unfinished(q), pc[q] # "reply", Con(v) \in DOMAIN ds'
  PROVE  (Unfinished(q)' /\ pc'[q] # "reply") \/ Details(v)' # {}
<1>1. SetupIs /\ DOMAIN pc = Requests
  BY DEF Types
<1>2. Places(call[q]) \cap {"idle", "pending", "reply", "done"} = {}
  BY <1>1, PlacesAreNoStates
<1>3. Start(q) => pc'[q] \in Places(call[q])
  BY <1>1, StartIs
<1>4. pc'[q] \notin {"idle", "done"}
  BY <1>2, <1>3, ArrivalIs DEF Unfinished
<1>5. CASE pc'[q] = "reply"
  <2>1. DoesDestroyContainer(q)
    <3>1. \/ DoesSetSuccess(q) \/ DoesResize(q) \/ DoesDestroyVolume(q)
          \/ DoesReleaseSnapshot(q) \/ DoesDestroyContainer(q)
      BY <1>5, CameBy
    <3> QED
      BY <3>1 DEF DoesSetSuccess, DoesResize, DoesDestroyVolume, DoesReleaseSnapshot, Is, Unmakes
  <2>2. Details(v) # {} /\ ds' = ds
    BY <2>1 DEF DoesDestroyContainer, Unmakes, Removes
  <2> QED
    BY <2>2 DEF Details
<1> QED
  BY <1>4, <1>5 DEF Unfinished

\* An empty parent is in the hands of a request.
LEMMA ContainersStay ==
  ASSUME Types, Control, VolumesAreSound, SnapshotsAreSound, Leftovers, [Next]_vars,
         NEW v \in Volumes
  PROVE  ContainerIsUsed(v)'
<1>1. SetupIs /\ call \in Plans /\ call' = call /\ DOMAIN pc = Requests
  BY SetupsAre, ForwardIs DEF Types, Forward
<1>2. SUFFICES ASSUME Con(v) \in DOMAIN ds'
               PROVE  \/ Details(v)' # {}
                      \/ \E q \in Requests :
                           \/ Makes(q, v) /\ Unfinished(q)'
                           \/ Unmakes(q, v) /\ Unfinished(q)' /\ pc'[q] # "reply"
  BY <1>1 DEF ContainerIsUsed, Makes, Unmakes, Is
<1>3. CASE Con(v) \notin DOMAIN ds
  <2>1. PICK q \in Requests :
          \/ DoesCreate(q) /\ Con(v) = Dest(call[q])
          \/ DoesClone(q) /\ Con(v) = Dest(call[q])
          \/ DoesRunReplication(q) /\ Con(v) = Dest(call[q])
          \/ DoesCreateContainer(q) /\ Con(v) = Con(call[q].volume)
    BY <1>2, <1>3, NewDatasets
  <2>2. Con(v) # Dest(call[q])
    <3>1. Dest(call[q]) \in Vols \cup Dets
      BY <1>1, DestIs
    <3>2. Dest(call[q])[1] \in {"vol", "det"}
      BY <3>1, NamesAre DEF Vols, Dets
    <3> QED
      BY <3>2, NamesAre
  <2>3. DoesCreateContainer(q) /\ v = call[q].volume
    BY <2>1, <2>2, NamesDiffer
  <2>4. Makes(q, v)
    BY <2>3 DEF DoesCreateContainer, Makes
  <2>5. pc'[q] = "tmp"
    BY <2>3, TargetsAre
  <2> QED
    BY <2>4, <2>5 DEF Unfinished
<1>4. CASE Con(v) \in DOMAIN ds
  <2>1. ContainerIsUsed(v)
    BY DEF Leftovers
  <2>2. \/ Details(v) # {}
        \/ \E q \in Requests : Makes(q, v) /\ Unfinished(q)
        \/ \E q \in Requests : Unmakes(q, v) /\ Unfinished(q) /\ pc[q] # "reply"
    BY <1>4, <2>1 DEF ContainerIsUsed, Makes, Unmakes
  <2>3. CASE Details(v) # {}
    <3>1. PICK e \in DOMAIN ds : e[1] = "det" /\ e[2] = v
      BY <2>3 DEF Details
    <3>2. CASE e \in DOMAIN ds'
      BY <3>1, <3>2 DEF Details
    <3>3. CASE e \notin DOMAIN ds'
      BY <3>1, <3>3, DetachedGoes
    <3> QED
      BY <3>2, <3>3
  <2>4. CASE \E q \in Requests : Makes(q, v) /\ Unfinished(q)
    BY <2>4, MakerStays
  <2>5. CASE \E q \in Requests : Unmakes(q, v) /\ Unfinished(q) /\ pc[q] # "reply"
    BY <1>2, <2>5, UnmakerStays
  <2> QED
    BY <2>2, <2>3, <2>4, <2>5
<1> QED
  BY <1>3, <1>4

\* Every step keeps what is said of leftovers.
LEMMA LeftoversStay ==
  ASSUME Types, Control, VolumesAreSound, SnapshotsAreSound, Leftovers, [Next]_vars
  PROVE  Leftovers'
<1>1. \A r \in Requests : VolumeGoes(r)'
  BY VolumesGo
<1>2. \A k \in DOMAIN snap' : TemporaryIsHeld(k)'
  BY TemporaryStays
<1>3. \A v \in Volumes : ContainerIsUsed(v)'
  BY ContainersStay
<1> QED
  BY <1>1, <1>2, <1>3 DEF Leftovers

\* At first nothing is left over.
LEMMA LeftoversBegin ==
  ASSUME Init
  PROVE  Leftovers
<1>1. kind \in Kinds
  BY SetupsAre, TypesBegin DEF Types
<1>2. ASSUME NEW r \in Requests
      PROVE  VolumeGoes(r)
  <2>1. pc[r] = "idle"
    BY DEF Init
  <2>2. "idle" \notin Unsharing
    BY <1>1 DEF Unsharing, Kinds
  <2> QED
    BY <2>1, <2>2 DEF VolumeGoes
<1>3. DOMAIN ds = {} /\ DOMAIN snap = {}
  BY DEF Init
<1> QED
  BY <1>2, <1>3 DEF Leftovers, ContainerIsUsed

\* The invariant implies that deletions leave nothing.
LEMMA NothingIsLeft ==
  ASSUME Types, SharesAreSound, Leftovers
  PROVE  DeletionsLeaveNothing
<1>1. SetupIs /\ call \in Plans
  BY SetupsAre DEF Types
<1>2. ASSUME NEW r \in Requests, Is(r, "DeleteVolume"), pc[r] = "done"
      PROVE  /\ Vol(call[r].volume) \notin DOMAIN ds
             /\ \A x \in RowsNamed(call[r].volume) : <<x[1], call[r].volume>> \in overlooked
  <2>1. PICK v \in Volumes : v = call[r].volume
    BY <1>1, CallsAre
  <2>2. Dest(call[r]) = Vol(v)
    BY <1>1, <1>2, <2>1, ForVolumes DEF Deletes
  <2>3. VolumeGoes(r)
    BY DEF Leftovers
  <2>4. Vol(v) \notin DOMAIN ds
    BY <1>2, <2>1, <2>3 DEF VolumeGoes, Is
  <2>5. ASSUME NEW t \in NamedTables, NEW i \in Rows(t), table[t][i][1] = v
        PROVE  <<t, v>> \in overlooked
    <3>1. Named(t, i, v) /\ RowsAreSound /\ t \in Tables
      BY <2>5 DEF Named, SharesAreSound, NamedTables, Tables
    <3>2. Belongs(t, i, v)
      BY <3>1, NamedIs
    <3>3. PICK w \in Volumes : Belongs(t, i, w) /\ (Vol(w) \in DOMAIN ds \/ Forgotten(t, w))
      BY <3>1 DEF RowsAreSound
    <3>4. w = v
      BY <3>1, <3>2, <3>3, OneOwner
    <3>5. Forgotten(t, v)
      BY <2>4, <3>3, <3>4
    <3> QED
      BY <3>5 DEF Forgotten, NamedTables
  <2>6. \A x \in RowsNamed(v) : <<x[1], v>> \in overlooked
    BY <2>5 DEF RowsNamed
  <2> QED
    BY <2>1, <2>4, <2>6
<1>3. ASSUME \A r \in Requests : ~ Unfinished(r),
             NEW r \in Requests, Copies(call[r]), CopyFrom(call[r]) \in DOMAIN snap
      PROVE  Clones(CopyFrom(call[r])) # {}
  <2>1. PICK k \in DOMAIN snap : k = CopyFrom(call[r])
    BY <1>3
  <2>2. TemporaryIsHeld(k)
    BY DEF Leftovers
  <2>3. \A q \in Requests : pc[q] \notin Holding \cup {"clone"}
    BY <1>3 DEF Unfinished, Holding
  <2> QED
    BY <1>3, <2>1, <2>2, <2>3 DEF TemporaryIsHeld
<1>4. ASSUME \A r \in Requests : ~ Unfinished(r), NEW v \in Volumes, Con(v) \in DOMAIN ds
      PROVE  Details(v) # {}
  <2>1. ContainerIsUsed(v)
    BY DEF Leftovers
  <2> QED
    BY <1>4, <2>1 DEF ContainerIsUsed
<1> QED
  BY <1>2, <1>3, <1>4 DEF DeletionsLeaveNothing

------------------------------------------------------------
(* The theorems.                                          *)

\* It holds at first.
LEMMA InitIInv ==
  ASSUME Init
  PROVE  IInv
BY TypesBegin, VolumesBegin, SharesBegin, SnapshotsBegin, LeftoversBegin DEF IInv

\* And every step of every handler, job, fault and restart keeps it.
LEMMA NextIInv ==
  ASSUME IInv, [Next]_vars
  PROVE  IInv'
<1>1. Types /\ Control /\ VolumesAreSound /\ SharesAreSound /\ SnapshotsAreSound /\ Leftovers
  BY DEF IInv
<1>2. Types' /\ Control' /\ VolumesAreSound'
  BY <1>1, TypesStay, ControlStays, VolumesStay
<1>3. SharesAreSound'
  BY <1>1, SharesStay
<1>4. SnapshotsAreSound' /\ Leftovers'
  BY <1>1, SnapshotsStay, LeftoversStay
<1> QED
  BY <1>2, <1>3, <1>4 DEF IInv

\* The invariant of the FreeNAS controller: it holds in every behaviour, whatever the
\* requests, the setup, the faults and the order in which handlers and jobs run.
THEOREM Inductive == Spec => []IInv
BY InitIInv, NextIInv, PTL DEF Spec

\* Every variable has its type.
THEOREM TypeCorrect == Spec => []TypeOK
<1>1. IInv => TypeOK
  BY TypesAreOK DEF IInv
<1> QED
  BY <1>1, Inductive, PTL

\* A volume that CreateVolume has answered OK for is, until its deletion is asked for, of
\* the size promised, whole, and served by a share whose rows belong together, though they
\* were made one by one, by several attempts.
THEOREM VolumesServe == Spec => []AckedVolumesServe
<1>1. IInv => AckedVolumesServe
  BY AckedServe DEF IInv
<1> QED
  BY <1>1, Inductive, PTL

\* What was answered OK as a copy is whole, though replication jobs outlive the attempts
\* that started them and a target that exists is taken for a copy that was made.
THEOREM CopiesAreWhole == Spec => []AckedCopiesAreWhole
<1>1. IInv => AckedCopiesAreWhole
  BY AckedAreWhole DEF IInv
<1> QED
  BY <1>1, Inductive, PTL

\* Deletions leave neither datasets nor rows, but for the rows the server answered 500
\* for, which the handler took for gone; and when all is answered no temporary snapshot
\* and no empty container is left.
THEOREM NothingRemains == Spec => []DeletionsLeaveNothing
<1>1. IInv => DeletionsLeaveNothing
  BY NothingIsLeft DEF IInv
<1> QED
  BY <1>1, Inductive, PTL

\* A row goes only while the deletion of the volume it is named after runs, though the
\* rows are deleted by ids that the server may have given away again.
THEOREM OthersAreKept == Spec => SharesOfOthersAreKept
<1>1. IInv /\ [Next]_vars =>
        [\A v \in Volumes : ~ Deleting(v) => RowsNamed(v) \subseteq RowsNamed(v)']_vars
  <2>1. SUFFICES ASSUME IInv, [Next]_vars, NEW v \in Volumes, ~ Deleting(v)
                 PROVE  RowsNamed(v) \subseteq RowsNamed(v)'
    OBVIOUS
  <2> QED
    BY <2>1, RowsGoByDeletion DEF IInv
<1> QED
  BY <1>1, Inductive, PTL DEF Spec, SharesOfOthersAreKept
=============================================================================
