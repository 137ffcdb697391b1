-------------------------- MODULE NodeServiceProofs --------------------------
(***************************************************************************)
(* Proofs about NodeService, for any set of pods, any volumes and any      *)
(* number of changes, faults and outages.  IInv is inductive: it says what *)
(* each step of a handler may rely on, and which of the mounts at the      *)
(* staging path can be the device's.                                       *)
(***************************************************************************)
EXTENDS NodeService, FiniteSetTheorems, SequenceTheorems, TLAPS

StageSteps == {"mkdir", "connect", "device", "mount", "expand", "touch", "bind"}
PublishSteps == {"target", "publish"}
UnpublishSteps == {"unpublish", "remove"}
UnstageSteps == {"probe", "umount", "disconnect", "rmdir"}

Steps ==
    {"idle"} \cup StageSteps \cup PublishSteps \cup UnpublishSteps \cup UnstageSteps

Handler == [pc : Steps, t : Targets \cup {NoTarget}, device : Nat,
            block : BOOLEAN, file : BOOLEAN, dead : BOOLEAN]

Types ==
    /\ kind \in Kinds /\ access \in {"mount", "block"}
    /\ want \in [Targets -> BOOLEAN] /\ ok \in [Targets -> BOOLEAN]
    /\ staged \in {"no", "yes", "unknown"}
    /\ h \in Handler
    /\ server \in BOOLEAN /\ conn \in {"none", "live", "connecting"} /\ dev \in Nat
    /\ staging \in Seq(Nat) /\ target \in [Targets -> Nat]
    /\ dir \in BOOLEAN /\ file \in BOOLEAN /\ path \in [Targets -> BOOLEAN]
    /\ calm \in [Targets -> BOOLEAN]
    /\ left \in [{"changes", "faults", "outages"} -> Nat]

\* A call for a pod is about what the CO wants of it and has not got; staging
\* and unstaging leave the CO in doubt until they are answered.
CallsAreMeant ==
    /\ h.t \in Targets <=> h.pc \in PublishSteps \cup UnpublishSteps
    /\ h.pc \in PublishSteps => want[h.t] /\ ~ ok[h.t] /\ staged = "yes"
    /\ h.pc \in UnpublishSteps => ~ want[h.t] /\ ~ ok[h.t]
    /\ h.pc \in StageSteps \cup UnstageSteps => staged = "unknown"
    /\ h.pc \in UnstageSteps => \A t \in Targets : ~ want[t]

\* Only NVMe-oF volumes are connected, and those have a device while they are.
DeviceMatches ==
    /\ access = "block" => NVMe
    /\ NVMe => (dev = 0 <=> conn = "none")
    /\ ~ NVMe => conn = "none" /\ dev = 1
    /\ h.pc \in {"connect", "device", "touch", "bind"} => NVMe
    /\ h.pc \in {"touch", "bind"} => access = "block"
    /\ h.pc \in {"mount", "expand"} => access = "mount"
    /\ NVMe /\ h.pc \in {"mount", "touch", "bind"} => dev \in {0, h.device}

\* Paths exist before something is mounted there, and while it is.
PathsExist ==
    /\ h.pc \in StageSteps \ {"mkdir"} => dir
    /\ h.pc = "bind" => file /\ ~ Staged
    /\ h.pc = "publish" => path[h.t]
    /\ Staged => dir /\ (access = "block" => file)
    /\ \A t \in Targets : target[t] # 0 => path[t]

\* If the device is mounted at the staging path, it is so once, and on top; if a
\* filesystem is staged and not lost, it is.
DeviceIsOnTop ==
    /\ IsInjective(staging)
    /\ \A i \in 1 .. Len(staging) : dev # 0 /\ staging[i] = dev => i = Len(staging)
    /\ (h.pc = "expand" \/ (staged = "yes" /\ access = "mount"))
         => (Staged /\ dev # 0 => Top = dev)

\* What a pod that nothing has happened to has, or will get.
CalmTargets ==
    \A t \in Targets : calm[t] =>
      /\ want[t] /\ server /\ (NVMe => conn = "live")
      /\ target[t] \in {0, dev}
      /\ ok[t] => target[t] # 0
      /\ target[t] = 0 /\ access = "block" => Staged /\ Top = dev

IInv ==
    /\ Types /\ CallsAreMeant /\ DeviceMatches /\ PathsExist
    /\ DeviceIsOnTop /\ RemovedIsGone /\ CalmTargets

----------------------------------------------------------------------------
(* Records and sequences. *)
\* What a handler's record is after each way to go on.
LEMMA HandlerGoesOn ==
  ASSUME h \in Handler
  PROVE  /\ \A p \in Steps : Goes(p) =>
              /\ h' \in Handler
              /\ h'.pc = p /\ h'.t = h.t /\ h'.device = h.device
         /\ Fails => h' \in Handler /\ h'.pc = "idle" /\ h'.t = NoTarget
         /\ \A p \in Steps, t \in Targets \cup {NoTarget} : Begins(p, t) =>
              h.pc = "idle" /\ h' \in Handler /\ h'.pc = p /\ h'.t = t
<1>1. Idle \in Handler
  BY DEF Idle, Handler, Steps
<1>2. ASSUME NEW p \in Steps, Goes(p)
      PROVE  /\ h' \in Handler
             /\ h'.pc = p /\ h'.t = h.t /\ h'.device = h.device
  BY <1>2 DEF Goes, Handler
<1>3. ASSUME Fails PROVE h' \in Handler /\ h'.pc = "idle" /\ h'.t = NoTarget
  BY <1>1, <1>3 DEF Fails, Idle
<1>4. ASSUME NEW p \in Steps, NEW t \in Targets \cup {NoTarget}, Begins(p, t)
      PROVE  h.pc = "idle" /\ h' \in Handler /\ h'.pc = p /\ h'.t = t
  BY <1>1, <1>4 DEF Begins, Idle, Handler
<1>5. QED
  BY <1>2, <1>3, <1>4

\* FindDevice and Probe set more than the step.
LEMMA FindDeviceGoesOn ==
  ASSUME Types, FindDevice
  PROVE  /\ h' \in Handler /\ h.pc = "device"
         /\ \/ h'.pc = "idle" /\ h'.t = NoTarget
            \/ /\ h'.pc = IF access = "block" THEN "touch" ELSE "mount"
               /\ h'.t = h.t /\ h'.device = dev
<1>1. CASE conn = "live"
  <2>1. h' = [h EXCEPT !.pc = IF access = "block" THEN "touch" ELSE "mount",
                       !.device = dev]
    BY <1>1 DEF FindDevice
  <2>2. QED
    BY <2>1 DEF FindDevice, Types, Handler, Steps, StageSteps
<1>2. CASE conn # "live"
  BY <1>2, HandlerGoesOn DEF FindDevice, Types
<1>3. QED
  BY <1>1, <1>2

LEMMA ProbeGoesOn ==
  ASSUME Types, Probe
  PROVE  /\ h' \in Handler /\ h.pc = "probe"
         /\ \/ h'.pc = "idle" /\ h'.t = NoTarget
            \/ h'.pc = "umount" /\ h'.t = h.t
         /\ staging' = staging \/ (Staged /\ staging' = Front(staging))
<1>1. Idle \in Handler
  BY DEF Idle, Handler, Steps
<1>6. Idle.pc = "idle" /\ Idle.t = NoTarget
  BY DEF Idle
<1>2. ASSUME NEW b \in BOOLEAN, NEW f \in BOOLEAN,
             h' = [h EXCEPT !.pc = "umount", !.block = b, !.file = f]
      PROVE  h' \in Handler /\ h'.pc = "umount" /\ h'.t = h.t
  BY <1>2 DEF Types, Handler, Steps, UnstageSteps
<1>3. CASE access = "block" /\ Staged
  <2>1. CASE Top = dev
    <3>1. h' = [h EXCEPT !.pc = "umount", !.block = TRUE, !.file = TRUE]
      BY <1>3, <2>1 DEF Probe
    <3>2. QED
      BY <1>2, <1>3, <3>1 DEF Probe
  <2>2. CASE Top # dev
    BY <1>1, <1>6, <1>3, <2>2 DEF Probe
  <2>3. QED
    BY <2>1, <2>2
<1>4. CASE ~ (access = "block" /\ Staged)
  <2>1. PICK forced \in {FALSE, Staged /\ Stalled(Top)} :
          LET rest == IF forced THEN Front(staging) ELSE staging IN
          /\ staging' = rest
          /\ h' = [h EXCEPT !.pc = "umount",
                            !.block = NVMe /\ rest # <<>> /\ Head(rest) = dev]
    BY <1>4 DEF Probe
  <2>2. DEFINE b == NVMe /\ staging' # <<>> /\ Head(staging') = dev
  <2>3. b \in BOOLEAN
    OBVIOUS
  <2>4. h' = [h EXCEPT !.pc = "umount", !.block = b]
    BY <2>1
  <2>5. h' \in Handler /\ h'.pc = "umount" /\ h'.t = h.t
    BY <2>3, <2>4 DEF Types, Handler, Steps, UnstageSteps
  <2>6. staging' = staging \/ (Staged /\ staging' = Front(staging))
    BY <2>1
  <2>7. QED
    BY <2>5, <2>6 DEF Probe
<1>5. QED
  BY <1>3, <1>4

\* UmountStaging takes the uppermost mount away or none.
LEMMA UmountStagingGoesOn ==
  ASSUME Types, UmountStaging
  PROVE  /\ h' \in Handler /\ h.pc = "umount"
         /\ \/ h'.pc = "idle" /\ h'.t = NoTarget
            \/ h'.pc = "disconnect" /\ h'.t = h.t
         /\ staging' = staging \/ (Staged /\ staging' = Front(staging))
         /\ left' \in [{"changes", "faults", "outages"} -> Nat]
<1>1. /\ h' = [h EXCEPT !.pc = "disconnect", !.dead = TRUE] =>
           h' \in Handler /\ h'.pc = "disconnect" /\ h'.t = h.t
  BY DEF Types, Handler, Steps, UnstageSteps
<1>2. \/ Goes("disconnect") \/ Fails
      \/ h' = [h EXCEPT !.pc = "disconnect", !.dead = TRUE]
  BY DEF UmountStaging
<1>3. staging' = staging \/ (Staged /\ staging' = Front(staging))
  BY DEF UmountStaging
<1>4. left' \in [{"changes", "faults", "outages"} -> Nat]
  <2>1. left' = left \/ Fault
    BY DEF UmountStaging
  <2>2. QED
    BY <2>1 DEF Fault, Use, Types
<1>5. h' \in Handler /\ (\/ h'.pc = "idle" /\ h'.t = NoTarget
                         \/ h'.pc = "disconnect" /\ h'.t = h.t)
  BY <1>1, <1>2, HandlerGoesOn DEF Types, Steps, UnstageSteps
<1>6. QED
  BY <1>3, <1>4, <1>5 DEF UmountStaging

\* The name of a new device is a natural number, not 0, and names no mount.
LEMMA FreshNameIsNew ==
  ASSUME Types
  PROVE  FreshName \in Nat \ {0} /\ FreshName \notin HeldNames
<1>1. IsFiniteSet(Range(staging))
  <2>0. staging \in [1 .. Len(staging) -> Nat]
    BY DEF Types
  <2>1. staging \in Surjection(1 .. Len(staging), Range(staging))
    BY <2>0 DEF Surjection, Range
  <2>2. IsFiniteSet(1 .. Len(staging))
    BY FS_Interval DEF Types
  <2>3. QED
    BY <2>1, <2>2, FS_Surjection
<1>2. IsFiniteSet(Range(target))
  <2>1. target \in Surjection(Targets, Range(target))
    BY DEF Types, Surjection, Range
  <2>2. QED
    BY <2>1, TargetsAssumption, FS_Surjection
<1>3. IsFiniteSet(HeldNames)
  BY <1>1, <1>2, FS_Union DEF HeldNames
<1> DEFINE n == Cardinality(HeldNames)
           names == 1 .. n + 1
<1>4. n \in Nat
  BY <1>3, FS_CardinalityType
<1>5. IsFiniteSet(names) /\ Cardinality(names) = n + 1
  BY <1>4, FS_Interval
<1>6. ~ (names \subseteq HeldNames)
  <2>1. SUFFICES ASSUME names \subseteq HeldNames PROVE FALSE
    OBVIOUS
  <2>2. Cardinality(names) <= n
    BY <2>1, <1>3, FS_Subset
  <2>3. QED
    BY <2>2, <1>4, <1>5
<1>7. \E m \in names : m \notin HeldNames
  BY <1>6
<1>8. FreshName \in names /\ FreshName \notin HeldNames
  BY <1>7 DEF FreshName
<1>9. QED
  BY <1>4, <1>8

\* The uppermost mount comes off, another is put on.
LEMMA FrontFacts ==
  ASSUME NEW s \in Seq(Nat), s # <<>>
  PROVE  /\ Front(s) \in Seq(Nat)
         /\ Len(Front(s)) = Len(s) - 1
         /\ \A i \in 1 .. Len(Front(s)) : Front(s)[i] = s[i]
         /\ IsInjective(s) => IsInjective(Front(s))
<1>1. /\ Front(s) \in Seq(Nat)
      /\ Len(Front(s)) = Len(s) - 1
      /\ \A i \in 1 .. Len(s) - 1 : Front(s)[i] = s[i]
  <2> DEFINE n == Len(s) - 1
  <2>1. n \in Nat /\ 1 \in Int /\ n \in Int /\ \A i \in 1 .. n : s[i] \in Nat
    OBVIOUS
  <2> HIDE DEF n
  <2>2. /\ SubSeq(s, 1, n) \in Seq(Nat)
        /\ Len(SubSeq(s, 1, n)) = IF 1 <= n THEN n - 1 + 1 ELSE 0
        /\ \A i \in 1 .. n - 1 + 1 : SubSeq(s, 1, n)[i] = s[1 + i - 1]
    BY <2>1, SubSeqProperties
  <2>3. /\ SubSeq(s, 1, n) \in Seq(Nat)
        /\ Len(SubSeq(s, 1, n)) = n
        /\ \A i \in 1 .. n : SubSeq(s, 1, n)[i] = s[i]
    BY <2>1, <2>2
  <2>4. QED
    BY <2>3 DEF Front, n
<1>2. ASSUME IsInjective(s) PROVE IsInjective(Front(s))
  <2>1. /\ DOMAIN s = 1 .. Len(s) /\ Len(s) \in Nat
        /\ DOMAIN Front(s) = 1 .. Len(s) - 1
    BY <1>1
  <2>2. ASSUME NEW i \in 1 .. Len(s) - 1, NEW j \in 1 .. Len(s) - 1,
               Front(s)[i] = Front(s)[j]
        PROVE  i = j
    <3> DEFINE n == Len(s)
    <3>1. s[i] = s[j]
      BY <1>1, <2>2
    <3>2. i \in 1 .. n /\ j \in 1 .. n
      <4> n \in Nat /\ i \in 1 .. n - 1 /\ j \in 1 .. n - 1
        BY <2>1
      <4> HIDE DEF n
      <4> QED
        OBVIOUS
    <3>3. QED
      BY <1>2, <2>1, <3>1, <3>2 DEF IsInjective
  <2> DEFINE front == Front(s)
  <2>3. DOMAIN front = 1 .. Len(s) - 1
    BY <2>1
  <2>4. \A i, j \in 1 .. Len(s) - 1 : front[i] = front[j] => i = j
    BY <2>2
  <2> HIDE DEF front
  <2>5. IsInjective(front)
    BY <2>3, <2>4 DEF IsInjective
  <2>6. QED
    BY <2>5 DEF front
<1>3. QED
  BY <1>1, <1>2

\* If something is at the top of a sequence only, it is nowhere below.
LEMMA FrontIsBelowTop ==
  ASSUME NEW s \in Seq(Nat), s # <<>>, NEW d,
         \A i \in 1 .. Len(s) : s[i] = d => i = Len(s)
  PROVE  \A i \in 1 .. Len(Front(s)) : Front(s)[i] # d
<1>1. SUFFICES ASSUME NEW i \in 1 .. Len(s) - 1, Front(s)[i] = d PROVE FALSE
  BY FrontFacts
<1>2. i \in 1 .. Len(Front(s)) /\ i \in 1 .. Len(s) /\ i # Len(s)
  BY FrontFacts
<1>3. Front(s)[i] = s[i]
  BY <1>2, FrontFacts
<1>4. QED
  BY <1>1, <1>2, <1>3

\* What is in a sequence is somewhere in it.
LEMMA InRange ==
  ASSUME NEW s \in Seq(Nat), NEW e
  PROVE  e \in Range(s) <=> \E i \in 1 .. Len(s) : s[i] = e
<1>1. DOMAIN s = 1 .. Len(s)
  OBVIOUS
<1>2. QED
  BY <1>1 DEF Range

\* Putting another mount on top.
LEMMA AppendFacts ==
  ASSUME NEW s \in Seq(Nat), NEW e \in Nat, e \notin Range(s)
  PROVE  LET new == Append(s, e) IN
         /\ new \in Seq(Nat) /\ new # <<>> /\ Last(new) = e
         /\ IsInjective(s) => IsInjective(new)
         /\ \A i \in 1 .. Len(new) : new[i] = e => i = Len(new)
<1> DEFINE new == Append(s, e)
<1>1. /\ new \in Seq(Nat) /\ new # <<>> /\ Len(s) \in Nat
      /\ Len(new) = Len(s) + 1 /\ new[Len(s) + 1] = e
      /\ \A i \in 1 .. Len(s) : new[i] = s[i]
      /\ DOMAIN new = 1 .. Len(s) + 1 /\ DOMAIN s = 1 .. Len(s)
  <2>1. /\ new \in Seq(Nat) /\ Len(s) \in Nat /\ Len(new) = Len(s) + 1
        /\ DOMAIN s = 1 .. Len(s) /\ DOMAIN new = 1 .. Len(new)
    OBVIOUS
  <2>2. new[Len(s) + 1] = e /\ \A i \in 1 .. Len(s) : new[i] = s[i]
    OBVIOUS
  <2>3. new # <<>>
    BY <2>1
  <2>4. QED
    BY <2>1, <2>2, <2>3
<1>2. \A i \in 1 .. Len(s) : s[i] # e
  BY InRange
<1> HIDE DEF new
<1>3. \A i \in 1 .. Len(new) : new[i] = e => i = Len(new)
  BY <1>1, <1>2
<1>4. ASSUME IsInjective(s) PROVE IsInjective(new)
  <2>1. SUFFICES ASSUME NEW i \in 1 .. Len(s) + 1, NEW j \in 1 .. Len(s) + 1,
                        new[i] = new[j]
                 PROVE  i = j
    BY <1>1 DEF IsInjective
  <2>2. CASE i = Len(s) + 1 \/ j = Len(s) + 1
    BY <1>1, <1>2, <2>1, <2>2
  <2>3. CASE i \in 1 .. Len(s) /\ j \in 1 .. Len(s)
    BY <1>1, <1>4, <2>1, <2>3 DEF IsInjective
  <2>4. QED
    BY <1>1, <2>2, <2>3
<1>5. QED
  BY <1>1, <1>3, <1>4 DEF Last, new

----------------------------------------------------------------------------
(* The steps. *)

\* Every step keeps the handler's variables typed.
LEMMA HandlerIsTyped ==
  ASSUME IInv, [Next]_vars
  PROVE  h' \in Handler
<1> USE DEF vars, options, co, net, mounts, paths, Publishes, Fault, Steps,
      StageSteps, PublishSteps, UnpublishSteps, UnstageSteps, Types
<1>1. Types /\ h \in Handler /\ NoTarget \notin Targets
  BY TargetsAssumption DEF IInv, Types
<1>2. CASE ServerFails \/ ServerReturns \/ Reconnects \/ DeviceLost
  BY <1>1, <1>2, HandlerGoesOn DEF ServerFails, ServerReturns, Reconnects,
     DeviceLost
<1>3. CASE HandlerFails \/ ProbeFails
  BY <1>1, <1>3, HandlerGoesOn DEF HandlerFails, ProbeFails
<1>4. CASE Reboot
  BY <1>4 DEF Reboot, Idle, Handler
<1>5. ASSUME NEW t \in Targets,
             Wants(t) \/ WantsAgain(t) \/ NodePublishVolume(t) \/ NodeUnpublishVolume(t)
      PROVE  h' \in Handler
  BY <1>1, <1>5, HandlerGoesOn DEF Wants, WantsAgain,
     NodePublishVolume, NodeUnpublishVolume
<1>6. CASE NodeStageVolume \/ NodeUnstageVolume
  BY <1>1, <1>6, HandlerGoesOn DEF NodeStageVolume, NodeUnstageVolume
<1>7. CASE MakeDirectory \/ Connect \/ StageMount \/ StageExpand \/ TouchBlockFile
           \/ BindBlockDevice
  BY <1>1, <1>7, HandlerGoesOn DEF MakeDirectory, Connect, StageMount, StageExpand,
     TouchBlockFile, BindBlockDevice
<1>8. CASE FindDevice
  BY <1>1, <1>8, FindDeviceGoesOn DEF FindDevice
<1>9. CASE MakeTarget \/ BindTarget
  BY <1>1, <1>9, HandlerGoesOn DEF MakeTarget, BindTarget
<1>10. CASE UmountTarget \/ RemoveTarget
  BY <1>1, <1>10, HandlerGoesOn DEF UmountTarget, RemoveTarget
<1>11. CASE Disconnect \/ RemoveStaging
  BY <1>1, <1>11, HandlerGoesOn DEF Disconnect, RemoveStaging
<1>12. CASE Probe
  BY <1>1, <1>12, ProbeGoesOn DEF Probe
<1>13. CASE UmountStaging
  BY <1>1, <1>13, UmountStagingGoesOn DEF UmountStaging
<1>14. CASE UNCHANGED vars
  BY <1>1, <1>14
<1>15. QED
  BY <1>2, <1>3, <1>4, <1>5, <1>6, <1>7, <1>8, <1>9, <1>10, <1>11, <1>12, <1>13,
     <1>14 DEF Next, StageStep, PublishStep, UnpublishStep, UnstageStep

\* Every step counts down what it uses up.
LEMMA LeftIsTyped ==
  ASSUME IInv, [Next]_vars
  PROVE  left' \in [{"changes", "faults", "outages"} -> Nat]
<1> USE DEF vars, options, co, net, mounts, paths, Publishes, Fault, Use, Types
<1>1. Types /\ h \in Handler /\ NoTarget \notin Targets
  BY TargetsAssumption DEF IInv, Types
<1>2. CASE ServerFails \/ ServerReturns \/ Reconnects \/ DeviceLost
  BY <1>1, <1>2, HandlerGoesOn DEF ServerFails, ServerReturns, Reconnects,
     DeviceLost
<1>3. CASE HandlerFails \/ ProbeFails
  BY <1>1, <1>3, HandlerGoesOn DEF HandlerFails, ProbeFails
<1>4. CASE Reboot
  BY <1>1, <1>4, HandlerGoesOn DEF Reboot
<1>5. ASSUME NEW t \in Targets,
             Wants(t) \/ WantsAgain(t) \/ NodePublishVolume(t) \/ NodeUnpublishVolume(t)
      PROVE  left' \in [{"changes", "faults", "outages"} -> Nat]
  BY <1>1, <1>5, HandlerGoesOn DEF Wants, WantsAgain,
     NodePublishVolume, NodeUnpublishVolume
<1>6. CASE NodeStageVolume \/ NodeUnstageVolume
  BY <1>1, <1>6, HandlerGoesOn DEF NodeStageVolume, NodeUnstageVolume
<1>7. CASE MakeDirectory \/ Connect \/ StageMount \/ StageExpand \/ TouchBlockFile
           \/ BindBlockDevice
  BY <1>1, <1>7, HandlerGoesOn DEF MakeDirectory, Connect, StageMount, StageExpand,
     TouchBlockFile, BindBlockDevice
<1>8. CASE FindDevice
  BY <1>1, <1>8, FindDeviceGoesOn DEF FindDevice
<1>9. CASE MakeTarget \/ BindTarget
  BY <1>1, <1>9, HandlerGoesOn DEF MakeTarget, BindTarget
<1>10. CASE UmountTarget
  BY <1>1, <1>10, HandlerGoesOn DEF UmountTarget
<1>11. CASE RemoveTarget
  BY <1>1, <1>11, HandlerGoesOn DEF RemoveTarget
<1>12. CASE Disconnect \/ RemoveStaging
  BY <1>1, <1>12, HandlerGoesOn DEF Disconnect, RemoveStaging
<1>13. CASE Probe
  BY <1>1, <1>13, ProbeGoesOn DEF Probe
<1>14. CASE UmountStaging
  BY <1>1, <1>14, UmountStagingGoesOn DEF UmountStaging
<1>15. CASE UNCHANGED vars
  BY <1>1, <1>15
<1>16. QED
  BY <1>2, <1>3, <1>4, <1>5, <1>6, <1>7, <1>8, <1>9, <1>10, <1>11, <1>12, <1>13,
     <1>14, <1>15 DEF Next, StageStep, PublishStep, UnpublishStep, UnstageStep

\* The volume, the connection and what the CO knows stay typed.
LEMMA VolumeIsTyped ==
  ASSUME IInv, [Next]_vars
  PROVE  (/\ kind \in Kinds /\ access \in {"mount", "block"}
           /\ staged \in {"no", "yes", "unknown"}
           /\ conn \in {"none", "live", "connecting"} /\ dev \in Nat)'
<1> USE DEF vars, options, co, net, mounts, paths, Publishes, Fault, Types
<1>1. Types /\ h \in Handler /\ NoTarget \notin Targets
  BY TargetsAssumption DEF IInv, Types
<1>2. CASE ServerFails \/ ServerReturns \/ Reconnects \/ DeviceLost
  BY <1>1, <1>2, HandlerGoesOn DEF ServerFails, ServerReturns, Reconnects,
     DeviceLost
<1>3. CASE HandlerFails \/ ProbeFails
  BY <1>1, <1>3, HandlerGoesOn DEF HandlerFails, ProbeFails
<1>4. CASE Reboot
  BY <1>1, <1>4, HandlerGoesOn DEF Reboot
<1>5. ASSUME NEW t \in Targets,
             Wants(t) \/ WantsAgain(t) \/ NodePublishVolume(t) \/ NodeUnpublishVolume(t)
      PROVE  (/\ kind \in Kinds /\ access \in {"mount", "block"}
           /\ staged \in {"no", "yes", "unknown"}
           /\ conn \in {"none", "live", "connecting"} /\ dev \in Nat)'
  BY <1>1, <1>5, HandlerGoesOn DEF Wants, WantsAgain,
     NodePublishVolume, NodeUnpublishVolume
<1>6. CASE NodeStageVolume \/ NodeUnstageVolume
  BY <1>1, <1>6, HandlerGoesOn DEF NodeStageVolume, NodeUnstageVolume
<1>7. CASE MakeDirectory \/ StageMount \/ StageExpand \/ TouchBlockFile \/
           BindBlockDevice
  BY <1>1, <1>7, HandlerGoesOn DEF MakeDirectory, StageMount, StageExpand,
     TouchBlockFile, BindBlockDevice
<1>8. CASE Connect
  BY <1>1, HandlerGoesOn, <1>8, FreshNameIsNew DEF Connect
<1>9. CASE FindDevice
  BY <1>1, <1>9, FindDeviceGoesOn DEF FindDevice
<1>10. CASE MakeTarget \/ BindTarget
  BY <1>1, <1>10, HandlerGoesOn DEF MakeTarget, BindTarget
<1>11. CASE UmountTarget \/ RemoveTarget
  BY <1>1, <1>11, HandlerGoesOn DEF UmountTarget, RemoveTarget
<1>12. CASE Disconnect \/ RemoveStaging
  BY <1>1, <1>12, HandlerGoesOn DEF Disconnect, RemoveStaging
<1>13. CASE Probe
  BY <1>1, <1>13, ProbeGoesOn DEF Probe
<1>14. CASE UmountStaging
  BY <1>1, <1>14, UmountStagingGoesOn DEF UmountStaging
<1>15. CASE UNCHANGED vars
  BY <1>1, <1>15
<1>16. QED
  BY <1>2, <1>3, <1>4, <1>5, <1>6, <1>7, <1>8, <1>9, <1>10, <1>11, <1>12, <1>13,
     <1>14, <1>15 DEF Next, StageStep, PublishStep, UnpublishStep, UnstageStep

\* What the CO wants, and what it was answered, stays typed.
LEMMA WishesAreTyped ==
  ASSUME IInv, [Next]_vars
  PROVE  (/\ want \in [Targets -> BOOLEAN] /\ ok \in [Targets -> BOOLEAN])'
<1> USE DEF vars, options, co, net, mounts, paths, Publishes, Fault, Types
<1>1. Types /\ h \in Handler /\ NoTarget \notin Targets
  BY TargetsAssumption DEF IInv, Types
<1>2. CASE ServerFails \/ ServerReturns \/ Reconnects \/ DeviceLost
  BY <1>1, <1>2, HandlerGoesOn DEF ServerFails, ServerReturns, Reconnects,
     DeviceLost
<1>3. CASE HandlerFails \/ ProbeFails
  BY <1>1, <1>3, HandlerGoesOn DEF HandlerFails, ProbeFails
<1>4. CASE Reboot
  BY <1>1, <1>4, HandlerGoesOn DEF Reboot
<1>5. ASSUME NEW t \in Targets,
             Wants(t) \/ WantsAgain(t) \/ NodePublishVolume(t) \/ NodeUnpublishVolume(t)
      PROVE  (/\ want \in [Targets -> BOOLEAN] /\ ok \in [Targets -> BOOLEAN])'
  BY <1>1, <1>5, HandlerGoesOn DEF Wants, WantsAgain,
     NodePublishVolume, NodeUnpublishVolume
<1>6. CASE NodeStageVolume \/ NodeUnstageVolume
  BY <1>1, <1>6, HandlerGoesOn DEF NodeStageVolume, NodeUnstageVolume
<1>7. CASE MakeDirectory \/ Connect \/ StageMount \/ StageExpand \/ TouchBlockFile
           \/ BindBlockDevice
  BY <1>1, <1>7, HandlerGoesOn DEF MakeDirectory, Connect, StageMount, StageExpand,
     TouchBlockFile, BindBlockDevice
<1>8. CASE FindDevice
  BY <1>1, <1>8, FindDeviceGoesOn DEF FindDevice
<1>9. CASE MakeTarget
  BY <1>1, <1>9, HandlerGoesOn DEF MakeTarget
<1>10. CASE BindTarget
  <2>1. ok' = ok \/ ok' = [ok EXCEPT ![h.t] = TRUE]
    BY <1>10 DEF BindTarget
  <2>2. QED
    BY <1>1, <1>10, <2>1 DEF BindTarget
<1>11. CASE UmountTarget
  BY <1>1, <1>11, HandlerGoesOn DEF UmountTarget
<1>12. CASE RemoveTarget
  <2>1. ok' = ok \/ ok' = [ok EXCEPT ![h.t] = TRUE]
    BY <1>12 DEF RemoveTarget
  <2>2. QED
    BY <1>1, <1>12, <2>1 DEF RemoveTarget
<1>13. CASE Disconnect \/ RemoveStaging
  BY <1>1, <1>13, HandlerGoesOn DEF Disconnect, RemoveStaging
<1>14. CASE Probe
  BY <1>1, <1>14, ProbeGoesOn DEF Probe
<1>15. CASE UmountStaging
  BY <1>1, <1>15, UmountStagingGoesOn DEF UmountStaging
<1>16. CASE UNCHANGED vars
  BY <1>1, <1>16
<1>17. QED
  BY <1>2, <1>3, <1>4, <1>5, <1>6, <1>7, <1>8, <1>9, <1>10, <1>11, <1>12, <1>13,
     <1>14, <1>15, <1>16 DEF Next, StageStep, PublishStep, UnpublishStep, UnstageStep

\* The mounts stay typed.
LEMMA MountsAreTyped ==
  ASSUME IInv, [Next]_vars
  PROVE  (staging \in Seq(Nat) /\ target \in [Targets -> Nat])'
<1> USE DEF vars, options, co, net, mounts, paths, Publishes, Fault, Types
<1>1. Types /\ h \in Handler /\ NoTarget \notin Targets
  BY TargetsAssumption DEF IInv, Types
<1>2. CASE ServerFails \/ ServerReturns \/ Reconnects \/ DeviceLost
  BY <1>1, <1>2, HandlerGoesOn DEF ServerFails, ServerReturns, Reconnects,
     DeviceLost
<1>3. CASE HandlerFails \/ ProbeFails
  BY <1>1, <1>3, HandlerGoesOn DEF HandlerFails, ProbeFails
<1>4. CASE Reboot
  BY <1>1, <1>4, HandlerGoesOn DEF Reboot
<1>5. ASSUME NEW t \in Targets,
             Wants(t) \/ WantsAgain(t) \/ NodePublishVolume(t) \/ NodeUnpublishVolume(t)
      PROVE  (staging \in Seq(Nat) /\ target \in [Targets -> Nat])'
  BY <1>1, <1>5, HandlerGoesOn DEF Wants, WantsAgain,
     NodePublishVolume, NodeUnpublishVolume
<1>6. CASE NodeStageVolume \/ NodeUnstageVolume
  BY <1>1, <1>6, HandlerGoesOn DEF NodeStageVolume, NodeUnstageVolume
<1>7. CASE TouchBlockFile
  BY <1>1, <1>7, HandlerGoesOn DEF TouchBlockFile
<1>8. CASE MakeDirectory
  BY <1>1, <1>8, HandlerGoesOn DEF MakeDirectory
<1>9. CASE Connect
  BY <1>1, <1>9, HandlerGoesOn DEF Connect
<1>10. CASE StageExpand
  BY <1>1, <1>10, HandlerGoesOn DEF StageExpand
<1>11. CASE FindDevice
  BY <1>1, <1>11, FindDeviceGoesOn DEF FindDevice
<1>12. CASE StageMount
  <2>1. \/ staging' = staging
        \/ staging' = Append(staging, dev)
    BY <1>12 DEF StageMount
  <2>2. Append(staging, dev) \in Seq(Nat)
    BY <1>1
  <2>3. QED
    BY <1>1, <1>12, <2>1, <2>2 DEF StageMount
<1>13. CASE BindBlockDevice
  <2>1. staging' = staging \/ staging' = <<dev>>
    BY <1>13 DEF BindBlockDevice
  <2>2. <<dev>> \in Seq(Nat)
    BY <1>1
  <2>3. QED
    BY <1>1, <1>13, <2>1, <2>2 DEF BindBlockDevice
<1>14. CASE MakeTarget
  BY <1>1, <1>14, HandlerGoesOn DEF MakeTarget
<1>15. CASE BindTarget
  BY <1>1, HandlerGoesOn, <1>15 DEF BindTarget, Top, Last, Staged
<1>16. CASE UmountTarget \/ RemoveTarget
  BY <1>1, <1>16, HandlerGoesOn DEF UmountTarget, RemoveTarget
<1>17. CASE Disconnect \/ RemoveStaging
  BY <1>1, <1>17, HandlerGoesOn DEF Disconnect, RemoveStaging
<1>18. CASE Probe
  BY <1>1, <1>18, ProbeGoesOn, FrontFacts DEF Probe, Staged
<1>19. CASE UmountStaging
  BY <1>1, <1>19, UmountStagingGoesOn, FrontFacts DEF UmountStaging, Staged
<1>20. CASE UNCHANGED vars
  BY <1>1, <1>20
<1>21. QED
  BY <1>2, <1>3, <1>4, <1>5, <1>6, <1>7, <1>8, <1>9, <1>10, <1>11, <1>12, <1>13,
     <1>14, <1>15, <1>16, <1>17, <1>18, <1>19, <1>20 DEF Next, StageStep, PublishStep,
     UnpublishStep, UnstageStep

\* The server, the directory and the file block_device stay typed.
LEMMA FilesAreTyped ==
  ASSUME IInv, [Next]_vars
  PROVE  (server \in BOOLEAN /\ dir \in BOOLEAN /\ file \in BOOLEAN)'
<1> USE DEF vars, options, co, net, mounts, paths, Publishes, Fault, Types
<1>1. Types /\ h \in Handler /\ NoTarget \notin Targets
  BY TargetsAssumption DEF IInv, Types
<1>2. CASE ServerReturns \/ Reconnects \/ DeviceLost
  BY <1>1, <1>2, HandlerGoesOn DEF ServerReturns, Reconnects, DeviceLost
<1>3. CASE ServerFails
  <2>1. server' = FALSE
    BY <1>3 DEF ServerFails
  <2>2. QED
    BY <1>1, <1>3, <2>1 DEF ServerFails
<1>4. CASE HandlerFails \/ ProbeFails
  BY <1>1, <1>4, HandlerGoesOn DEF HandlerFails, ProbeFails
<1>5. CASE Reboot
  BY <1>1, <1>5, HandlerGoesOn DEF Reboot
<1>6. ASSUME NEW t \in Targets,
             Wants(t) \/ WantsAgain(t) \/ NodePublishVolume(t) \/ NodeUnpublishVolume(t)
      PROVE  (server \in BOOLEAN /\ dir \in BOOLEAN /\ file \in BOOLEAN)'
  BY <1>1, <1>6, HandlerGoesOn DEF Wants, WantsAgain,
     NodePublishVolume, NodeUnpublishVolume
<1>7. CASE NodeStageVolume \/ NodeUnstageVolume
  BY <1>1, <1>7, HandlerGoesOn DEF NodeStageVolume, NodeUnstageVolume
<1>8. CASE MakeDirectory \/ Connect \/ StageMount \/ StageExpand \/ BindBlockDevice
  BY <1>1, <1>8, HandlerGoesOn DEF MakeDirectory, Connect, StageMount, StageExpand,
     BindBlockDevice
<1>9. CASE FindDevice
  BY <1>1, <1>9, FindDeviceGoesOn DEF FindDevice
<1>10. CASE TouchBlockFile
  <2>1. file' = file \/ file' = TRUE
    BY <1>10 DEF TouchBlockFile
  <2>2. QED
    BY <1>1, <1>10, <2>1 DEF TouchBlockFile
<1>11. CASE MakeTarget \/ BindTarget
  BY <1>1, <1>11, HandlerGoesOn DEF MakeTarget, BindTarget
<1>12. CASE UmountTarget \/ RemoveTarget
  BY <1>1, <1>12, HandlerGoesOn DEF UmountTarget, RemoveTarget
<1>13. CASE Disconnect
  BY <1>1, <1>13, HandlerGoesOn DEF Disconnect
<1>14. CASE Probe
  BY <1>1, <1>14, ProbeGoesOn DEF Probe
<1>15. CASE UmountStaging
  BY <1>1, <1>15, UmountStagingGoesOn DEF UmountStaging
<1>16. CASE RemoveStaging
  <2>1. (dir' = dir /\ file' = file) \/ (dir' = FALSE /\ file' = FALSE)
    BY <1>16 DEF RemoveStaging
  <2>2. QED
    BY <1>1, <1>16, <2>1 DEF RemoveStaging
<1>17. CASE UNCHANGED vars
  BY <1>1, <1>17
<1>18. QED
  BY <1>2, <1>3, <1>4, <1>5, <1>6, <1>7, <1>8, <1>9, <1>10, <1>11, <1>12, <1>13,
     <1>14, <1>15, <1>16, <1>17 DEF Next, StageStep, PublishStep, UnpublishStep,
     UnstageStep

\* The target paths, and which of them are calm, stay typed.
LEMMA PathsAreTyped ==
  ASSUME IInv, [Next]_vars
  PROVE  (/\ path \in [Targets -> BOOLEAN] /\ calm \in [Targets -> BOOLEAN])'
<1> USE DEF vars, options, co, net, mounts, paths, Publishes, Fault, Types
<1>1. Types /\ h \in Handler /\ NoTarget \notin Targets
  BY TargetsAssumption DEF IInv, Types
<1>2. CASE ServerFails \/ ServerReturns \/ Reconnects \/ DeviceLost
  BY <1>1, <1>2, HandlerGoesOn DEF ServerFails, ServerReturns, Reconnects,
     DeviceLost
<1>3. CASE HandlerFails \/ ProbeFails
  BY <1>1, <1>3, HandlerGoesOn DEF HandlerFails, ProbeFails
<1>4. CASE Reboot
  BY <1>1, <1>4, HandlerGoesOn DEF Reboot
<1>5. ASSUME NEW t \in Targets,
             Wants(t) \/ WantsAgain(t) \/ NodePublishVolume(t) \/ NodeUnpublishVolume(t)
      PROVE  (/\ path \in [Targets -> BOOLEAN] /\ calm \in [Targets -> BOOLEAN])'
  BY <1>1, <1>5, HandlerGoesOn DEF Wants, WantsAgain,
     NodePublishVolume, NodeUnpublishVolume
<1>6. CASE NodeStageVolume \/ NodeUnstageVolume
  BY <1>1, <1>6, HandlerGoesOn DEF NodeStageVolume, NodeUnstageVolume
<1>7. CASE MakeDirectory \/ Connect \/ StageMount \/ StageExpand \/ TouchBlockFile
           \/ BindBlockDevice
  BY <1>1, <1>7, HandlerGoesOn DEF MakeDirectory, Connect, StageMount, StageExpand,
     TouchBlockFile, BindBlockDevice
<1>8. CASE FindDevice
  BY <1>1, <1>8, FindDeviceGoesOn DEF FindDevice
<1>9. CASE BindTarget
  BY <1>1, <1>9, HandlerGoesOn DEF BindTarget
<1>10. CASE MakeTarget
  <2>1. path' = [path EXCEPT ![h.t] = TRUE]
    BY <1>10 DEF MakeTarget
  <2>2. QED
    BY <1>1, <1>10, <2>1 DEF MakeTarget
<1>11. CASE UmountTarget
  BY <1>1, <1>11, HandlerGoesOn DEF UmountTarget
<1>12. CASE RemoveTarget
  <2>1. path' = path \/ path' = [path EXCEPT ![h.t] = FALSE]
    BY <1>12 DEF RemoveTarget
  <2>2. QED
    BY <1>1, <1>12, <2>1 DEF RemoveTarget
<1>13. CASE Disconnect \/ RemoveStaging
  BY <1>1, <1>13, HandlerGoesOn DEF Disconnect, RemoveStaging
<1>14. CASE Probe
  BY <1>1, <1>14, ProbeGoesOn DEF Probe
<1>15. CASE UmountStaging
  BY <1>1, <1>15, UmountStagingGoesOn DEF UmountStaging
<1>16. CASE UNCHANGED vars
  BY <1>1, <1>16
<1>17. QED
  BY <1>2, <1>3, <1>4, <1>5, <1>6, <1>7, <1>8, <1>9, <1>10, <1>11, <1>12, <1>13,
     <1>14, <1>15, <1>16 DEF Next, StageStep, PublishStep, UnpublishStep, UnstageStep

\* Calls stay what the CO meant by them.
LEMMA CallsAreMeantNext ==
  ASSUME IInv, [Next]_vars
  PROVE  CallsAreMeant'
<1> USE DEF vars, options, co, net, mounts, paths, Publishes, Fault, Steps,
      StageSteps, PublishSteps, UnpublishSteps, UnstageSteps, Types, CallsAreMeant
<1>1. Types /\ CallsAreMeant /\ h \in Handler /\ NoTarget \notin Targets
  BY TargetsAssumption DEF IInv, Types
<1>2. CASE ServerFails \/ ServerReturns \/ Reconnects \/ DeviceLost
  BY <1>1, <1>2, HandlerGoesOn DEF ServerFails, ServerReturns, Reconnects,
     DeviceLost
<1>3. CASE HandlerFails \/ ProbeFails
  BY <1>1, <1>3, HandlerGoesOn DEF HandlerFails, ProbeFails
<1>4. CASE Reboot
  BY <1>1, <1>4 DEF Reboot, Idle
<1>5. ASSUME NEW t \in Targets, Wants(t) PROVE CallsAreMeant'
  BY <1>1, <1>5, HandlerGoesOn DEF Wants
<1>6. ASSUME NEW t \in Targets, WantsAgain(t) PROVE CallsAreMeant'
  BY <1>1, <1>6, HandlerGoesOn DEF WantsAgain
<1>7. ASSUME NEW t \in Targets, NodePublishVolume(t) PROVE CallsAreMeant'
  BY <1>1, <1>7, HandlerGoesOn DEF NodePublishVolume
<1>8. ASSUME NEW t \in Targets, NodeUnpublishVolume(t) PROVE CallsAreMeant'
  BY <1>1, <1>8, HandlerGoesOn DEF NodeUnpublishVolume
<1>9. CASE NodeStageVolume \/ NodeUnstageVolume
  BY <1>1, <1>9, HandlerGoesOn DEF NodeStageVolume, NodeUnstageVolume
<1>10. CASE MakeDirectory \/ Connect \/ StageMount \/ StageExpand \/ TouchBlockFile
           \/ BindBlockDevice
  BY <1>1, <1>10, HandlerGoesOn DEF MakeDirectory, Connect, StageMount, StageExpand,
     TouchBlockFile, BindBlockDevice
<1>11. CASE FindDevice
  BY <1>1, <1>11, FindDeviceGoesOn DEF FindDevice
<1>12. CASE MakeTarget \/ BindTarget
  BY <1>1, <1>12, HandlerGoesOn DEF MakeTarget, BindTarget
<1>13. CASE UmountTarget \/ RemoveTarget
  BY <1>1, <1>13, HandlerGoesOn DEF UmountTarget, RemoveTarget
<1>14. CASE Disconnect \/ RemoveStaging
  BY <1>1, <1>14, HandlerGoesOn DEF Disconnect, RemoveStaging
<1>15. CASE Probe
  BY <1>1, <1>15, ProbeGoesOn DEF Probe
<1>16. CASE UmountStaging
  BY <1>1, <1>16, UmountStagingGoesOn DEF UmountStaging
<1>17. CASE UNCHANGED vars
  BY <1>1, <1>17
<1>18. QED
  BY <1>2, <1>3, <1>4, <1>5, <1>6, <1>7, <1>8, <1>9, <1>10, <1>11, <1>12, <1>13,
     <1>14, <1>15, <1>16, <1>17 DEF Next, StageStep, PublishStep, UnpublishStep,
     UnstageStep

\* What is gone stays gone until the CO asks for it.
LEMMA RemovedIsGoneNext ==
  ASSUME IInv, [Next]_vars
  PROVE  RemovedIsGone'
<1> USE DEF vars, options, co, net, mounts, paths, Publishes, Fault, Steps,
      StageSteps, PublishSteps, UnpublishSteps, UnstageSteps, Types, CallsAreMeant,
      RemovedIsGone, Staged
<1>1. Types /\ CallsAreMeant /\ RemovedIsGone /\ h \in Handler /\ NoTarget \notin Targets
  BY TargetsAssumption DEF IInv, Types
<1>2. CASE ServerFails \/ ServerReturns \/ Reconnects \/ DeviceLost
  BY <1>1, <1>2, HandlerGoesOn DEF ServerFails, ServerReturns, Reconnects,
     DeviceLost
<1>3. CASE HandlerFails \/ ProbeFails
  BY <1>1, <1>3, HandlerGoesOn DEF HandlerFails, ProbeFails
<1>4. CASE Reboot
  BY <1>1, <1>4 DEF Reboot, Idle
<1>5. ASSUME NEW t \in Targets, Wants(t) PROVE RemovedIsGone'
  BY <1>1, <1>5, HandlerGoesOn DEF Wants
<1>6. ASSUME NEW t \in Targets, WantsAgain(t) PROVE RemovedIsGone'
  BY <1>1, <1>6, HandlerGoesOn DEF WantsAgain
<1>7. ASSUME NEW t \in Targets, NodePublishVolume(t) PROVE RemovedIsGone'
  BY <1>1, <1>7, HandlerGoesOn DEF NodePublishVolume
<1>8. ASSUME NEW t \in Targets, NodeUnpublishVolume(t) PROVE RemovedIsGone'
  BY <1>1, <1>8, HandlerGoesOn DEF NodeUnpublishVolume
<1>9. CASE NodeStageVolume \/ NodeUnstageVolume
  <2>1. CASE NodeStageVolume
    BY <1>1, <2>1, HandlerGoesOn DEF NodeStageVolume
  <2>2. CASE NodeUnstageVolume
    BY <1>1, <2>2, HandlerGoesOn DEF NodeUnstageVolume
  <2>3. QED
    BY <1>9, <2>1, <2>2
<1>10. CASE MakeDirectory \/ Connect \/ StageMount \/ StageExpand \/ TouchBlockFile
           \/ BindBlockDevice
  BY <1>1, <1>10, HandlerGoesOn DEF MakeDirectory, Connect, StageMount, StageExpand,
     TouchBlockFile, BindBlockDevice
<1>11. CASE FindDevice
  BY <1>1, <1>11, FindDeviceGoesOn DEF FindDevice
<1>12. CASE MakeTarget \/ BindTarget
  <2>1. CASE MakeTarget
    BY <1>1, <2>1, HandlerGoesOn DEF MakeTarget
  <2>2. CASE BindTarget
    BY <1>1, <2>2, HandlerGoesOn DEF BindTarget
  <2>3. QED
    BY <1>12, <2>1, <2>2
<1>13. CASE UmountTarget \/ RemoveTarget
  <2>1. CASE UmountTarget
    BY <1>1, <2>1, HandlerGoesOn DEF UmountTarget
  <2>2. CASE RemoveTarget
    BY <1>1, <2>2, HandlerGoesOn DEF RemoveTarget
  <2>3. QED
    BY <1>13, <2>1, <2>2
<1>14. CASE Disconnect \/ RemoveStaging
  BY <1>1, <1>14, HandlerGoesOn DEF Disconnect, RemoveStaging
<1>15. CASE Probe
  BY <1>1, <1>15, ProbeGoesOn DEF Probe
<1>16. CASE UmountStaging
  BY <1>1, <1>16, UmountStagingGoesOn DEF UmountStaging
<1>17. CASE UNCHANGED vars
  BY <1>1, <1>17
<1>18. QED
  BY <1>2, <1>3, <1>4, <1>5, <1>6, <1>7, <1>8, <1>9, <1>10, <1>11, <1>12, <1>13,
     <1>14, <1>15, <1>16, <1>17 DEF Next, StageStep, PublishStep, UnpublishStep,
     UnstageStep

\* The device comes and goes with the connection.
LEMMA DeviceMatchesNext ==
  ASSUME IInv, [Next]_vars
  PROVE  DeviceMatches'
<1> USE DEF vars, options, co, net, mounts, paths, Publishes, Fault, Steps,
      StageSteps, PublishSteps, UnpublishSteps, UnstageSteps, Types, DeviceMatches,
      NVMe, Share
<1>1. Types /\ DeviceMatches /\ h \in Handler /\ NoTarget \notin Targets
  BY TargetsAssumption DEF IInv, Types
<1>2. CASE ServerFails \/ ServerReturns \/ Reconnects \/ DeviceLost
  BY <1>1, <1>2, HandlerGoesOn DEF ServerFails, ServerReturns, Reconnects,
     DeviceLost
<1>3. CASE HandlerFails \/ ProbeFails
  BY <1>1, <1>3, HandlerGoesOn DEF HandlerFails, ProbeFails
<1>4. CASE Reboot
  BY <1>1, <1>4 DEF Reboot, Idle
<1>5. ASSUME NEW t \in Targets, Wants(t) PROVE DeviceMatches'
  BY <1>1, <1>5, HandlerGoesOn DEF Wants
<1>6. ASSUME NEW t \in Targets, WantsAgain(t) PROVE DeviceMatches'
  BY <1>1, <1>6, HandlerGoesOn DEF WantsAgain
<1>7. ASSUME NEW t \in Targets, NodePublishVolume(t) PROVE DeviceMatches'
  BY <1>1, <1>7, HandlerGoesOn DEF NodePublishVolume
<1>8. ASSUME NEW t \in Targets, NodeUnpublishVolume(t) PROVE DeviceMatches'
  BY <1>1, <1>8, HandlerGoesOn DEF NodeUnpublishVolume
<1>9. CASE NodeStageVolume \/ NodeUnstageVolume
  BY <1>1, <1>9, HandlerGoesOn DEF NodeStageVolume, NodeUnstageVolume
<1>10. CASE MakeDirectory \/ StageMount \/ StageExpand \/ TouchBlockFile \/
           BindBlockDevice
  BY <1>1, <1>10, HandlerGoesOn DEF MakeDirectory, StageMount, StageExpand,
     TouchBlockFile, BindBlockDevice
<1>11. CASE Connect
  BY <1>1, HandlerGoesOn, <1>11, FreshNameIsNew DEF Connect
<1>12. CASE FindDevice
  BY <1>1, <1>12, FindDeviceGoesOn DEF FindDevice
<1>13. CASE MakeTarget \/ BindTarget
  BY <1>1, <1>13, HandlerGoesOn DEF MakeTarget, BindTarget
<1>14. CASE UmountTarget \/ RemoveTarget
  BY <1>1, <1>14, HandlerGoesOn DEF UmountTarget, RemoveTarget
<1>15. CASE Disconnect \/ RemoveStaging
  BY <1>1, <1>15, HandlerGoesOn DEF Disconnect, RemoveStaging
<1>16. CASE Probe
  BY <1>1, <1>16, ProbeGoesOn DEF Probe
<1>17. CASE UmountStaging
  BY <1>1, <1>17, UmountStagingGoesOn DEF UmountStaging
<1>18. CASE UNCHANGED vars
  BY <1>1, <1>18
<1>19. QED
  BY <1>2, <1>3, <1>4, <1>5, <1>6, <1>7, <1>8, <1>9, <1>10, <1>11, <1>12, <1>13,
     <1>14, <1>15, <1>16, <1>17, <1>18 DEF Next, StageStep, PublishStep, UnpublishStep,
     UnstageStep

\* No step removes a path in use, nor mounts on one that is not there.
LEMMA PathsExistNext ==
  ASSUME IInv, [Next]_vars
  PROVE  PathsExist'
<1> USE DEF vars, options, co, net, mounts, paths, Publishes, Fault, Steps,
      StageSteps, PublishSteps, UnpublishSteps, UnstageSteps, Types, CallsAreMeant,
      DeviceMatches, PathsExist, Staged, NVMe
<1>1. /\ Types /\ CallsAreMeant /\ DeviceMatches /\ PathsExist
      /\ h \in Handler /\ NoTarget \notin Targets
  BY TargetsAssumption DEF IInv, Types
<1>2. CASE ServerFails \/ ServerReturns \/ Reconnects \/ DeviceLost
  BY <1>1, <1>2, HandlerGoesOn DEF ServerFails, ServerReturns, Reconnects,
     DeviceLost
<1>3. CASE HandlerFails \/ ProbeFails
  BY <1>1, <1>3, HandlerGoesOn DEF HandlerFails, ProbeFails
<1>4. CASE Reboot
  BY <1>1, <1>4 DEF Reboot, Idle
<1>5. ASSUME NEW t \in Targets,
             Wants(t) \/ WantsAgain(t) \/ NodePublishVolume(t) \/ NodeUnpublishVolume(t)
      PROVE  PathsExist'
  BY <1>1, <1>5, HandlerGoesOn DEF Wants, WantsAgain,
     NodePublishVolume, NodeUnpublishVolume
<1>6. CASE NodeStageVolume \/ NodeUnstageVolume
  BY <1>1, <1>6, HandlerGoesOn DEF NodeStageVolume, NodeUnstageVolume
<1>7. CASE MakeDirectory \/ Connect \/ StageMount \/ StageExpand \/ TouchBlockFile
           \/ BindBlockDevice
  BY <1>1, <1>7, HandlerGoesOn DEF MakeDirectory, Connect, StageMount, StageExpand,
     TouchBlockFile, BindBlockDevice
<1>8. CASE FindDevice
  BY <1>1, <1>8, FindDeviceGoesOn DEF FindDevice
<1>9. CASE MakeTarget
  BY <1>1, <1>9, HandlerGoesOn DEF MakeTarget
<1>10. CASE BindTarget
  BY <1>1, <1>10, HandlerGoesOn DEF BindTarget
<1>11. CASE UmountTarget
  BY <1>1, <1>11, HandlerGoesOn DEF UmountTarget
<1>12. CASE RemoveTarget
  <2>1. \/ path' = path
        \/ target[h.t] = 0 /\ path' = [path EXCEPT ![h.t] = FALSE]
    BY <1>12 DEF RemoveTarget
  <2>2. \A t \in Targets : target'[t] # 0 => path'[t]
    BY <1>1, <1>12, <2>1 DEF RemoveTarget
  <2>3. h'.pc = "idle" /\ target' = target /\ staging' = staging
    BY <1>1, HandlerGoesOn, <1>12 DEF RemoveTarget
  <2>4. QED
    BY <1>1, <1>12, <2>2, <2>3 DEF RemoveTarget
<1>13. CASE Disconnect \/ RemoveStaging
  BY <1>1, <1>13, HandlerGoesOn DEF Disconnect, RemoveStaging
<1>14. CASE Probe
  BY <1>1, <1>14, ProbeGoesOn DEF Probe
<1>15. CASE UmountStaging
  BY <1>1, <1>15, UmountStagingGoesOn DEF UmountStaging
<1>16. CASE UNCHANGED vars
  BY <1>1, <1>16
<1>17. QED
  BY <1>2, <1>3, <1>4, <1>5, <1>6, <1>7, <1>8, <1>9, <1>10, <1>11, <1>12, <1>13,
     <1>14, <1>15, <1>16 DEF Next, StageStep, PublishStep, UnpublishStep, UnstageStep

\* No step mounts the device twice, or something over it.
LEMMA DeviceIsOnTopNext ==
  ASSUME IInv, [Next]_vars
  PROVE  DeviceIsOnTop'
<1> USE DEF vars, options, co, net, mounts, paths, Publishes, Fault, Steps,
      StageSteps, PublishSteps, UnpublishSteps, UnstageSteps, Types, CallsAreMeant,
      DeviceMatches, PathsExist, DeviceIsOnTop, Staged, NVMe, Top, Last
<1>1. /\ Types /\ CallsAreMeant /\ DeviceMatches /\ PathsExist /\ DeviceIsOnTop
      /\ h \in Handler /\ NoTarget \notin Targets
  BY TargetsAssumption DEF IInv, Types
<1>2. CASE ServerFails \/ ServerReturns \/ Reconnects \/ DeviceLost
  BY <1>1, <1>2, HandlerGoesOn DEF ServerFails, ServerReturns, Reconnects,
     DeviceLost
<1>3. CASE HandlerFails \/ ProbeFails
  BY <1>1, <1>3, HandlerGoesOn DEF HandlerFails, ProbeFails
<1>4. CASE Reboot
  <2>1. staging' = <<>> /\ h'.pc = "idle"
    BY <1>4 DEF Reboot, Idle
  <2>2. IsInjective(<<>>)
    BY DEF IsInjective
  <2>3. QED
    BY <2>1, <2>2
<1>5. ASSUME NEW t \in Targets,
             Wants(t) \/ WantsAgain(t) \/ NodePublishVolume(t) \/ NodeUnpublishVolume(t)
      PROVE  DeviceIsOnTop'
  BY <1>1, <1>5, HandlerGoesOn DEF Wants, WantsAgain,
     NodePublishVolume, NodeUnpublishVolume
<1>6. CASE NodeStageVolume \/ NodeUnstageVolume
  BY <1>1, <1>6, HandlerGoesOn DEF NodeStageVolume, NodeUnstageVolume
<1>7. CASE MakeDirectory \/ StageExpand \/ TouchBlockFile
  BY <1>1, <1>7, HandlerGoesOn DEF MakeDirectory, StageExpand, TouchBlockFile
<1>8. CASE Connect
  BY <1>1, HandlerGoesOn, <1>8, FreshNameIsNew DEF Connect, HeldNames, Range
<1>9. CASE FindDevice
  BY <1>1, <1>9, FindDeviceGoesOn DEF FindDevice
<1>10. CASE StageMount
  <2> DEFINE device == IF NVMe THEN h.device ELSE 1
  <2>1. /\ dev # 0 => dev = device
        /\ device \in Nat /\ dev' = dev /\ staged = "unknown" /\ staged' = staged
    BY <1>1, <1>10 DEF StageMount, Handler
  <2>2. CASE device \in Range(staging)
    <3>1. staging' = staging
      BY <1>10, <2>2 DEF StageMount
    <3>2. PICK i \in 1 .. Len(staging) : staging[i] = device
      <4>1. staging \in Seq(Nat)
        BY <1>1
      <4>2. QED
        BY <2>2, <4>1, InRange
    <3>3. QED
      BY <1>1, <2>1, <3>1, <3>2
  <2>3. CASE device \notin Range(staging) /\ staging' = Append(staging, device)
    <3>1. /\ IsInjective(staging') /\ Last(staging') = device
          /\ \A i \in 1 .. Len(staging') : staging'[i] = device => i = Len(staging')
      BY <1>1, <2>1, <2>3, AppendFacts
    <3>2. QED
      BY <2>1, <3>1
  <2>4. CASE h'.pc = "idle" /\ staging' = staging
    BY <1>1, <2>1, <2>4
  <2>5. QED
    BY <1>1, HandlerGoesOn, <1>10, <2>2, <2>3, <2>4 DEF StageMount
<1>11. CASE BindBlockDevice
  <2>1. staging' = staging \/ staging' = <<dev>>
    BY <1>11 DEF BindBlockDevice
  <2>2. IsInjective(<<dev>>)
    BY DEF IsInjective
  <2>3. h'.pc = "idle" /\ access' = "block" /\ dev' = dev
    BY <1>1, HandlerGoesOn, <1>11 DEF BindBlockDevice
  <2>4. Len(<<dev>>) = 1
    OBVIOUS
  <2>5. CASE staging' = <<dev>>
    BY <2>2, <2>3, <2>4, <2>5
  <2>6. CASE staging' = staging
    BY <1>1, <2>3, <2>6
  <2>7. QED
    BY <2>1, <2>5, <2>6
<1>12. CASE MakeTarget \/ BindTarget
  BY <1>1, <1>12, HandlerGoesOn DEF MakeTarget, BindTarget
<1>13. CASE UmountTarget \/ RemoveTarget
  BY <1>1, <1>13, HandlerGoesOn DEF UmountTarget, RemoveTarget
<1>14. CASE Disconnect \/ RemoveStaging
  BY <1>1, <1>14, HandlerGoesOn DEF Disconnect, RemoveStaging
<1>15. CASE Probe
  <2>1. h'.pc # "expand" /\ staged' = "unknown" /\ dev' = dev
    BY <1>1, <1>15, ProbeGoesOn DEF Probe
  <2>2. CASE staging' = staging
    BY <1>1, <2>1, <2>2
  <2>3. CASE staging # <<>> /\ staging' = Front(staging)
    <3>1. /\ IsInjective(staging')
          /\ Len(staging') = Len(staging) - 1 /\ Len(staging) \in Nat
          /\ \A i \in 1 .. Len(staging') : staging'[i] = staging[i]
      BY <1>1, <2>3, FrontFacts
    <3>2. dev # 0 => \A i \in 1 .. Len(staging') : staging'[i] # dev
      <4>1. dev # 0 => \A i \in 1 .. Len(staging) : staging[i] = dev => i = Len(staging)
        BY <1>1
      <4>2. staging \in Seq(Nat)
        BY <1>1
      <4>3. QED
        BY <2>3, <4>1, <4>2, FrontIsBelowTop
    <3>3. QED
      BY <2>1, <3>1, <3>2
  <2>4. QED
    BY <1>1, <1>15, <2>2, <2>3, ProbeGoesOn
<1>16. CASE UmountStaging
  <2>1. h'.pc # "expand" /\ staged' = "unknown" /\ dev' = dev
    BY <1>1, <1>16, UmountStagingGoesOn DEF UmountStaging
  <2>2. CASE staging' = staging
    BY <1>1, <2>1, <2>2
  <2>3. CASE staging # <<>> /\ staging' = Front(staging)
    <3>1. /\ IsInjective(staging')
          /\ Len(staging') = Len(staging) - 1 /\ Len(staging) \in Nat
          /\ \A i \in 1 .. Len(staging') : staging'[i] = staging[i]
      BY <1>1, <2>3, FrontFacts
    <3>2. dev # 0 => \A i \in 1 .. Len(staging') : staging'[i] # dev
      <4>1. dev # 0 => \A i \in 1 .. Len(staging) : staging[i] = dev => i = Len(staging)
        BY <1>1
      <4>2. staging \in Seq(Nat)
        BY <1>1
      <4>3. QED
        BY <2>3, <4>1, <4>2, FrontIsBelowTop
    <3>3. QED
      BY <2>1, <3>1, <3>2
  <2>4. QED
    BY <1>1, <1>16, <2>2, <2>3, UmountStagingGoesOn
<1>17. CASE UNCHANGED vars
  BY <1>1, <1>17
<1>18. QED
  BY <1>2, <1>3, <1>4, <1>5, <1>6, <1>7, <1>8, <1>9, <1>10, <1>11, <1>12, <1>13,
     <1>14, <1>15, <1>16, <1>17 DEF Next, StageStep, PublishStep, UnpublishStep,
     UnstageStep

\* A calm target gets the device and keeps it.
LEMMA CalmTargetsNext ==
  ASSUME IInv, [Next]_vars
  PROVE  CalmTargets'
<1> USE DEF vars, options, co, net, mounts, paths, Publishes, Fault, Steps,
      StageSteps, PublishSteps, UnpublishSteps, UnstageSteps, Types, CallsAreMeant,
      DeviceMatches, CalmTargets, DeviceIsOnTop, Staged, NVMe, Top
<1>1. /\ Types /\ CallsAreMeant /\ DeviceMatches /\ PathsExist /\ DeviceIsOnTop
      /\ CalmTargets /\ h \in Handler /\ NoTarget \notin Targets
  BY TargetsAssumption DEF IInv, Types
<1>2. CASE ServerFails \/ ServerReturns \/ Reconnects \/ DeviceLost
  BY <1>1, <1>2, HandlerGoesOn DEF ServerFails, ServerReturns, Reconnects,
     DeviceLost
<1>3. CASE HandlerFails \/ ProbeFails
  BY <1>1, <1>3, HandlerGoesOn DEF HandlerFails, ProbeFails
<1>4. CASE Reboot
  BY <1>1, <1>4 DEF Reboot, Idle
<1>5. ASSUME NEW t \in Targets, Wants(t) PROVE CalmTargets'
  BY <1>1, <1>5, HandlerGoesOn DEF Wants
<1>6. ASSUME NEW t \in Targets, WantsAgain(t) PROVE CalmTargets'
  BY <1>1, <1>6, HandlerGoesOn DEF WantsAgain
<1>7. ASSUME NEW t \in Targets, NodePublishVolume(t) PROVE CalmTargets'
  <2>1. calm'[t] => calm[t] \/ Afresh(t)
    BY <1>1, <1>7 DEF NodePublishVolume
  <2>2. \A s \in Targets \ {t} : calm'[s] = calm[s]
    BY <1>1, <1>7 DEF NodePublishVolume
  <2>3. /\ want[t] /\ ~ ok[t]
        /\ UNCHANGED <<kind, access, want, ok, server, conn, dev, staging, target>>
    BY <1>7 DEF NodePublishVolume
  <2>4. QED
    BY <1>1, <2>1, <2>2, <2>3 DEF Afresh, Works
<1>8. ASSUME NEW t \in Targets, NodeUnpublishVolume(t) PROVE CalmTargets'
  BY <1>1, <1>8, HandlerGoesOn DEF NodeUnpublishVolume
<1>9. CASE NodeStageVolume \/ NodeUnstageVolume
  BY <1>1, <1>9, HandlerGoesOn DEF NodeStageVolume, NodeUnstageVolume
<1>10. CASE MakeDirectory \/ Connect \/ StageMount \/ StageExpand \/ TouchBlockFile
  BY <1>1, <1>10, HandlerGoesOn DEF MakeDirectory, Connect, StageMount, StageExpand,
     TouchBlockFile
<1>11. CASE FindDevice
  BY <1>1, <1>11, FindDeviceGoesOn DEF FindDevice
<1>12. CASE BindBlockDevice
  <2>1. /\ access = "block" /\ ~ Staged
        /\ UNCHANGED <<kind, access, want, ok, server, conn, dev, target, calm>>
    BY <1>1, <1>12 DEF BindBlockDevice, PathsExist
  <2>2. \A t \in Targets : calm[t] => target[t] # 0
    BY <1>1, <2>1
  <2>3. QED
    BY <1>1, <2>1, <2>2
<1>13. CASE MakeTarget
  BY <1>1, <1>13, HandlerGoesOn DEF MakeTarget
<1>14. CASE BindTarget
  <2>1. /\ h.t \in Targets /\ want[h.t] /\ ~ ok[h.t] /\ staged = "yes"
        /\ UNCHANGED <<kind, access, want, server, conn, dev, staging, calm>>
    BY <1>1, <1>14 DEF BindTarget
  <2>2. CASE target[h.t] = 0 /\ target' = [target EXCEPT ![h.t] = Top] /\ Staged
             /\ ok' = [ok EXCEPT ![h.t] = TRUE]
    <3>1. calm[h.t] => dev # 0
      BY <1>1, <2>1
    <3>2. calm[h.t] => Top = dev
      BY <1>1, <2>1, <2>2, <3>1
    <3>3. QED
      BY <1>1, <2>1, <2>2, <3>1, <3>2
  <2>3. CASE /\ target' = target
             /\ \/ ok' = ok
                \/ target[h.t] # 0 /\ ok' = [ok EXCEPT ![h.t] = TRUE]
    BY <1>1, <2>1, <2>3
  <2>4. QED
    BY <1>14, <2>2, <2>3 DEF BindTarget
<1>15. CASE UmountTarget \/ RemoveTarget
  BY <1>1, <1>15, HandlerGoesOn DEF UmountTarget, RemoveTarget
<1>16. CASE Disconnect \/ RemoveStaging
  BY <1>1, <1>16, HandlerGoesOn DEF Disconnect, RemoveStaging
<1>17. CASE Probe
  BY <1>1, <1>17, ProbeGoesOn DEF Probe
<1>18. CASE UmountStaging
  BY <1>1, <1>18, UmountStagingGoesOn DEF UmountStaging
<1>19. CASE UNCHANGED vars
  BY <1>1, <1>19
<1>20. QED
  BY <1>2, <1>3, <1>4, <1>5, <1>6, <1>7, <1>8, <1>9, <1>10, <1>11, <1>12, <1>13,
     <1>14, <1>15, <1>16, <1>17, <1>18, <1>19 DEF Next, StageStep, PublishStep,
     UnpublishStep, UnstageStep

\* Every step keeps the variables typed.
LEMMA TypesNext ==
  ASSUME IInv, [Next]_vars
  PROVE  Types'
BY HandlerIsTyped, LeftIsTyped, VolumeIsTyped, WishesAreTyped, MountsAreTyped,
   FilesAreTyped, PathsAreTyped DEF Types

\* The initial states satisfy the inductive invariant.
LEMMA InitIInv == Init => IInv
<1> SUFFICES ASSUME Init PROVE IInv
  OBVIOUS
<1>1. PICK s \in Setups :
        /\ kind = s.kind /\ access = s.access
        /\ left = [changes |-> s.changes, faults |-> s.faults, outages |-> s.outages]
        /\ dev = IF s.kind = "nvmeof" THEN 0 ELSE 1
  BY DEF Init
<1>2. s \in Setup /\ (s.access = "block" => s.kind = "nvmeof")
  BY SetupsAssumption
<1>3. /\ want = [t \in Targets |-> FALSE] /\ ok = [t \in Targets |-> TRUE]
      /\ staged = "no" /\ h = Idle /\ server = TRUE /\ conn = "none"
      /\ staging = <<>> /\ target = [t \in Targets |-> 0]
      /\ dir = FALSE /\ file = FALSE /\ path = [t \in Targets |-> FALSE]
      /\ calm = [t \in Targets |-> FALSE]
  BY DEF Init
<1>4. h \in Handler /\ h.pc = "idle" /\ h.t = NoTarget /\ NoTarget \notin Targets
  BY <1>3, TargetsAssumption DEF Idle, Handler, Steps
<1>5. Types
  <2>1. /\ kind \in Kinds /\ access \in {"mount", "block"}
        /\ left \in [{"changes", "faults", "outages"} -> Nat] /\ dev \in Nat
    BY <1>1, <1>2 DEF Setup
  <2>2. /\ want \in [Targets -> BOOLEAN] /\ ok \in [Targets -> BOOLEAN]
        /\ path \in [Targets -> BOOLEAN] /\ calm \in [Targets -> BOOLEAN]
        /\ target \in [Targets -> Nat]
    BY <1>3
  <2>3. staging \in Seq(Nat)
    BY <1>3
  <2>4. server \in BOOLEAN /\ dir \in BOOLEAN /\ file \in BOOLEAN
    BY <1>3
  <2>5. QED
    BY <1>3, <1>4, <2>1, <2>2, <2>3, <2>4 DEF Types
<1>6. CallsAreMeant
  BY <1>3, <1>4 DEF CallsAreMeant, StageSteps, PublishSteps, UnpublishSteps, UnstageSteps
<1>7. DeviceMatches
  BY <1>1, <1>2, <1>3, <1>4 DEF DeviceMatches, NVMe
<1>8. PathsExist /\ RemovedIsGone /\ CalmTargets
  BY <1>3, <1>4 DEF PathsExist, RemovedIsGone, CalmTargets, Staged, StageSteps
<1>9. DeviceIsOnTop
  BY <1>3, <1>4 DEF DeviceIsOnTop, IsInjective
<1>10. QED
  BY <1>5, <1>6, <1>7, <1>8, <1>9 DEF IInv

\* Every step preserves the inductive invariant.
LEMMA NextIInv == IInv /\ [Next]_vars => IInv'
BY TypesNext, CallsAreMeantNext, RemovedIsGoneNext, DeviceMatchesNext,
   PathsExistNext, DeviceIsOnTopNext, CalmTargetsNext DEF IInv

\* The inductive invariant implies the properties of the run.
LEMMA IInvImplies == IInv => TypeOK /\ AckedCallsHold
<1> SUFFICES ASSUME IInv PROVE TypeOK /\ AckedCallsHold
  OBVIOUS
<1>1. TypeOK
  BY DEF IInv, TypeOK, Types, Handler, Steps, StageSteps, PublishSteps,
         UnpublishSteps, UnstageSteps, CallsAreMeant, DeviceMatches, PathsExist,
         DeviceIsOnTop
<1>2. PublishedServes
  BY DEF IInv, PublishedServes, CalmTargets, Works
<1>3. QED
  BY <1>1, <1>2 DEF IInv, AckedCallsHold

\* The variables of the node and of its handler are always typed, no device is
\* mounted twice at the staging path, and a mount has its path.
THEOREM TypeCorrect == Spec => []TypeOK
<1>1. QED
  BY InitIInv, NextIInv, IInvImplies, PTL DEF Spec

\* An answer OK holds, for any number of pods, faults and outages: what was
\* unpublished or unstaged is gone, and what was published afresh works while
\* its server does.
THEOREM AnswersHold == Spec => []AckedCallsHold
<1>1. QED
  BY InitIInv, NextIInv, IInvImplies, PTL DEF Spec
=============================================================================
