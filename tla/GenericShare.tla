---------------------------- MODULE GenericShare ----------------------------
(***************************************************************************)
(* The shares of the generic ZFS driver (driver/controller-zfs-generic):   *)
(* what createShare() and deleteShare() do between the creation of a       *)
(* volume's dataset and CreateVolume's answer, and between DeleteVolume's  *)
(* call and the destruction of the dataset.                                *)
(*                                                                         *)
(* A share is a set of objects on the storage server: a target (nvme: a    *)
(* subsystem), an extent that holds the zvol's device open, a LUN          *)
(* (namespace), a port, or the share properties of a filesystem.  They are *)
(* made and removed by scripts piped into a configuration shell (targetcli,*)
(* nvmetcli, spdkcli), by single pcs commands, or by zfs set and inherit.  *)
(* A shell prints what goes wrong with a line, goes on with the next one   *)
(* and exits 0.  What it changes is in the running configuration; what it  *)
(* saves last is what a reboot of the server brings back.                  *)
(***************************************************************************)
EXTENDS Naturals, Sequences, Functions

CONSTANTS
    Volumes,
    Strategies,     \* the share strategies to consider
    MaxTries,       \* attempts of retry() in place
    MaxFaults,      \* bound: commands that fail, restarts of the driver
    MaxReboots      \* bound: reboots of the storage server

Shells == {"targetCli", "nvmetCli", "spdkCli"}

ASSUME StrategiesAssumption ==
    Strategies \subseteq Shells \cup {"pcs", "setDatasetProperties"}
ASSUME BoundsAssumption ==
    MaxTries \in Nat \ {0} /\ MaxFaults \in Nat /\ MaxReboots \in Nat

VARIABLES
    strategy,       \* shareStrategy
    templated,      \* whether nameTemplate is set
    phase,          \* phase[v]: what the CO is at with volume v
    at,             \* at[v]: the position of v's handler in its steps, 0: none runs
    tries,          \* tries[v]: attempts at the step so far
    dataset,        \* the volumes whose dataset exists
    device,         \* the volumes whose /dev/zvol symlink exists
    asset,          \* the volumes whose assets_name property is set
    live, saved,    \* live[v]: v's objects now; saved[v]: those a reboot restores
    faults, reboots

handlers == <<phase, at, tries>>
pool == <<dataset, device, asset>>
config == <<live, saved>>
options == <<strategy, templated>>
bounds == <<faults, reboots>>
vars == <<options, handlers, pool, config, bounds>>

Phases == {"new", "creating", "kept", "deleting", "gone"}

Objects == {"target", "extent", "lun", "port", "share", "sharenfs"}

Creating(v) == phase[v] = "creating"

----------------------------------------------------------------------------
(* Scripts.  A line is an object to create or to delete.                   *)

\* A strategy's scripts, one for each command: pcs and zfs take an object at a
\* time.
CreateByTargetCli == << <<"target", "extent", "lun">> >>
CreateByNvmetCli == << <<"target", "lun", "port">> >>
CreateBySpdkCli == << <<"extent", "target", "lun", "port">> >>
CreateByPcs == << <<"target">>, <<"lun">> >>
SetProperties == << <<"share">>, <<"sharenfs">> >>

CreateScripts ==
    CASE strategy = "targetCli" -> CreateByTargetCli
      [] strategy = "nvmetCli"  -> CreateByNvmetCli
      [] strategy = "spdkCli"   -> CreateBySpdkCli
      [] strategy = "pcs"       -> CreateByPcs
      [] OTHER                  -> SetProperties

DeleteByTargetCli == << <<"target", "extent">> >>
DeleteByNvmetCli == << <<"port", "target">> >>
DeleteBySpdkCli == << <<"target", "extent">> >>
DeleteByPcs == << <<"lun">>, <<"target">> >>
InheritProperties == << <<"share">>, <<"sharenfs">> >>

DeleteScripts ==
    CASE strategy = "targetCli" -> DeleteByTargetCli
      [] strategy = "nvmetCli"  -> DeleteByNvmetCli
      [] strategy = "spdkCli"   -> DeleteBySpdkCli
      [] strategy = "pcs"       -> DeleteByPcs
      [] OTHER                  -> InheritProperties

Scripts(v) == IF Creating(v) THEN CreateScripts ELSE DeleteScripts

Share == UNION {Range(CreateScripts[i]) : i \in DOMAIN CreateScripts}

\* What the shell needs to create an object: what opens the zvol needs its
\* device, a LUN or a port what it belongs to.  pcs defines a resource anyhow.
Creatable(v, objs, o) ==
    strategy \in Shells =>
        CASE o = "extent" -> v \in device
          [] o = "lun"    -> /\ "target" \in objs
                             /\ IF strategy = "nvmetCli" THEN v \in device
                                                         ELSE "extent" \in objs
          [] o = "port"   -> "target" \in objs
          [] OTHER        -> TRUE

\* An object of a shell goes with what it contains or maps.
Dependents(o) ==
    IF strategy \notin Shells THEN {o}
    ELSE CASE o = "target" -> {"target", "lun", "port"}
           [] o = "extent" -> {"extent", "lun"}
           [] OTHER        -> {o}

Line(v, objs, o) ==
    IF ~ Creating(v) THEN objs \ Dependents(o)
    ELSE IF Creatable(v, objs, o) THEN objs \cup {o} ELSE objs

\* Mutant: deleteShare() always takes the dataset's name.
NamedByDataset(v) == Creating(v) \/ strategy = "setDatasetProperties" \/ ~ templated

\* deleteShare() names a target by the property of the dataset, or else by the
\* dataset's own name, which is not what a template has made of it.
Named(v) == Creating(v) \/ v \in asset \/ strategy = "setDatasetProperties" \/ ~ templated

\* v's objects after the first n lines of a script.
After(v, script, n) ==
    LET objs[i \in 0..n] == IF i = 0 THEN live[v] ELSE Line(v, objs[i - 1], script[i])
    IN IF Named(v) THEN objs[n] ELSE live[v]

\* A shell saves when it comes to the end of its script; pcs and zfs keep
\* whatever they do.
Saves(v, complete) == strategy \notin Shells \/ complete

\* The first n lines of the script run.
Run(v, script, n) ==
    /\ live' = [live EXCEPT ![v] = After(v, script, n)]
    /\ saved' = IF Saves(v, n = Len(script)) THEN live' ELSE saved

----------------------------------------------------------------------------
(* The steps of the handlers.                                              *)

When(b, step) == IF b THEN <<step>> ELSE <<>>

ScriptSteps(v) == [i \in DOMAIN Scripts(v) |-> <<"script", i>>]

\* Only targetcli's script waits for its device, and only what it has made is
\* looked at.  Targets leave their name in a property.
CreateSteps(v) ==
    <<<<"dataset">>>> \o When(strategy = "targetCli", <<"wait">>) \o ScriptSteps(v)
      \o When(strategy = "targetCli", <<"verify">>)
      \o When(strategy # "setDatasetProperties", <<"asset">>) \o <<<<"reply">>>>

DeleteSteps(v) == <<<<"look">>>> \o ScriptSteps(v) \o <<<<"destroy">>, <<"reply">>>>

Steps(v) == IF Creating(v) THEN CreateSteps(v) ELSE DeleteSteps(v)

Step(v) == Steps(v)[at[v]]

On(v, name) == at[v] # 0 /\ Step(v)[1] = name

Position(v, name) == CHOOSE i \in DOMAIN Steps(v) : Steps(v)[i][1] = name

\* v's handler is at position n after this step, on a first attempt.
GoTo(v, n) == /\ at' = [at EXCEPT ![v] = n]
              /\ tries' = [tries EXCEPT ![v] = 1]
              /\ UNCHANGED phase

\* The next step; the check of a script belongs to the same attempt.
Goes(v) ==
    IF Steps(v)[at[v] + 1][1] = "verify"
    THEN at' = [at EXCEPT ![v] = @ + 1] /\ UNCHANGED <<phase, tries>>
    ELSE GoTo(v, at[v] + 1)

\* The handler throws, and the CO sends the call again.
Throws(v) == GoTo(v, 0)

\* Mutant: one attempt more than is allowed.
RetriesOnceMore(v, n) ==
    IF tries[v] > MaxTries THEN Throws(v)
    ELSE /\ at' = [at EXCEPT ![v] = n]
         /\ tries' = [tries EXCEPT ![v] = @ + 1]
         /\ UNCHANGED phase

\* retry() goes back to position n, until the attempts are used up.
Retries(v, n) ==
    IF tries[v] >= MaxTries THEN Throws(v)
    ELSE /\ at' = [at EXCEPT ![v] = n]
         /\ tries' = [tries EXCEPT ![v] = @ + 1]
         /\ UNCHANGED phase

----------------------------------------------------------------------------
Init ==
    /\ strategy \in Strategies
    /\ templated \in BOOLEAN
    /\ phase = [v \in Volumes |-> "new"]
    /\ at = [v \in Volumes |-> 0]
    /\ tries = [v \in Volumes |-> 1]
    /\ dataset = {} /\ device = {} /\ asset = {}
    /\ live = [v \in Volumes |-> {}]
    /\ saved = live
    /\ faults = 0 /\ reboots = 0

(* The CO.                                                                 *)

\* The CO sends CreateVolume until it is answered OK, and then, which it need
\* not, DeleteVolume: it learns the volume id from the answer.
Asks(v) ==
    CASE phase[v] = "new"  -> "creating"
      [] phase[v] = "kept" -> "deleting"
      [] OTHER             -> phase[v]

Start(v) ==
    /\ at[v] = 0 /\ phase[v] # "gone"
    /\ phase' = [phase EXCEPT ![v] = Asks(v)]
    /\ at' = [at EXCEPT ![v] = 1]
    /\ tries' = [tries EXCEPT ![v] = 1]
    /\ UNCHANGED <<options, pool, config, bounds>>

Resend(v) == phase[v] \in {"creating", "deleting"} /\ Start(v)

\* The answer reaches the CO.
Reply(v) ==
    /\ On(v, "reply")
    /\ phase' = [phase EXCEPT ![v] = IF Creating(v) THEN "kept" ELSE "gone"]
    /\ at' = [at EXCEPT ![v] = 0]
    /\ UNCHANGED <<options, tries, pool, config, bounds>>

(* CreateVolume and createShare().                                         *)

\* zfs create, or clone, whose device udev makes later; idempotent.
CreateDataset(v) ==
    /\ On(v, "dataset")
    /\ dataset' = dataset \cup {v}
    /\ Goes(v)
    /\ UNCHANGED <<options, device, asset, config, bounds>>

\* waitForDevice() has seen the device, or has seen it missing for too long.
WaitForDevice(v) ==
    /\ On(v, "wait")
    /\ \/ v \in device /\ Goes(v)
       \/ v \notin device /\ Throws(v)
    /\ UNCHANGED <<options, pool, config, bounds>>

\* Mutant: an answer is enough.
VerifiedUnseen(v) == TRUE

Verified(v) == {"extent", "lun"} \subseteq live[v]

\* targetCliVerifyPaths(): a shell of its own, which saves in its turn; what is
\* missing is created once more.
Verify(v) ==
    /\ On(v, "verify")
    /\ saved' = live
    /\ IF Verified(v) THEN Goes(v) ELSE Retries(v, Position(v, "script"))
    /\ UNCHANGED <<options, pool, live, bounds>>

SetAsset(v) ==
    /\ On(v, "asset")
    /\ asset' = asset \cup {v}
    /\ Goes(v)
    /\ UNCHANGED <<options, dataset, device, config, bounds>>

(* Scripts, of both handlers.                                              *)

\* Mutant: what is already there is an error to pcs, and to the driver.
AnsweredAlways(v, o) == (o \in live[v]) # Creating(v)

\* pcs fails when there is nothing to delete; that there is already what is to
\* be created is no error to the driver.
Answered(v, o) == Creating(v) \/ o \in live[v]

\* The script runs to its end.
RunScript(v) ==
    /\ On(v, "script")
    /\ LET script == Scripts(v)[Step(v)[2]] IN
         IF strategy = "pcs" /\ ~ Answered(v, script[1])
         THEN Throws(v) /\ UNCHANGED config
         ELSE Run(v, script, Len(script)) /\ Goes(v)
    /\ UNCHANGED <<options, pool, bounds>>

\* The command fails after some of its lines; some failures are retried.
CutScript(v) ==
    /\ faults < MaxFaults /\ On(v, "script")
    /\ LET script == Scripts(v)[Step(v)[2]] IN
         \E n \in 0..Len(script) : Run(v, script, n)
    /\ Throws(v) \/ (strategy # "setDatasetProperties" /\ Retries(v, at[v]))
    /\ faults' = faults + 1
    /\ UNCHANGED <<options, pool, reboots>>

(* DeleteVolume and deleteShare().                                         *)

\* The dataset's property is read; without a dataset there is nothing to do.
LookUp(v) ==
    /\ On(v, "look")
    /\ IF v \in dataset THEN Goes(v) ELSE GoTo(v, Position(v, "destroy"))
    /\ UNCHANGED <<options, pool, config, bounds>>

\* What has the zvol open.
Busy(v) == {"extent", "lun"} \cap live[v] # {}

\* zfs destroy, which does not mind that the dataset is gone.
Destroy(v) ==
    /\ On(v, "destroy")
    /\ IF Busy(v) /\ v \in dataset
       THEN Retries(v, at[v]) /\ UNCHANGED pool
       ELSE /\ dataset' = dataset \ {v}
            /\ device' = device \ {v}
            /\ asset' = asset \ {v}
            /\ Goes(v)
    /\ UNCHANGED <<options, config, bounds>>

(* Failures, and the storage server.                                       *)

\* A command fails without effect, or its answer is lost before this step.
Fail(v) ==
    /\ faults < MaxFaults /\ at[v] # 0
    /\ Throws(v)
    /\ faults' = faults + 1
    /\ UNCHANGED <<options, pool, config, reboots>>

\* udev makes the link of a zvol, or makes it again.
Udev(v) ==
    /\ v \in dataset \ device /\ strategy # "setDatasetProperties"
    /\ device' = device \cup {v}
    /\ UNCHANGED <<options, handlers, dataset, asset, config, bounds>>

\* The storage server restores the configuration that was saved last; ssh
\* connects again for the next command of a handler.
Reboot ==
    /\ reboots < MaxReboots
    /\ live' = saved
    /\ device' = {}
    /\ reboots' = reboots + 1
    /\ UNCHANGED <<options, handlers, dataset, asset, saved, faults>>

Handle(v) ==
    \/ CreateDataset(v) \/ WaitForDevice(v) \/ RunScript(v) \/ Verify(v) \/ SetAsset(v)
    \/ LookUp(v) \/ Destroy(v) \/ Reply(v)

\* The CO keeps some volumes, and has deleted the others.
Quiet == (\A v \in Volumes : phase[v] \in {"kept", "gone"}) /\ UNCHANGED vars

Next ==
    \/ \E v \in Volumes : Start(v) \/ Handle(v) \/ CutScript(v) \/ Fail(v) \/ Udev(v)
    \/ Reboot
    \/ Quiet

Spec == Init /\ [][Next]_vars

\* Handlers go on, udev makes its links, and the CO sends again what was not
\* answered OK; faults, reboots and first calls need not happen.
FairSpec ==
    Spec /\ \A v \in Volumes : WF_vars(Handle(v)) /\ WF_vars(Resend(v)) /\ WF_vars(Udev(v))

----------------------------------------------------------------------------
(* Properties.                                                             *)

\* Every variable has its type.
TypeOK ==
    /\ strategy \in Strategies /\ templated \in BOOLEAN
    /\ \A v \in Volumes :
         /\ phase[v] \in Phases
         /\ at[v] \in {0} \cup DOMAIN Steps(v)
         /\ at[v] # 0 => phase[v] \in {"creating", "deleting"}
         /\ tries[v] \in 1..MaxTries
         /\ saved[v] \cup live[v] \subseteq Objects
    /\ dataset \subseteq Volumes /\ device \subseteq dataset /\ asset \subseteq dataset
    /\ faults \in 0..MaxFaults /\ reboots \in 0..MaxReboots

\* The share of a volume that CreateVolume has answered OK for is whole, though
\* targetcli exits 0 whatever goes wrong, and stays so when the storage server
\* restarts.  What nvmetcli and spdkcli have made nobody looks at: it stays
\* what it was.
AckedSharesServe ==
    \A v \in Volumes : phase[v] = "kept" =>
        /\ live[v] = saved[v]
        /\ strategy \notin {"nvmetCli", "spdkCli"} => live[v] = Share

\* Nothing of a share outlives its dataset, now or after a restart of the
\* storage server: deleteShare() returns early once the dataset is gone, so
\* that no later call would remove it.
SharesHaveDatasets ==
    \A v \in Volumes \ dataset : live[v] \cup saved[v] = {}

\* A call that the CO goes on sending is answered OK in the end (a volume's
\* phases only go forward); but a deletion by pcs that has failed half-way need
\* not be, as pcs does not delete a LUN twice.
EveryCallSucceeds ==
    <>[](\A v \in Volumes :
            /\ phase[v] # "creating"
            /\ phase[v] = "deleting" => strategy = "pcs")
=============================================================================
