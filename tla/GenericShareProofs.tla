-------------------------- MODULE GenericShareProofs --------------------------
(***************************************************************************)
(* Theorems about GenericShare, for every set of volumes and of strategies *)
(* and any number of attempts, faults and reboots.                         *)
(*                                                                         *)
(* The scripts of one handler save the objects of all volumes, so what the *)
(* properties need is said of the running and of the saved configuration   *)
(* alike; and it is said along the positions of a handler in its steps,    *)
(* which the first part of the module makes explicit.                      *)
(***************************************************************************)
EXTENDS GenericShare, TLAPS

\* The position of the first script, the number of scripts, and that of steps.
FirstScript(v) == IF Creating(v) /\ strategy = "targetCli" THEN 3 ELSE 2

Count == IF strategy \in Shells THEN 1 ELSE 2

Last(v) ==
    IF ~ Creating(v) THEN Count + 3
    ELSE IF strategy = "targetCli" THEN 6
    ELSE IF strategy = "pcs" THEN 5 ELSE 4

AtScript(v) == at[v] \in FirstScript(v) .. (FirstScript(v) + Count - 1)

Scripted(v) == at[v] >= FirstScript(v) + Count

Shared == strategy # "setDatasetProperties"

Types ==
    /\ strategy \in Strategies /\ templated \in BOOLEAN
    /\ phase \in [Volumes -> Phases]
    /\ at \in [Volumes -> Nat] /\ tries \in [Volumes -> 1..MaxTries]
    /\ \A v \in Volumes : at[v] <= Last(v)
    /\ \A v \in Volumes : at[v] # 0 => phase[v] \in {"creating", "deleting"}
    /\ live \in [Volumes -> SUBSET Share] /\ saved \in [Volumes -> SUBSET Share]
    /\ dataset \subseteq Volumes /\ device \subseteq dataset /\ asset \subseteq dataset
    /\ faults \in 0..MaxFaults /\ reboots \in 0..MaxReboots

\* A LUN has its target, and what is not made by a shell is saved as it is made.
ConfiguredWell(v) ==
    /\ strategy = "targetCli" =>
         /\ "lun" \in live[v] => "target" \in live[v]
         /\ "lun" \in saved[v] => "target" \in saved[v]
    /\ strategy \notin Shells => live[v] = saved[v]

\* The dataset, and the name of the target, are there for as long as they are needed.
NeededThingsExist(v) ==
    /\ Creating(v) /\ at[v] > 1 => v \in dataset
    /\ phase[v] = "kept" => v \in dataset
    /\ ~ Creating(v) /\ AtScript(v) => v \in dataset
    /\ ~ Creating(v) /\ at[v] = Last(v) => v \notin dataset
    /\ Shared /\ Creating(v) /\ at[v] = Last(v) => v \in asset
    /\ Shared /\ phase[v] \in {"kept", "deleting"} /\ v \in dataset => v \in asset

\* Scripts leave behind them what later steps rely on; of two, the second goes on from
\* what the first has left.
ScriptsHaveRun(v) ==
    /\ phase[v] = "deleting" /\ Scripted(v) => live[v] = {} /\ saved[v] = {}
    /\ Creating(v) /\ Scripted(v) =>
         /\ live[v] = saved[v]
         /\ strategy \notin Shells => live[v] = Share
         /\ strategy = "targetCli" /\ at[v] >= 5 => live[v] = Share
    /\ strategy \notin Shells /\ at[v] = 3 =>
         /\ Creating(v) => CreateScripts[1][1] \in live[v]
         /\ ~ Creating(v) => DeleteScripts[1][1] \notin live[v]

\* The two properties, of one volume.
ServesWhenAcked(v) ==
    phase[v] = "kept" =>
      /\ live[v] = saved[v]
      /\ strategy \notin {"nvmetCli", "spdkCli"} => live[v] = Share

HasDatasetForShare(v) == v \notin dataset => live[v] = {} /\ saved[v] = {}

Fine(v) ==
    /\ ConfiguredWell(v) /\ NeededThingsExist(v) /\ ScriptsHaveRun(v)
    /\ ServesWhenAcked(v) /\ HasDatasetForShare(v)

\* The inductive invariant.
IInv == Types /\ \A v \in Volumes : Fine(v)

----------------------------------------------------------------------------
(* The steps of the handlers, and the lines of their scripts.              *)

\* There are five strategies.
LEMMA StrategyCases ==
  ASSUME Types
  PROVE  strategy \in {"targetCli", "nvmetCli", "spdkCli", "pcs", "setDatasetProperties"}
BY StrategiesAssumption DEF Types, Shells

\* The scripts of each.
LEMMA ScriptsAre ==
  /\ strategy = "targetCli" =>
       /\ CreateScripts = << <<"target", "extent", "lun">> >>
       /\ DeleteScripts = << <<"target", "extent">> >>
  /\ strategy = "nvmetCli" =>
       /\ CreateScripts = << <<"target", "lun", "port">> >>
       /\ DeleteScripts = << <<"port", "target">> >>
  /\ strategy = "spdkCli" =>
       /\ CreateScripts = << <<"extent", "target", "lun", "port">> >>
       /\ DeleteScripts = << <<"target", "extent">> >>
  /\ strategy = "pcs" =>
       /\ CreateScripts = << <<"target">>, <<"lun">> >>
       /\ DeleteScripts = << <<"lun">>, <<"target">> >>
  /\ strategy = "setDatasetProperties" =>
       /\ CreateScripts = << <<"share">>, <<"sharenfs">> >>
       /\ DeleteScripts = << <<"share">>, <<"sharenfs">> >>
BY DEF CreateScripts, DeleteScripts, CreateByTargetCli, CreateByNvmetCli, CreateBySpdkCli,
   CreateByPcs, SetProperties, DeleteByTargetCli, DeleteByNvmetCli, DeleteBySpdkCli,
   DeleteByPcs, InheritProperties

\* There are as many scripts to create as to delete a share.
LEMMA CountOfScripts ==
  ASSUME Types, NEW v
  PROVE  DOMAIN CreateScripts = 1..Count /\ DOMAIN DeleteScripts = 1..Count
         /\ DOMAIN Scripts(v) = 1..Count
<1>1. CASE strategy \in Shells
  <2>1. \E s, t : CreateScripts = <<s>> /\ DeleteScripts = <<t>>
    BY <1>1, ScriptsAre DEF Shells
  <2>2. QED
    BY <1>1, <2>1 DEF Count, Scripts
<1>2. CASE strategy \notin Shells
  <2>1. \E s, t, a, b : CreateScripts = <<s, t>> /\ DeleteScripts = <<a, b>>
    BY <1>2, ScriptsAre, StrategyCases DEF Shells
  <2>2. QED
    BY <1>2, <2>1 DEF Count, Scripts
<1>3. QED
  BY <1>1, <1>2

\* What makes a share.
LEMMA ShareIs ==
  /\ strategy = "targetCli" => Share = {"target", "extent", "lun"}
  /\ strategy = "nvmetCli" => Share = {"target", "lun", "port"}
  /\ strategy = "spdkCli" => Share = {"extent", "target", "lun", "port"}
  /\ strategy = "pcs" => Share = {"target", "lun"}
  /\ strategy = "setDatasetProperties" => Share = {"share", "sharenfs"}
<1>1. ASSUME NEW a, NEW b, NEW c PROVE Range(<<a, b, c>>) = {a, b, c}
  BY DEF Range
<1>2. ASSUME NEW a, NEW b, NEW c, NEW d PROVE Range(<<a, b, c, d>>) = {a, b, c, d}
  BY DEF Range
<1>3. ASSUME NEW a PROVE Range(<<a>>) = {a}
  BY DEF Range
<1>4. ASSUME NEW s, CreateScripts = <<s>> PROVE Share = Range(s)
  BY <1>4 DEF Share
<1>5. ASSUME NEW s, NEW t, CreateScripts = <<s, t>> PROVE Share = Range(s) \cup Range(t)
  BY <1>5 DEF Share
<1>6. strategy = "targetCli" => Share = {"target", "extent", "lun"}
  BY <1>1, <1>4, ScriptsAre
<1>7. strategy = "nvmetCli" => Share = {"target", "lun", "port"}
  BY <1>1, <1>4, ScriptsAre
<1>8. strategy = "spdkCli" => Share = {"extent", "target", "lun", "port"}
  BY <1>2, <1>4, ScriptsAre
<1>9. strategy = "pcs" => Share = {"target", "lun"}
  BY <1>3, <1>5, ScriptsAre
<1>10. strategy = "setDatasetProperties" => Share = {"share", "sharenfs"}
  BY <1>3, <1>5, ScriptsAre
<1>11. QED
  BY <1>6, <1>7, <1>8, <1>9, <1>10

\* The steps that are scripts.
LEMMA ScriptStepsAre ==
  ASSUME Types, NEW v
  PROVE  ScriptSteps(v) = IF Count = 1 THEN << <<"script", 1>> >>
                          ELSE << <<"script", 1>>, <<"script", 2>> >>
<1>1. CASE Count = 1
  BY <1>1, CountOfScripts DEF ScriptSteps
<1>2. CASE Count = 2
  BY <1>2, CountOfScripts DEF ScriptSteps
<1>3. QED
  BY <1>1, <1>2 DEF Count

\* The steps of createShare(), strategy by strategy.
LEMMA CreateStepsAre ==
  ASSUME Types, NEW v, Creating(v)
  PROVE  /\ DOMAIN Steps(v) = 1..Last(v)
         /\ Steps(v)[1] = <<"dataset">> /\ Steps(v)[Last(v)] = <<"reply">>
         /\ Shared => Steps(v)[Last(v) - 1] = <<"asset">>
         /\ strategy = "targetCli" =>
              /\ Steps(v)[2] = <<"wait">> /\ Steps(v)[3] = <<"script", 1>>
              /\ Steps(v)[4] = <<"verify">>
         /\ strategy # "targetCli" => Steps(v)[2] = <<"script", 1>>
         /\ strategy \notin Shells => Steps(v)[3] = <<"script", 2>>
<1>1. Steps(v) = <<<<"dataset">>>> \o When(strategy = "targetCli", <<"wait">>)
                   \o ScriptSteps(v) \o When(strategy = "targetCli", <<"verify">>)
                   \o When(Shared, <<"asset">>) \o <<<<"reply">>>>
  BY DEF Steps, CreateSteps, Shared
<1>2. CASE strategy = "targetCli"
  <2>1. Steps(v) = <<<<"dataset">>>> \o <<<<"wait">>>> \o <<<<"script", 1>>>>
                     \o <<<<"verify">>>> \o <<<<"asset">>>> \o <<<<"reply">>>>
    BY <1>1, <1>2, ScriptStepsAre DEF When, Shared, Count, Shells
  <2>2. Last(v) = 6
    BY <1>2 DEF Last
  <2>3. QED
    BY <1>2, <2>1, <2>2 DEF Shells
<1>3. CASE strategy \in {"nvmetCli", "spdkCli"}
  <2>1. Steps(v) = <<<<"dataset">>>> \o <<>> \o <<<<"script", 1>>>>
                     \o <<>> \o <<<<"asset">>>> \o <<<<"reply">>>>
    BY <1>1, <1>3, ScriptStepsAre DEF When, Shared, Count, Shells
  <2>2. Last(v) = 4
    BY <1>3 DEF Last
  <2>3. QED
    BY <1>3, <2>1, <2>2 DEF Shells
<1>4. CASE strategy = "pcs"
  <2>0. ScriptSteps(v) = << <<"script", 1>>, <<"script", 2>> >>
    BY <1>4, ScriptStepsAre DEF Count, Shells
  <2>1. Steps(v) = <<<<"dataset">>>> \o <<>> \o <<<<"script", 1>>, <<"script", 2>>>>
                     \o <<>> \o <<<<"asset">>>> \o <<<<"reply">>>>
    BY <1>1, <1>4, <2>0 DEF When, Shared
  <2>2. Last(v) = 5
    BY <1>4 DEF Last
  <2>3. QED
    BY <1>4, <2>1, <2>2
<1>5. CASE strategy = "setDatasetProperties"
  <2>0. ScriptSteps(v) = << <<"script", 1>>, <<"script", 2>> >>
    BY <1>5, ScriptStepsAre DEF Count, Shells
  <2>1. Steps(v) = <<<<"dataset">>>> \o <<>> \o <<<<"script", 1>>, <<"script", 2>>>>
                     \o <<>> \o <<>> \o <<<<"reply">>>>
    BY <1>1, <1>5, <2>0 DEF When, Shared
  <2>2. Last(v) = 4
    BY <1>5 DEF Last
  <2>3. QED
    BY <1>5, <2>1, <2>2 DEF Shared
<1>6. QED
  BY <1>2, <1>3, <1>4, <1>5, StrategyCases

\* And those of deleteShare().
LEMMA DeleteStepsAre ==
  ASSUME Types, NEW v, ~ Creating(v)
  PROVE  /\ DOMAIN Steps(v) = 1..Last(v) /\ Last(v) = Count + 3
         /\ Steps(v)[1] = <<"look">> /\ Steps(v)[2] = <<"script", 1>>
         /\ Count = 2 => Steps(v)[3] = <<"script", 2>>
         /\ Steps(v)[Count + 2] = <<"destroy">> /\ Steps(v)[Count + 3] = <<"reply">>
<1>1. Steps(v) = <<<<"look">>>> \o ScriptSteps(v) \o <<<<"destroy">>, <<"reply">>>>
  BY DEF Steps, DeleteSteps
<1>2. Last(v) = Count + 3
  BY DEF Last
<1>3. CASE Count = 1
  <2>1. Steps(v) = <<<<"look">>>> \o <<<<"script", 1>>>> \o <<<<"destroy">>, <<"reply">>>>
    BY <1>1, <1>3, ScriptStepsAre
  <2>2. QED
    BY <1>2, <1>3, <2>1
<1>4. CASE Count = 2
  <2>1. Steps(v) = <<<<"look">>>> \o <<<<"script", 1>>, <<"script", 2>>>>
                     \o <<<<"destroy">>, <<"reply">>>>
    <3>1. ScriptSteps(v) = << <<"script", 1>>, <<"script", 2>> >>
      BY <1>4, ScriptStepsAre
    <3>2. QED
      BY <1>1, <3>1
  <2>2. QED
    BY <1>2, <1>4, <2>1
<1>5. QED
  BY <1>3, <1>4 DEF Count

\* Where a handler is when it is at a step.
LEMMA CreatePlaces ==
  ASSUME Types, NEW v \in Volumes, Creating(v), at[v] # 0
  PROVE  /\ Step(v)[1] = "dataset" => at[v] = 1
         /\ Step(v)[1] = "wait" => strategy = "targetCli" /\ at[v] = 2
         /\ Step(v)[1] = "script" => AtScript(v) /\ Step(v)[2] = at[v] - FirstScript(v) + 1
         /\ Step(v)[1] = "verify" => strategy = "targetCli" /\ at[v] = 4
         /\ Step(v)[1] = "asset" => Shared /\ at[v] = Last(v) - 1
         /\ Step(v)[1] = "reply" => at[v] = Last(v)
         /\ Step(v)[1] \notin {"look", "destroy"}
<1>1. at[v] \in 1..Last(v)
  BY DEF Types, Last, Count
<1>2. CASE strategy = "targetCli"
  <2>1. at[v] \in {1, 2, 3, 4, 5, 6} /\ Last(v) = 6 /\ FirstScript(v) = 3 /\ Count = 1
    BY <1>1, <1>2 DEF Last, FirstScript, Count, Shells
  <2>2. QED
    BY <1>2, <2>1, CreateStepsAre DEF Step, AtScript, Shared
<1>3. CASE strategy \in {"nvmetCli", "spdkCli"}
  <2>1. at[v] \in {1, 2, 3, 4} /\ Last(v) = 4 /\ FirstScript(v) = 2 /\ Count = 1
    BY <1>1, <1>3 DEF Last, FirstScript, Count, Shells
  <2>2. QED
    BY <1>3, <2>1, CreateStepsAre DEF Step, AtScript, Shared
<1>4. CASE strategy = "pcs"
  <2>1. at[v] \in {1, 2, 3, 4, 5} /\ Last(v) = 5 /\ FirstScript(v) = 2 /\ Count = 2
    BY <1>1, <1>4 DEF Last, FirstScript, Count, Shells
  <2>2. QED
    BY <1>4, <2>1, CreateStepsAre DEF Step, AtScript, Shared, Shells
<1>5. CASE strategy = "setDatasetProperties"
  <2>1. at[v] \in {1, 2, 3, 4} /\ Last(v) = 4 /\ FirstScript(v) = 2 /\ Count = 2
    BY <1>1, <1>5 DEF Last, FirstScript, Count, Shells
  <2>2. QED
    BY <1>5, <2>1, CreateStepsAre DEF Step, AtScript, Shells
<1>6. QED
  BY <1>2, <1>3, <1>4, <1>5, StrategyCases

\* The same of deleteShare().
LEMMA DeletePlaces ==
  ASSUME Types, NEW v \in Volumes, ~ Creating(v), at[v] # 0
  PROVE  /\ Step(v)[1] = "look" => at[v] = 1
         /\ Step(v)[1] = "script" => AtScript(v) /\ Step(v)[2] = at[v] - FirstScript(v) + 1
         /\ Step(v)[1] = "destroy" => at[v] = Count + 2
         /\ Step(v)[1] = "reply" => at[v] = Last(v)
         /\ Step(v)[1] \notin {"dataset", "wait", "verify", "asset"}
<1>1. at[v] \in 1..(Count + 3) /\ FirstScript(v) = 2 /\ Last(v) = Count + 3
  BY DEF Types, Last, Count, FirstScript
<1>2. CASE Count = 1
  <2>1. at[v] \in {1, 2, 3, 4}
    BY <1>1, <1>2
  <2>2. QED
    BY <1>1, <1>2, <2>1, DeleteStepsAre DEF Step, AtScript
<1>3. CASE Count = 2
  <2>1. at[v] \in {1, 2, 3, 4, 5}
    BY <1>1, <1>3
  <2>2. QED
    BY <1>1, <1>3, <2>1, DeleteStepsAre DEF Step, AtScript
<1>4. QED
  BY <1>2, <1>3 DEF Count

\* The positions that handlers go to.
LEMMA Positions ==
  ASSUME Types, NEW v \in Volumes
  PROVE  /\ ~ Creating(v) => Position(v, "destroy") = Count + 2
         /\ Creating(v) /\ strategy = "targetCli" => Position(v, "script") = 3
<1>1. CASE ~ Creating(v)
  <2>1. \A i \in DOMAIN Steps(v) : Steps(v)[i][1] = "destroy" <=> i = Count + 2
    <3>1. CASE Count = 1
      <4>1. DOMAIN Steps(v) = {1, 2, 3, 4}
        <5>1. DOMAIN Steps(v) = 1..Last(v) /\ Last(v) = 4
          BY <1>1, <3>1, DeleteStepsAre
        <5>2. QED
          BY <5>1
      <4>2. QED
        BY <1>1, <3>1, <4>1, DeleteStepsAre
    <3>2. CASE Count = 2
      <4>1. DOMAIN Steps(v) = {1, 2, 3, 4, 5}
        <5>1. DOMAIN Steps(v) = 1..Last(v) /\ Last(v) = 5
          BY <1>1, <3>2, DeleteStepsAre
        <5>2. QED
          BY <5>1
      <4>2. QED
        BY <1>1, <3>2, <4>1, DeleteStepsAre
    <3>3. QED
      BY <3>1, <3>2 DEF Count
  <2>2. Count + 2 \in DOMAIN Steps(v)
    BY <1>1, DeleteStepsAre DEF Count
  <2>3. QED
    BY <1>1, <2>1, <2>2 DEF Position
<1>2. CASE Creating(v) /\ strategy = "targetCli"
  <2>1. DOMAIN Steps(v) = {1, 2, 3, 4, 5, 6} /\ Last(v) = 6
    BY <1>2, CreateStepsAre DEF Last
  <2>2. \A i \in DOMAIN Steps(v) : Steps(v)[i][1] = "script" <=> i = 3
    BY <1>2, <2>1, CreateStepsAre DEF Shared
  <2>3. QED
    BY <1>2, <2>1, <2>2 DEF Position
<1>3. QED
  BY <1>1, <1>2

----------------------------------------------------------------------------
(* What scripts do.                                                        *)

\* A script has at most four lines.
LEMMA AfterLines ==
  ASSUME NEW v, NEW script, NEW n \in 0..4, Named(v)
  PROVE  LET o1 == Line(v, live[v], script[1])
             o2 == Line(v, o1, script[2])
             o3 == Line(v, o2, script[3])
             o4 == Line(v, o3, script[4])
         IN  After(v, script, n) = IF n = 0 THEN live[v] ELSE IF n = 1 THEN o1 ELSE
               IF n = 2 THEN o2 ELSE IF n = 3 THEN o3 ELSE o4
<1> DEFINE o1 == Line(v, live[v], script[1])
           o2 == Line(v, o1, script[2])
           o3 == Line(v, o2, script[3])
           o4 == Line(v, o3, script[4])
           objs == CHOOSE f : f = [i \in 0..n |->
                     IF i = 0 THEN live[v] ELSE Line(v, f[i - 1], script[i])]
           w == [i \in 0..n |-> IF i = 0 THEN live[v] ELSE IF i = 1 THEN o1 ELSE
                   IF i = 2 THEN o2 ELSE IF i = 3 THEN o3 ELSE o4]
<1>1. After(v, script, n) = objs[n]
  BY DEF After
<1>2. w = [i \in 0..n |-> IF i = 0 THEN live[v] ELSE Line(v, w[i - 1], script[i])]
  OBVIOUS
<1>3. objs = [i \in 0..n |-> IF i = 0 THEN live[v] ELSE Line(v, objs[i - 1], script[i])]
  BY <1>2
<1> HIDE DEF objs
<1>4. QED
  BY <1>1, <1>3

\* A line makes the share's objects only, a LUN only with its target, and in a deletion
\* no object at all.
LEMMA LineEffect ==
  ASSUME NEW v, NEW objs \in SUBSET Share, NEW o,
         Creating(v) => o \in Share
  PROVE  /\ Line(v, objs, o) \in SUBSET Share
         /\ ~ Creating(v) => Line(v, objs, o) = objs \ Dependents(o)
         /\ (strategy = "targetCli" /\ ("lun" \in objs => "target" \in objs)) =>
              ("lun" \in Line(v, objs, o) => "target" \in Line(v, objs, o))
<1>1. CASE ~ Creating(v)
  <2>1. Line(v, objs, o) = objs \ Dependents(o)
    BY <1>1 DEF Line
  <2>2. strategy = "targetCli" /\ "target" \in Dependents(o) => "lun" \in Dependents(o)
    <3>1. strategy = "targetCli" /\ o = "target" => Dependents(o) = {"target", "lun", "port"}
      BY DEF Dependents, Shells
    <3>2. strategy = "targetCli" /\ o # "target" => "target" \notin Dependents(o)
      <4>1. CASE o = "extent"
        BY <4>1 DEF Dependents
      <4>2. CASE o # "extent"
        BY <4>2 DEF Dependents
      <4>3. QED
        BY <4>1, <4>2
    <3>3. QED
      BY <3>1, <3>2
  <2>3. QED
    BY <1>1, <2>1, <2>2
<1>2. CASE Creating(v)
  <2>1. Line(v, objs, o) = IF Creatable(v, objs, o) THEN objs \cup {o} ELSE objs
    BY <1>2 DEF Line
  <2>2. strategy = "targetCli" /\ o = "lun" /\ Creatable(v, objs, o) => "target" \in objs
    BY DEF Creatable, Shells
  <2>3. QED
    BY <1>2, <2>1, <2>2
<1>3. QED
  BY <1>1, <1>2

\* The script that a handler is at.
TheScript(v) == Scripts(v)[at[v] - FirstScript(v) + 1]

\* Its lines are on objects of the share.
LEMMA TheScriptIs ==
  ASSUME Types, NEW v \in Volumes, AtScript(v)
  PROVE  /\ Len(TheScript(v)) \in 1..4
         /\ Creating(v) => \A i \in 1..Len(TheScript(v)) : TheScript(v)[i] \in Share
         /\ strategy \in Shells /\ ~ Creating(v) => TheScript(v) = DeleteScripts[1]
         /\ strategy \notin Shells =>
              /\ Len(TheScript(v)) = 1
              /\ at[v] \in {2, 3}
              /\ TheScript(v) = IF Creating(v) THEN CreateScripts[at[v] - 1]
                                               ELSE DeleteScripts[at[v] - 1]
<1>1. at[v] \in Nat /\ FirstScript(v) \in {2, 3}
  BY DEF Types, FirstScript
<1>2. CASE strategy \in Shells
  <2>1. at[v] - FirstScript(v) + 1 = 1
    BY <1>1, <1>2 DEF AtScript, Count
  <2>2. TheScript(v) = IF Creating(v) THEN CreateScripts[1] ELSE DeleteScripts[1]
    BY <2>1 DEF TheScript, Scripts
  <2>3. CASE strategy = "targetCli"
    BY <1>2, <2>2, <2>3, ScriptsAre, ShareIs
  <2>4. CASE strategy = "nvmetCli"
    BY <1>2, <2>2, <2>4, ScriptsAre, ShareIs
  <2>5. CASE strategy = "spdkCli"
    BY <1>2, <2>2, <2>5, ScriptsAre, ShareIs
  <2>6. QED
    BY <1>2, <2>3, <2>4, <2>5 DEF Shells
<1>3. CASE strategy \notin Shells
  <2>1. FirstScript(v) = 2 /\ at[v] \in {2, 3}
    BY <1>1, <1>3 DEF AtScript, Count, FirstScript, Shells
  <2>2. TheScript(v) = IF Creating(v) THEN CreateScripts[at[v] - 1] ELSE DeleteScripts[at[v] - 1]
    <3>1. at[v] - FirstScript(v) + 1 = at[v] - 1
      BY <1>1, <2>1
    <3>2. QED
      BY <3>1 DEF TheScript, Scripts
  <2>3. CASE strategy = "pcs"
    BY <1>3, <2>1, <2>2, <2>3, ScriptsAre, ShareIs
  <2>4. CASE strategy = "setDatasetProperties"
    BY <1>3, <2>1, <2>2, <2>4, ScriptsAre, ShareIs
  <2>5. QED
    BY <1>3, <2>3, <2>4, StrategyCases DEF Shells
<1>4. QED
  BY <1>2, <1>3

\* What any part of it leaves.
LEMMA ScriptKeeps ==
  ASSUME Types, NEW v \in Volumes, AtScript(v), NEW n \in 0..Len(TheScript(v))
  PROVE  /\ After(v, TheScript(v), n) \in SUBSET Share
         /\ (strategy = "targetCli" /\ ("lun" \in live[v] => "target" \in live[v])) =>
              ("lun" \in After(v, TheScript(v), n) => "target" \in After(v, TheScript(v), n))
<1>1. CASE ~ Named(v)
  BY <1>1 DEF After, Types
<1>2. CASE Named(v)
  <2> DEFINE s == TheScript(v)
             Sound(objs) ==
                 /\ objs \in SUBSET Share
                 /\ strategy = "targetCli" /\ ("lun" \in live[v] => "target" \in live[v])
                      => ("lun" \in objs => "target" \in objs)
             o1 == Line(v, live[v], s[1])
             o2 == Line(v, o1, s[2])
             o3 == Line(v, o2, s[3])
             o4 == Line(v, o3, s[4])
  <2>0. n \in 0..4 /\ Len(s) \in 1..4 /\ n <= Len(s)
    <3>1. Len(s) \in 1..4
      BY TheScriptIs
    <3>2. \A k \in 1..4 : \A m \in 0..k : m \in 0..4 /\ m <= k
      OBVIOUS
    <3>3. QED
      BY <3>1, <3>2
  <2>1. Sound(live[v])
    BY DEF Types
  <2>2. ASSUME NEW objs, Sound(objs), NEW i \in 1..Len(s) PROVE Sound(Line(v, objs, s[i]))
    BY <2>2, LineEffect, TheScriptIs
  <2> HIDE DEF Sound, s
  <2>10. \A i \in 1..4 : n >= i => i \in 1..Len(s)
    BY <2>0
  <2>3. n >= 1 => Sound(o1)
    BY <2>1, <2>2, <2>10
  <2> HIDE DEF o1
  <2>4. n >= 2 => Sound(o2)
    BY <2>0, <2>2, <2>3, <2>10
  <2> HIDE DEF o2
  <2>5. n >= 3 => Sound(o3)
    BY <2>0, <2>2, <2>4, <2>10
  <2> HIDE DEF o3
  <2>6. n >= 4 => Sound(o4)
    BY <2>0, <2>2, <2>5, <2>10
  <2> HIDE DEF o4
  <2>7. After(v, s, n) = IF n = 0 THEN live[v] ELSE IF n = 1 THEN o1 ELSE
               IF n = 2 THEN o2 ELSE IF n = 3 THEN o3 ELSE o4
    BY <1>2, <2>0, AfterLines DEF o1, o2, o3, o4
  <2>8. Sound(After(v, s, n))
    BY <2>0, <2>1, <2>3, <2>4, <2>5, <2>6, <2>7
  <2>9. QED
    BY <2>8 DEF Sound, s
<1>3. QED
  BY <1>1, <1>2

\* What the whole of it does, under the right name.
LEMMA ScriptDoes ==
  ASSUME Types, NEW v \in Volumes, AtScript(v), Named(v)
  PROVE  LET s == TheScript(v) IN
         /\ strategy \in Shells /\ ~ Creating(v) => After(v, s, Len(s)) = {}
         /\ strategy \notin Shells =>
              After(v, s, Len(s)) = IF Creating(v) THEN live[v] \cup {s[1]} ELSE live[v] \ {s[1]}
<1> DEFINE s == TheScript(v)
<1>1. CASE strategy \in Shells /\ ~ Creating(v)
  <2>1. s = DeleteScripts[1] /\ live[v] \subseteq Share
    BY <1>1, TheScriptIs DEF Types
  <2>2. /\ Dependents("target") = {"target", "lun", "port"}
        /\ Dependents("extent") = {"extent", "lun"}
        /\ Dependents("port") = {"port"}
    BY <1>1 DEF Dependents
  <2>3. /\ Len(s) = 2
        /\ strategy = "nvmetCli" => s = <<"port", "target">>
        /\ strategy # "nvmetCli" => s = <<"target", "extent">>
    BY <1>1, <2>1, ScriptsAre DEF Shells
  <2>4. After(v, s, 2) = Line(v, Line(v, live[v], s[1]), s[2])
    BY <1>1, AfterLines
  <2>5. \A objs, o : Line(v, objs, o) = objs \ Dependents(o)
    BY <1>1 DEF Line
  <2>6. After(v, s, 2) = (live[v] \ Dependents(s[1])) \ Dependents(s[2])
    BY <2>4, <2>5
  <2>7. /\ live[v] \subseteq {"target", "extent", "lun", "port"}
        /\ strategy = "nvmetCli" => live[v] \subseteq {"target", "lun", "port"}
    BY <1>1, <2>1, ShareIs DEF Shells
  <2>8. After(v, s, 2) = {}
    <3>1. CASE strategy # "nvmetCli"
      <4>1. s[1] = "target" /\ s[2] = "extent"
        BY <2>3, <3>1
      <4>2. QED
        BY <2>2, <2>6, <2>7, <4>1
    <3>2. CASE strategy = "nvmetCli"
      <4>1. s[1] = "port" /\ s[2] = "target"
        BY <2>3, <3>2
      <4>2. QED
        BY <2>2, <2>6, <2>7, <3>2, <4>1
    <3>3. QED
      BY <3>1, <3>2
  <2>9. QED
    BY <1>1, <2>3, <2>8
<1>2. CASE strategy \notin Shells
  <2>1. Len(s) = 1
    BY <1>2, TheScriptIs
  <2>2. After(v, s, 1) = Line(v, live[v], s[1])
    BY AfterLines
  <2>3. Line(v, live[v], s[1]) = IF Creating(v) THEN live[v] \cup {s[1]} ELSE live[v] \ {s[1]}
    BY <1>2 DEF Line, Creatable, Dependents
  <2>4. QED
    BY <1>2, <2>1, <2>2, <2>3
<1>3. QED
  BY <1>1, <1>2

----------------------------------------------------------------------------
(* How a step moves a handler, and what it leaves of the other volumes.    *)

\* The options are given.
LEMMA OptionsStay ==
  ASSUME strategy' = strategy
  PROVE  Share' = Share /\ Count' = Count /\ Shared' = Shared
         /\ CreateScripts' = CreateScripts /\ DeleteScripts' = DeleteScripts
<1>1. CreateScripts' = CreateScripts
  BY DEF CreateScripts
<1>2. DeleteScripts' = DeleteScripts
  BY DEF DeleteScripts
<1>3. Share' = Share
  BY <1>1 DEF Share
<1>4. QED
  BY <1>1, <1>2, <1>3 DEF Count, Shared

\* The first attempt, and one more attempt, are attempts.
LEMMA Moves ==
  ASSUME Types, NEW v \in Volumes, NEW n \in Nat
  PROVE  /\ GoTo(v, n) => /\ at' = [at EXCEPT ![v] = n] /\ phase' = phase
                          /\ tries' \in [Volumes -> 1..MaxTries]
         /\ Goes(v) => /\ at' = [at EXCEPT ![v] = at[v] + 1] /\ phase' = phase
                       /\ tries' \in [Volumes -> 1..MaxTries]
         /\ Throws(v) => /\ at' = [at EXCEPT ![v] = 0] /\ phase' = phase
                         /\ tries' \in [Volumes -> 1..MaxTries]
         /\ Retries(v, n) => /\ \/ at' = [at EXCEPT ![v] = 0]
                                \/ at' = [at EXCEPT ![v] = n]
                             /\ phase' = phase /\ tries' \in [Volumes -> 1..MaxTries]
<1>1. ASSUME NEW m \in Nat, GoTo(v, m)
      PROVE  /\ at' = [at EXCEPT ![v] = m] /\ phase' = phase
             /\ tries' \in [Volumes -> 1..MaxTries]
  BY <1>1, BoundsAssumption DEF GoTo, Types
<1>2. at[v] \in Nat
  BY DEF Types
<1>3. Goes(v) => /\ at' = [at EXCEPT ![v] = at[v] + 1] /\ phase' = phase
                 /\ tries' \in [Volumes -> 1..MaxTries]
  BY <1>1, <1>2 DEF Goes, Types
<1>4. Throws(v) => /\ at' = [at EXCEPT ![v] = 0] /\ phase' = phase
                   /\ tries' \in [Volumes -> 1..MaxTries]
  BY <1>1 DEF Throws
<1>5. Retries(v, n) => /\ \/ at' = [at EXCEPT ![v] = 0]
                          \/ at' = [at EXCEPT ![v] = n]
                       /\ phase' = phase /\ tries' \in [Volumes -> 1..MaxTries]
  <2>1. CASE tries[v] >= MaxTries
    BY <1>4, <2>1 DEF Retries
  <2>2. CASE ~ (tries[v] >= MaxTries)
    BY <2>2, BoundsAssumption DEF Retries, Types
  <2>3. QED
    BY <2>1, <2>2
<1>6. QED
  BY <1>1, <1>3, <1>4, <1>5

\* A volume stays fine whose handler does not move, whatever is saved or restored.
LEMMA FineElsewhere ==
  ASSUME Types, NEW u \in Volumes, Fine(u), strategy' = strategy,
         phase'[u] = phase[u], at'[u] = at[u],
         live'[u] \in {live[u], saved[u]}, saved'[u] \in {live[u], saved[u]},
         u \in dataset' <=> u \in dataset, u \in asset' <=> u \in asset
  PROVE  Fine(u)'
<1>1. /\ Share' = Share /\ Count' = Count /\ Shared' = Shared
      /\ CreateScripts' = CreateScripts /\ DeleteScripts' = DeleteScripts
  BY OptionsStay
<1>2. /\ Creating(u)' = Creating(u) /\ FirstScript(u)' = FirstScript(u)
      /\ Last(u)' = Last(u) /\ AtScript(u)' = AtScript(u) /\ Scripted(u)' = Scripted(u)
  BY <1>1 DEF Creating, FirstScript, Last, AtScript, Scripted
<1>3. ConfiguredWell(u)'
  BY DEF Fine, ConfiguredWell
<1>4. NeededThingsExist(u)'
  BY <1>1, <1>2 DEF Fine, NeededThingsExist
<1>5. ScriptsHaveRun(u)'
  BY <1>1, <1>2 DEF Fine, ScriptsHaveRun, ConfiguredWell
<1>6. ServesWhenAcked(u)' /\ HasDatasetForShare(u)'
  BY <1>1 DEF Fine, ServesWhenAcked, HasDatasetForShare
<1>7. QED
  BY <1>3, <1>4, <1>5, <1>6 DEF Fine

\* A handler that stops leaves its volume fine if its configuration is.
LEMMA FineStopped ==
  ASSUME Types, NEW v \in Volumes, Fine(v), at[v] # 0, strategy' = strategy,
         phase'[v] = phase[v], at'[v] = 0, ConfiguredWell(v)',
         v \in dataset' <=> v \in dataset, v \in asset' <=> v \in asset,
         HasDatasetForShare(v)'
  PROVE  Fine(v)'
<1>1. phase[v] \in {"creating", "deleting"}
  BY DEF Types
<1>2. /\ Creating(v)' = Creating(v) /\ Shared' = Shared /\ Count' \in {1, 2}
      /\ FirstScript(v)' \in {2, 3} /\ Last(v)' # 0
  BY OptionsStay DEF Creating, FirstScript, Last, Count
<1>3. NeededThingsExist(v)'
  BY <1>1, <1>2 DEF NeededThingsExist, Fine, AtScript
<1>4. ScriptsHaveRun(v)' /\ ServesWhenAcked(v)'
  BY <1>1, <1>2 DEF ScriptsHaveRun, ServesWhenAcked, Scripted
<1>5. QED
  BY <1>3, <1>4 DEF Fine


\* Where the steps are changes with the phase only.
LEMMA PlacesStay ==
  ASSUME NEW v \in Volumes, strategy' = strategy, phase'[v] = phase[v]
  PROVE  /\ Creating(v)' = Creating(v) /\ FirstScript(v)' = FirstScript(v)
         /\ Count' = Count /\ Last(v)' = Last(v) /\ Shared' = Shared /\ Share' = Share
         /\ CreateScripts' = CreateScripts /\ DeleteScripts' = DeleteScripts
         /\ AtScript(v)' <=> (at'[v] \in FirstScript(v) .. (FirstScript(v) + Count - 1))
         /\ Scripted(v)' <=> (at'[v] >= FirstScript(v) + Count)
BY OptionsStay DEF Creating, FirstScript, Last, AtScript, Scripted

\* Two objects make a share that is made by two commands.
LEMMA ShareOfTwo ==
  ASSUME Types, strategy \notin Shells
  PROVE  /\ Share = {CreateScripts[1][1], CreateScripts[2][1]}
         /\ Share = {DeleteScripts[1][1], DeleteScripts[2][1]}
<1>1. CASE strategy = "pcs"
  BY <1>1, ScriptsAre, ShareIs
<1>2. CASE strategy = "setDatasetProperties"
  BY <1>2, ScriptsAre, ShareIs
<1>3. QED
  BY <1>1, <1>2, StrategyCases DEF Shells

\* The types of a step that moves one handler, within its phase.
LEMMA TypesAfterMove ==
  ASSUME Types, NEW v \in Volumes, NEW n \in Nat, n <= Last(v), at[v] # 0,
         UNCHANGED options, phase' = phase, at' = [at EXCEPT ![v] = n],
         tries' \in [Volumes -> 1..MaxTries],
         live' \in [Volumes -> SUBSET Share], saved' \in [Volumes -> SUBSET Share],
         dataset' \subseteq Volumes, device' \subseteq dataset', asset' \subseteq dataset',
         faults' \in 0..MaxFaults, reboots' \in 0..MaxReboots
  PROVE  Types'
<1>1. strategy' = strategy /\ templated' = templated
  BY DEF options
<1>2. Share' = Share
  BY <1>1, OptionsStay
<1>3. \A u \in Volumes : Last(u)' = Last(u)
  BY <1>1, PlacesStay
<1>4. at' \in [Volumes -> Nat] /\ \A u \in Volumes : at'[u] = IF u = v THEN n ELSE at[u]
  BY DEF Types
<1>5. \A u \in Volumes : at'[u] <= Last(u)
  BY <1>4 DEF Types
<1>6. \A u \in Volumes : at'[u] # 0 => phase[u] \in {"creating", "deleting"}
  BY <1>4 DEF Types
<1>7. QED
  BY <1>1, <1>2, <1>3, <1>4, <1>5, <1>6 DEF Types

\* What a step leaves of the other volumes is enough for them.
LEMMA OthersAreFine ==
  ASSUME IInv, NEW v \in Volumes, UNCHANGED options, Types', Fine(v)',
         \A u \in Volumes \ {v} :
            /\ phase'[u] = phase[u] /\ at'[u] = at[u]
            /\ live'[u] = live[u] /\ saved'[u] \in {live[u], saved[u]}
            /\ u \in dataset' <=> u \in dataset
            /\ u \in asset' <=> u \in asset
  PROVE  IInv'
<1>1. \A u \in Volumes \ {v} : Fine(u)'
  BY FineElsewhere DEF IInv, options
<1>2. QED
  BY <1>1 DEF IInv

----------------------------------------------------------------------------
(* The steps, one by one.                                                  *)

\* A call begins.
LEMMA StartKeeps ==
  ASSUME IInv, NEW v \in Volumes, Start(v)
  PROVE  IInv'
<1>1. /\ Types /\ Fine(v) /\ at[v] = 0 /\ at'[v] = 1 /\ phase'[v] = Asks(v)
      /\ phase[v] \in {"new", "creating", "kept", "deleting"}
      /\ phase'[v] \in {"creating", "deleting"}
      /\ strategy' = strategy /\ dataset' = dataset /\ asset' = asset
      /\ live' = live /\ saved' = saved
  BY DEF IInv, Start, Types, Phases, Asks, options, pool, config
<1>2. /\ Share' = Share /\ Count' = Count /\ Shared' = Shared /\ Count \in {1, 2}
      /\ FirstScript(v)' \in {2, 3} /\ Last(v)' >= 4
  BY <1>1, OptionsStay DEF FirstScript, Last, Count
<1>3. Types'
  <2>1. \A u \in Volumes \ {v} : Last(u)' = Last(u) /\ at'[u] = at[u] /\ phase'[u] = phase[u]
    BY <1>1, PlacesStay DEF Start, Types
  <2>2. \A u \in Volumes : at'[u] <= Last(u)'
    BY <1>1, <1>2, <2>1 DEF Types, Last
  <2>3. \A u \in Volumes : at'[u] # 0 => phase'[u] \in {"creating", "deleting"}
    BY <1>1, <2>1 DEF Types
  <2>4. /\ phase' \in [Volumes -> Phases] /\ at' \in [Volumes -> Nat]
        /\ tries' \in [Volumes -> 1..MaxTries]
    BY <1>1, BoundsAssumption DEF Start, Types, Phases
  <2>5. QED
    BY <1>1, <1>2, <2>2, <2>3, <2>4 DEF Types, Start, options, pool, bounds
<1>4. NeededThingsExist(v)'
  BY <1>1, <1>2 DEF NeededThingsExist, Fine, Creating, AtScript, Asks
<1>5. ScriptsHaveRun(v)' /\ ServesWhenAcked(v)'
  BY <1>1, <1>2 DEF ScriptsHaveRun, ServesWhenAcked, Creating, Scripted
<1>6. ConfiguredWell(v)' /\ HasDatasetForShare(v)'
  BY <1>1 DEF Fine, ConfiguredWell, HasDatasetForShare
<1>7. \A u \in Volumes \ {v} : phase'[u] = phase[u] /\ at'[u] = at[u]
  BY <1>1 DEF Start, Types
<1>8. QED
  BY <1>1, <1>3, <1>4, <1>5, <1>6, <1>7, OthersAreFine DEF Fine, Start

\* The answer is sent: what was made is the share, and what was deleted is gone.
LEMMA ReplyKeeps ==
  ASSUME IInv, NEW v \in Volumes, Reply(v)
  PROVE  IInv'
<1>1. /\ Types /\ Fine(v) /\ at[v] # 0 /\ at'[v] = 0
      /\ phase[v] \in {"creating", "deleting"}
      /\ phase'[v] = IF Creating(v) THEN "kept" ELSE "gone"
      /\ UNCHANGED options /\ strategy' = strategy
      /\ dataset' = dataset /\ asset' = asset /\ live' = live /\ saved' = saved
  BY DEF IInv, Reply, On, Types, options, pool, config
<1>2. at[v] = Last(v) /\ (~ Creating(v) => phase[v] = "deleting")
  BY <1>1, CreatePlaces, DeletePlaces DEF Reply, On, Creating
<1>3. /\ Share' = Share /\ Count' = Count /\ Shared' = Shared /\ Count \in {1, 2}
      /\ FirstScript(v)' \in {2, 3} /\ Last(v)' >= 4
  BY <1>1, OptionsStay DEF FirstScript, Last, Count
<1>4. Types'
  <2>1. \A u \in Volumes \ {v} : Last(u)' = Last(u) /\ at'[u] = at[u] /\ phase'[u] = phase[u]
    BY <1>1, PlacesStay DEF Reply, Types
  <2>2. \A u \in Volumes : at'[u] <= Last(u)'
    BY <1>1, <1>3, <2>1 DEF Types, Last
  <2>3. \A u \in Volumes : at'[u] # 0 => phase'[u] \in {"creating", "deleting"}
    BY <1>1, <2>1 DEF Types
  <2>4. phase' \in [Volumes -> Phases] /\ at' \in [Volumes -> Nat]
    BY <1>1 DEF Reply, Types, Phases
  <2>5. QED
    BY <1>1, <1>3, <2>2, <2>3, <2>4 DEF Types, Reply, options, pool, bounds
<1>5. ConfiguredWell(v)' /\ HasDatasetForShare(v)'
  BY <1>1 DEF Fine, ConfiguredWell, HasDatasetForShare
<1>6. NeededThingsExist(v)' /\ ScriptsHaveRun(v)' /\ ServesWhenAcked(v)'
  <2>1. CASE Creating(v)
    <3>1. Last(v) > 1 /\ Scripted(v) /\ (strategy = "targetCli" => Last(v) = 6)
      BY <1>2, <2>1 DEF Last, Scripted, FirstScript, Count, Shells
    <3>2. v \in dataset /\ (Shared => v \in asset)
      BY <1>1, <1>2, <2>1, <3>1 DEF Fine, NeededThingsExist
    <3>3. /\ live[v] = saved[v]
          /\ strategy \notin {"nvmetCli", "spdkCli"} => live[v] = Share
      BY <1>1, <1>2, <2>1, <3>1 DEF Fine, ScriptsHaveRun, Shells
    <3>4. NeededThingsExist(v)' /\ ScriptsHaveRun(v)'
      BY <1>1, <1>3, <2>1, <3>2
         DEF NeededThingsExist, ScriptsHaveRun, Creating, AtScript, Scripted
    <3>5. ServesWhenAcked(v)'
      BY <1>1, <1>3, <3>3 DEF ServesWhenAcked
    <3>6. QED
      BY <3>4, <3>5
  <2>2. CASE ~ Creating(v)
    BY <1>1, <1>3, <2>2
       DEF NeededThingsExist, ScriptsHaveRun, ServesWhenAcked, Creating, AtScript, Scripted
  <2>3. QED
    BY <2>1, <2>2
<1>7. \A u \in Volumes \ {v} : phase'[u] = phase[u] /\ at'[u] = at[u]
  BY <1>1 DEF Reply, Types
<1>8. Fine(v)'
  BY <1>5, <1>6 DEF Fine
<1>9. QED
  BY <1>1, <1>4, <1>7, <1>8, OthersAreFine

\* The dataset is there from the first step on.
LEMMA CreateDatasetKeeps ==
  ASSUME IInv, NEW v \in Volumes, CreateDataset(v)
  PROVE  IInv'
<1>1. /\ Types /\ Fine(v) /\ at[v] # 0 /\ phase' = phase
      /\ at' = [at EXCEPT ![v] = at[v] + 1] /\ tries' \in [Volumes -> 1..MaxTries]
      /\ UNCHANGED options /\ strategy' = strategy
      /\ dataset' = dataset \cup {v} /\ device' = device /\ asset' = asset
      /\ live' = live /\ saved' = saved
  BY Moves DEF IInv, CreateDataset, On, options, config
<1>2. Creating(v) /\ at[v] = 1
  BY <1>1, CreatePlaces, DeletePlaces DEF CreateDataset, On
<1>3. Last(v) \in 4..6 /\ at'[v] = 2 /\ phase[v] = "creating"
  BY <1>1, <1>2 DEF Last, Types, Creating
<1>4. Types'
  <2>1. at' = [at EXCEPT ![v] = 2] /\ 2 <= Last(v)
    BY <1>1, <1>2, <1>3
  <2>2. faults' = faults /\ reboots' = reboots
    BY DEF CreateDataset, bounds
  <2>3. QED
    BY <1>1, <2>1, <2>2, TypesAfterMove DEF Types
<1>5. Fine(v)'
  <2>1. ConfiguredWell(v)' /\ ServesWhenAcked(v)' /\ HasDatasetForShare(v)'
    BY <1>1, <1>3, OptionsStay
       DEF Fine, ConfiguredWell, ServesWhenAcked, HasDatasetForShare
  <2>2. NeededThingsExist(v)'
    BY <1>1, <1>2, <1>3, PlacesStay DEF NeededThingsExist
  <2>3. ScriptsHaveRun(v)'
    <3>1. FirstScript(v) + Count \in 3..5
      BY DEF FirstScript, Count
    <3>2. ~ Scripted(v)'
      BY <1>1, <1>3, <3>1, PlacesStay
    <3>3. QED
      BY <1>3, <3>2, OptionsStay DEF ScriptsHaveRun
  <2>4. QED
    BY <2>1, <2>2, <2>3 DEF Fine
<1>6. \A u \in Volumes \ {v} : at'[u] = at[u]
  BY <1>1 DEF Types
<1>7. QED
  BY <1>1, <1>4, <1>5, <1>6, OthersAreFine

\* A command fails, or its answer is lost.
LEMMA FailKeeps ==
  ASSUME IInv, NEW v \in Volumes, Fail(v)
  PROVE  IInv'
<1>1. /\ Types /\ Fine(v) /\ at[v] # 0 /\ phase' = phase
      /\ at' = [at EXCEPT ![v] = 0] /\ tries' \in [Volumes -> 1..MaxTries]
      /\ UNCHANGED options /\ strategy' = strategy
      /\ dataset' = dataset /\ device' = device /\ asset' = asset
      /\ live' = live /\ saved' = saved
  BY Moves DEF IInv, Fail, options, config, pool
<1>2. Last(v) \in Nat /\ 0 <= Last(v)
  BY DEF Last, Count
<1>3. Types'
  <2>1. faults' \in 0..MaxFaults /\ reboots' \in 0..MaxReboots
    BY <1>1, BoundsAssumption DEF Fail, Types
  <2>2. QED
    BY <1>1, <1>2, <2>1, TypesAfterMove DEF Types
<1>4. ConfiguredWell(v)' /\ HasDatasetForShare(v)'
  BY <1>1 DEF Fine, ConfiguredWell, HasDatasetForShare
<1>5. at'[v] = 0 /\ \A u \in Volumes \ {v} : at'[u] = at[u]
  BY <1>1 DEF Types
<1>6. Fine(v)'
  BY <1>1, <1>4, <1>5, FineStopped
<1>7. QED
  BY <1>1, <1>3, <1>5, <1>6, OthersAreFine

\* The device is there, or the attempt is given up.
LEMMA WaitForDeviceKeeps ==
  ASSUME IInv, NEW v \in Volumes, WaitForDevice(v)
  PROVE  IInv'
<1>1. /\ Types /\ Fine(v) /\ at[v] # 0 /\ phase' = phase
      /\ \/ at' = [at EXCEPT ![v] = 0]
         \/ at' = [at EXCEPT ![v] = at[v] + 1]
      /\ tries' \in [Volumes -> 1..MaxTries]
      /\ UNCHANGED options /\ strategy' = strategy
      /\ dataset' = dataset /\ device' = device /\ asset' = asset
      /\ live' = live /\ saved' = saved
  BY Moves DEF IInv, WaitForDevice, On, options, config, pool
<1>2. Creating(v) /\ at[v] = 2 /\ strategy = "targetCli"
  BY <1>1, CreatePlaces, DeletePlaces DEF WaitForDevice, On
<1>3. Last(v) = 6 /\ at'[v] \in {0, 3} /\ phase[v] = "creating"
  BY <1>1, <1>2 DEF Last, Types, Creating
<1>4. Types'
  BY <1>1, <1>2, <1>3, TypesAfterMove DEF WaitForDevice, bounds, Types
<1>5. ConfiguredWell(v)' /\ ServesWhenAcked(v)' /\ HasDatasetForShare(v)'
  BY <1>1, <1>3, OptionsStay
     DEF Fine, ConfiguredWell, ServesWhenAcked, HasDatasetForShare
<1>6. Fine(v)'
  <2>1. NeededThingsExist(v)'
    BY <1>1, <1>2, <1>3, PlacesStay DEF Fine, NeededThingsExist
  <2>2. ScriptsHaveRun(v)'
    <3>1. FirstScript(v) + Count = 4 /\ strategy \in Shells
      BY <1>2 DEF FirstScript, Count, Shells
    <3>2. ~ Scripted(v)' /\ (strategy \in Shells)'
      BY <1>1, <1>3, <3>1, PlacesStay
    <3>3. QED
      BY <3>2 DEF ScriptsHaveRun
  <2>3. QED
    BY <1>5, <2>1, <2>2 DEF Fine
<1>7. \A u \in Volumes \ {v} : at'[u] = at[u]
  BY <1>1 DEF Types
<1>8. QED
  BY <1>1, <1>4, <1>6, <1>7, OthersAreFine

\* The name is kept with the dataset.
LEMMA SetAssetKeeps ==
  ASSUME IInv, NEW v \in Volumes, SetAsset(v)
  PROVE  IInv'
<1>1. /\ Types /\ Fine(v) /\ at[v] # 0 /\ phase' = phase
      /\ at' = [at EXCEPT ![v] = at[v] + 1] /\ tries' \in [Volumes -> 1..MaxTries]
      /\ UNCHANGED options /\ strategy' = strategy
      /\ dataset' = dataset /\ device' = device /\ asset' = asset \cup {v}
      /\ live' = live /\ saved' = saved
  BY Moves DEF IInv, SetAsset, On, options, config
<1>2. Creating(v) /\ at[v] = Last(v) - 1 /\ Shared
  BY <1>1, CreatePlaces, DeletePlaces DEF SetAsset, On
<1>3. /\ Last(v) \in 4..6 /\ at'[v] = Last(v) /\ phase[v] = "creating"
      /\ FirstScript(v) + Count = IF strategy = "nvmetCli" \/ strategy = "spdkCli" THEN 3 ELSE 4
      /\ strategy = "targetCli" => Last(v) = 6
      /\ strategy = "pcs" => Last(v) = 5
  BY <1>1, <1>2, StrategyCases DEF Last, Types, Creating, FirstScript, Count, Shells, Shared
<1>4. v \in dataset
  BY <1>1, <1>2, <1>3 DEF Fine, NeededThingsExist
<1>5. Types'
  <2>1. at[v] + 1 = Last(v) /\ Last(v) <= Last(v) /\ Last(v) \in Nat
    BY <1>2, <1>3
  <2>2. faults' = faults /\ reboots' = reboots
    BY DEF SetAsset, bounds
  <2>3. QED
    BY <1>1, <1>4, <2>1, <2>2, TypesAfterMove DEF Types
<1>6. ConfiguredWell(v)' /\ ServesWhenAcked(v)' /\ HasDatasetForShare(v)'
  BY <1>1, <1>3, OptionsStay
     DEF Fine, ConfiguredWell, ServesWhenAcked, HasDatasetForShare
<1>7. Fine(v)'
  <2>1. NeededThingsExist(v)'
    BY <1>1, <1>2, <1>3, <1>4, PlacesStay DEF Fine, NeededThingsExist
  <2>2. Scripted(v) /\ (strategy = "targetCli" => at[v] >= 5)
    BY <1>2, <1>3, StrategyCases, <1>1 DEF Scripted, Shared, Last
  <2>3. ScriptsHaveRun(v)'
    <3>1. /\ live[v] = saved[v] /\ (strategy \notin Shells => live[v] = Share)
          /\ strategy = "targetCli" => live[v] = Share
      BY <1>1, <1>2, <2>2 DEF Fine, ScriptsHaveRun
    <3>2. at'[v] # 3 /\ Creating(v)' /\ phase'[v] # "deleting" /\ Share' = Share
      BY <1>1, <1>3, PlacesStay DEF Creating
    <3>3. QED
      BY <1>1, <3>1, <3>2 DEF ScriptsHaveRun
  <2>4. QED
    BY <1>6, <2>1, <2>3 DEF Fine
<1>8. \A u \in Volumes \ {v} : at'[u] = at[u]
  BY <1>1 DEF Types
<1>9. QED
  BY <1>1, <1>5, <1>7, <1>8, OthersAreFine

\* Without a dataset nothing is left to delete; with one the scripts begin.
LEMMA LookUpKeeps ==
  ASSUME IInv, NEW v \in Volumes, LookUp(v)
  PROVE  IInv'
<1>1. /\ Types /\ Fine(v) /\ at[v] # 0 /\ UNCHANGED options /\ strategy' = strategy
      /\ dataset' = dataset /\ device' = device /\ asset' = asset
      /\ live' = live /\ saved' = saved /\ faults' = faults /\ reboots' = reboots
  BY DEF IInv, LookUp, On, options, config, pool, bounds
<1>2. ~ Creating(v) /\ at[v] = 1 /\ phase[v] = "deleting"
  BY <1>1, CreatePlaces, DeletePlaces DEF LookUp, On, Creating, Types
<1>3. Count \in {1, 2} /\ FirstScript(v) = 2 /\ Last(v) = Count + 3
  BY <1>2 DEF Count, FirstScript, Last
<1>4. PICK n \in {2, Count + 2} :
        /\ n = IF v \in dataset THEN 2 ELSE Count + 2
        /\ at' = [at EXCEPT ![v] = n] /\ phase' = phase
        /\ tries' \in [Volumes -> 1..MaxTries]
  <2>1. Position(v, "destroy") = Count + 2 /\ Count + 2 \in Nat /\ at[v] + 1 = 2
    BY <1>1, <1>2, <1>3, Positions
  <2>2. CASE v \in dataset
    BY <1>1, <2>1, <2>2, Moves DEF LookUp
  <2>3. CASE v \notin dataset
    BY <1>1, <2>1, <2>3, Moves DEF LookUp
  <2>4. QED
    BY <2>2, <2>3
<1>5. /\ at'[v] = n /\ n \in Nat /\ n <= Last(v) /\ n # Last(v) /\ n # 0
      /\ \A u \in Volumes \ {v} : at'[u] = at[u]
  BY <1>1, <1>3, <1>4 DEF Types
<1>6. Types'
  BY <1>1, <1>4, <1>5, TypesAfterMove DEF Types
<1>7. ConfiguredWell(v)' /\ ServesWhenAcked(v)' /\ HasDatasetForShare(v)'
  BY <1>1, <1>2, <1>4 DEF Fine, ConfiguredWell, ServesWhenAcked, HasDatasetForShare
<1>8. /\ ~ Creating(v)' /\ Shared' = Shared /\ Last(v)' = Last(v)
      /\ AtScript(v)' => (n = 2 \/ (n = 3 /\ Count = 2))
      /\ Scripted(v)' <=> n >= Count + 2
      /\ DeleteScripts' = DeleteScripts
  <2>1. /\ ~ Creating(v)' /\ Shared' = Shared /\ Last(v)' = Last(v)
        /\ DeleteScripts' = DeleteScripts
    BY <1>1, <1>2, <1>4, PlacesStay
  <2>2. AtScript(v)' <=> n \in 2 .. (2 + Count - 1)
    BY <1>1, <1>3, <1>4, <1>5, PlacesStay
  <2>3. Scripted(v)' <=> n >= 2 + Count
    BY <1>1, <1>3, <1>4, <1>5, PlacesStay
  <2>4. CASE Count = 1
    <3>1. n \in {2, 3} /\ 2 .. (2 + Count - 1) = {2}
      BY <2>4
    <3>2. QED
      BY <2>1, <2>2, <2>3, <2>4, <3>1
  <2>5. CASE Count = 2
    <3>1. n \in {2, 4} /\ 2 .. (2 + Count - 1) = {2, 3}
      BY <2>5
    <3>2. QED
      BY <2>1, <2>2, <2>3, <2>5, <3>1
  <2>6. QED
    BY <1>3, <2>4, <2>5
<1>9. NeededThingsExist(v)'
  <2>1. AtScript(v)' => v \in dataset
    BY <1>3, <1>4, <1>8
  <2>2. Shared /\ v \in dataset => v \in asset
    BY <1>1, <1>2 DEF Fine, NeededThingsExist
  <2>3. QED
    BY <1>1, <1>2, <1>4, <1>5, <1>8, <2>1, <2>2 DEF NeededThingsExist
<1>10. ScriptsHaveRun(v)'
  <2>1. Scripted(v)' => v \notin dataset
    BY <1>3, <1>4, <1>8
  <2>2. n = 3 => v \notin dataset
    BY <1>3, <1>4
  <2>3. v \notin dataset => live[v] = {} /\ saved[v] = {}
    BY <1>1 DEF Fine, HasDatasetForShare
  <2>4. QED
    BY <1>1, <1>4, <1>5, <1>8, <2>1, <2>2, <2>3 DEF ScriptsHaveRun
<1>11. Fine(v)'
  BY <1>7, <1>9, <1>10 DEF Fine
<1>12. QED
  BY <1>1, <1>4, <1>5, <1>6, <1>11, OthersAreFine

\* The scripts have removed the share, here and in what was saved, so that its dataset can
\* go.
LEMMA DestroyKeeps ==
  ASSUME IInv, NEW v \in Volumes, Destroy(v)
  PROVE  IInv'
<1>1. /\ Types /\ Fine(v) /\ at[v] # 0 /\ UNCHANGED options /\ strategy' = strategy
      /\ live' = live /\ saved' = saved /\ faults' = faults /\ reboots' = reboots
  BY DEF IInv, Destroy, On, options, config, bounds
<1>2. ~ Creating(v) /\ at[v] = Count + 2 /\ phase[v] = "deleting"
  BY <1>1, CreatePlaces, DeletePlaces DEF Destroy, On, Creating, Types
<1>3. Count \in {1, 2} /\ FirstScript(v) = 2 /\ Last(v) = Count + 3
  BY <1>2 DEF Count, FirstScript, Last
<1>4. live[v] = {} /\ saved[v] = {}
  BY <1>1, <1>2, <1>3 DEF Fine, ScriptsHaveRun, Scripted
<1>5. /\ dataset' = dataset \ {v} /\ device' = device \ {v} /\ asset' = asset \ {v}
      /\ at' = [at EXCEPT ![v] = Count + 3] /\ phase' = phase
      /\ tries' \in [Volumes -> 1..MaxTries]
  <2>1. ~ Busy(v)
    BY <1>4 DEF Busy
  <2>2. at[v] + 1 = Count + 3
    BY <1>2, <1>3
  <2>3. QED
    BY <1>1, <2>1, <2>2, Moves DEF Destroy
<1>6. /\ at'[v] = Count + 3 /\ Count + 3 \in Nat /\ Count + 3 <= Last(v)
      /\ \A u \in Volumes \ {v} : at'[u] = at[u]
  BY <1>1, <1>3, <1>5 DEF Types
<1>7. Types'
  BY <1>1, <1>5, <1>6, TypesAfterMove DEF Types
<1>8. ConfiguredWell(v)' /\ ServesWhenAcked(v)' /\ HasDatasetForShare(v)'
  BY <1>1, <1>2, <1>4, <1>5 DEF Fine, ConfiguredWell, ServesWhenAcked, HasDatasetForShare
<1>9. /\ ~ Creating(v)' /\ ~ AtScript(v)' /\ at'[v] # 3 /\ v \notin dataset'
  BY <1>1, <1>2, <1>3, <1>5, <1>6, PlacesStay
<1>10. NeededThingsExist(v)' /\ ScriptsHaveRun(v)'
  BY <1>1, <1>2, <1>4, <1>5, <1>9 DEF NeededThingsExist, ScriptsHaveRun
<1>11. Fine(v)'
  BY <1>8, <1>10 DEF Fine
<1>12. QED
  BY <1>1, <1>5, <1>6, <1>7, <1>11, OthersAreFine

\* A new device changes nothing of a share.
LEMMA UdevKeeps ==
  ASSUME IInv, NEW v \in Volumes, Udev(v)
  PROVE  IInv'
<1>1. /\ strategy' = strategy /\ templated' = templated /\ phase' = phase /\ at' = at
      /\ tries' = tries /\ dataset' = dataset /\ asset' = asset /\ live' = live
      /\ saved' = saved /\ faults' = faults /\ reboots' = reboots
      /\ device' = device \cup {v} /\ v \in dataset
  BY DEF Udev, options, handlers, config, bounds
<1>2. Types'
  <2>1. Share' = Share /\ \A u \in Volumes : Last(u)' = Last(u)
    BY <1>1, PlacesStay, OptionsStay
  <2>2. QED
    BY <1>1, <2>1 DEF IInv, Types
<1>3. \A u \in Volumes : Fine(u)'
  BY <1>1, FineElsewhere DEF IInv
<1>4. QED
  BY <1>2, <1>3 DEF IInv

\* What was saved last is as good as what is lost.
LEMMA RebootKeeps ==
  ASSUME IInv, Reboot
  PROVE  IInv'
<1>1. /\ strategy' = strategy /\ templated' = templated /\ phase' = phase /\ at' = at
      /\ tries' = tries /\ dataset' = dataset /\ asset' = asset /\ live' = saved
      /\ saved' = saved /\ faults' = faults /\ device' = {}
      /\ reboots' = reboots + 1 /\ reboots < MaxReboots
  BY DEF Reboot, options, handlers
<1>2. Types'
  <2>1. Share' = Share /\ \A u \in Volumes : Last(u)' = Last(u)
    BY <1>1, PlacesStay, OptionsStay
  <2>2. reboots' \in 0..MaxReboots
    BY <1>1, BoundsAssumption DEF IInv, Types
  <2>3. QED
    BY <1>1, <2>1, <2>2 DEF IInv, Types
<1>3. \A u \in Volumes : Fine(u)'
  BY <1>1, FineElsewhere DEF IInv
<1>4. QED
  BY <1>2, <1>3 DEF IInv

\* A shell of its own has seen the LUN, and has saved what it saw.
LEMMA VerifyKeeps ==
  ASSUME IInv, NEW v \in Volumes, Verify(v)
  PROVE  IInv'
<1>1. /\ Types /\ Fine(v) /\ at[v] # 0 /\ UNCHANGED options /\ strategy' = strategy
      /\ dataset' = dataset /\ device' = device /\ asset' = asset
      /\ live' = live /\ saved' = live /\ faults' = faults /\ reboots' = reboots
  BY DEF IInv, Verify, On, options, pool, bounds
<1>2. Creating(v) /\ at[v] = 4 /\ strategy = "targetCli" /\ phase[v] = "creating"
  BY <1>1, CreatePlaces, DeletePlaces DEF Verify, On, Creating
<1>3. Last(v) = 6 /\ FirstScript(v) = 3 /\ Count = 1 /\ strategy \in Shells /\ Shared
  BY <1>2 DEF Last, FirstScript, Count, Shells, Shared
<1>4. PICK n \in {0, 3, 5} :
        /\ at' = [at EXCEPT ![v] = n] /\ phase' = phase
        /\ tries' \in [Volumes -> 1..MaxTries]
        /\ n = 5 => Verified(v)
  <2>1. Position(v, "script") = 3 /\ 3 \in Nat /\ at[v] + 1 = 5
    BY <1>1, <1>2, Positions
  <2>2. CASE Verified(v)
    BY <1>1, <2>1, <2>2, Moves DEF Verify
  <2>3. CASE ~ Verified(v)
    BY <1>1, <2>1, <2>3, Moves DEF Verify
  <2>4. QED
    BY <2>2, <2>3
<1>5. /\ at'[v] = n /\ n \in Nat /\ n <= Last(v)
      /\ \A u \in Volumes \ {v} : at'[u] = at[u]
  BY <1>1, <1>3, <1>4 DEF Types
<1>6. Types'
  BY <1>1, <1>4, <1>5, TypesAfterMove DEF Types
<1>7. ConfiguredWell(v)' /\ ServesWhenAcked(v)' /\ HasDatasetForShare(v)'
  BY <1>1, <1>2, <1>4 DEF Fine, ConfiguredWell, ServesWhenAcked, HasDatasetForShare
<1>8. NeededThingsExist(v)'
  <2>1. v \in dataset
    BY <1>1, <1>2 DEF Fine, NeededThingsExist
  <2>2. Creating(v)' /\ Last(v)' = 6 /\ phase'[v] = "creating"
    BY <1>1, <1>2, <1>3, <1>4, PlacesStay
  <2>3. QED
    BY <1>1, <1>5, <2>1, <2>2 DEF NeededThingsExist
<1>9. ScriptsHaveRun(v)'
  <2>1. n = 5 => live[v] = Share
    <3>1. "lun" \in live[v] => "target" \in live[v]
      BY <1>1, <1>2 DEF Fine, ConfiguredWell
    <3>2. live[v] \subseteq Share /\ Share = {"target", "extent", "lun"}
      BY <1>1, <1>2, ShareIs DEF Types
    <3>3. QED
      BY <1>4, <3>1, <3>2 DEF Verified
  <2>2. Creating(v)' /\ phase'[v] # "deleting" /\ Share' = Share
    BY <1>1, <1>2, <1>4, PlacesStay
  <2>3. Scripted(v)' => n = 5
    <3>1. Scripted(v)' <=> n >= 3 + 1
      BY <1>1, <1>3, <1>4, <1>5, PlacesStay
    <3>2. QED
      BY <1>4, <3>1
  <2>4. QED
    BY <1>1, <1>3, <1>5, <2>1, <2>2, <2>3 DEF ScriptsHaveRun
<1>10. Fine(v)'
  BY <1>7, <1>8, <1>9 DEF Fine
<1>11. QED
  BY <1>1, <1>4, <1>5, <1>6, <1>10, OthersAreFine

----------------------------------------------------------------------------
(* Scripts, whole or cut.                                                  *)

\* A handler that is at a script has its dataset, and the right name for the target.
LEMMA AtAScript ==
  ASSUME IInv, NEW v \in Volumes, On(v, "script")
  PROVE  /\ AtScript(v) /\ at[v] # 0 /\ ~ Scripted(v)
         /\ phase[v] \in {"creating", "deleting"}
         /\ Scripts(v)[Step(v)[2]] = TheScript(v)
         /\ FirstScript(v) \in {2, 3} /\ Count \in {1, 2} /\ at[v] \in Nat /\ at[v] > 1
         /\ v \in dataset /\ Named(v)
<1>1. Types /\ Fine(v) /\ at[v] # 0
  BY DEF IInv, On
<1>2. AtScript(v) /\ Step(v)[2] = at[v] - FirstScript(v) + 1
  BY <1>1, CreatePlaces, DeletePlaces DEF On
<1>3. /\ FirstScript(v) \in {2, 3} /\ Count \in {1, 2} /\ at[v] \in Nat
      /\ phase[v] \in {"creating", "deleting"}
  BY <1>1 DEF FirstScript, Count, Types
<1>4. at[v] > 1 /\ ~ Scripted(v)
  BY <1>2, <1>3 DEF AtScript, Scripted
<1>5. v \in dataset
  BY <1>1, <1>2, <1>4 DEF Fine, NeededThingsExist
<1>6. Named(v)
  BY <1>1, <1>3, <1>5 DEF Fine, NeededThingsExist, Named, Shared, Creating
<1>7. QED
  BY <1>1, <1>2, <1>3, <1>4, <1>5, <1>6 DEF TheScript

\* What a script, or a part of it, makes of the configuration.
LEMMA RunLeaves ==
  ASSUME IInv, NEW v \in Volumes, AtScript(v), NEW n \in 0..Len(TheScript(v)),
         Run(v, TheScript(v), n), strategy' = strategy
  PROVE  /\ live' \in [Volumes -> SUBSET Share] /\ saved' \in [Volumes -> SUBSET Share]
         /\ live'[v] = After(v, TheScript(v), n)
         /\ n = Len(TheScript(v)) => saved'[v] = live'[v]
         /\ ConfiguredWell(v)'
         /\ \A u \in Volumes \ {v} : live'[u] = live[u] /\ saved'[u] \in {live[u], saved[u]}
<1> DEFINE a == After(v, TheScript(v), n)
<1>1. /\ Types /\ Fine(v) /\ a \in SUBSET Share
      /\ (strategy = "targetCli" /\ ("lun" \in live[v] => "target" \in live[v]))
           => ("lun" \in a => "target" \in a)
  BY ScriptKeeps DEF IInv
<1>2. /\ live' = [live EXCEPT ![v] = a]
      /\ saved' = IF Saves(v, n = Len(TheScript(v))) THEN live' ELSE saved
  BY DEF Run
<1> HIDE DEF a
<1>3. /\ live' \in [Volumes -> SUBSET Share] /\ saved' \in [Volumes -> SUBSET Share]
      /\ live'[v] = a /\ saved'[v] \in {live'[v], saved[v]}
      /\ \A u \in Volumes \ {v} : live'[u] = live[u] /\ saved'[u] \in {live[u], saved[u]}
  BY <1>1, <1>2 DEF Types
<1>4. /\ n = Len(TheScript(v)) => saved'[v] = live'[v]
      /\ strategy \notin Shells => saved'[v] = live'[v]
  BY <1>2 DEF Saves
<1>5. ConfiguredWell(v)'
  BY <1>1, <1>3, <1>4 DEF Fine, ConfiguredWell
<1>6. QED
  BY <1>3, <1>4, <1>5 DEF a

\* What a whole script leaves to the steps after it.
LEMMA WholeScript ==
  ASSUME IInv, NEW v \in Volumes, On(v, "script"),
         Run(v, TheScript(v), Len(TheScript(v))), UNCHANGED options,
         phase'[v] = phase[v], at'[v] = at[v] + 1
  PROVE  ScriptsHaveRun(v)'
<1> DEFINE s == TheScript(v)
<1>1. /\ Types /\ Fine(v) /\ AtScript(v) /\ Named(v) /\ strategy' = strategy
      /\ phase[v] \in {"creating", "deleting"}
      /\ FirstScript(v) \in {2, 3} /\ Count \in {1, 2} /\ at[v] \in Nat
  BY AtAScript DEF IInv, options
<1>2. Len(s) \in 0..Len(s) /\ live[v] \subseteq Share
  BY <1>1, TheScriptIs DEF Types
<1>3. live'[v] = After(v, s, Len(s)) /\ saved'[v] = live'[v]
  BY <1>1, <1>2, RunLeaves
<1>4. /\ Creating(v)' <=> Creating(v)
      /\ Share' = Share /\ CreateScripts' = CreateScripts /\ DeleteScripts' = DeleteScripts
      /\ Scripted(v)' <=> at[v] + 1 >= FirstScript(v) + Count
  BY <1>1, PlacesStay
<1>5. CASE strategy \in Shells /\ Creating(v)
  <2>1. at'[v] < 5
    BY <1>1, <1>5 DEF AtScript, Count
  <2>2. QED
    BY <1>1, <1>3, <1>4, <1>5, <2>1 DEF ScriptsHaveRun, Creating
<1>6. CASE strategy \in Shells /\ ~ Creating(v)
  <2>1. live'[v] = {}
    BY <1>1, <1>3, <1>6, ScriptDoes
  <2>2. QED
    BY <1>1, <1>3, <1>4, <1>6, <2>1 DEF ScriptsHaveRun
<1>7. CASE strategy \notin Shells
  <2>1. /\ at[v] \in {2, 3}
        /\ s = IF Creating(v) THEN CreateScripts[at[v] - 1] ELSE DeleteScripts[at[v] - 1]
        /\ live'[v] = IF Creating(v) THEN live[v] \cup {s[1]} ELSE live[v] \ {s[1]}
    BY <1>1, <1>3, <1>7, TheScriptIs, ScriptDoes
  <2>2. FirstScript(v) = 2 /\ Count = 2 /\ strategy # "targetCli"
    BY <1>7 DEF FirstScript, Count, Shells
  <2>3. CASE at[v] = 2
    <3>1. ~ Scripted(v)' /\ at'[v] = 3
      BY <1>4, <2>2, <2>3
    <3>2. CASE Creating(v)
      <4>1. CreateScripts[1][1] \in live'[v]
        BY <2>1, <2>3, <3>2
      <4>2. QED
        BY <1>4, <3>1, <3>2, <4>1 DEF ScriptsHaveRun
    <3>3. CASE ~ Creating(v)
      <4>1. DeleteScripts[1][1] \notin live'[v]
        BY <2>1, <2>3, <3>3
      <4>2. QED
        BY <1>4, <3>1, <3>3, <4>1 DEF ScriptsHaveRun
    <3>4. QED
      BY <3>2, <3>3
  <2>4. CASE at[v] = 3
    <3>1. /\ at'[v] # 3
          /\ Creating(v) => CreateScripts[1][1] \in live[v]
          /\ ~ Creating(v) => DeleteScripts[1][1] \notin live[v]
      BY <1>1, <1>7, <2>4 DEF Fine, ScriptsHaveRun
    <3>2. Creating(v) => live'[v] = Share
      <4>1. SUFFICES ASSUME Creating(v) PROVE live'[v] = Share
        OBVIOUS
      <4>2. live'[v] = live[v] \cup {CreateScripts[2][1]}
        BY <2>1, <2>4, <4>1
      <4>3. QED
        BY <1>1, <1>2, <1>7, <3>1, <4>1, <4>2, ShareOfTwo
    <3>3. ~ Creating(v) => live'[v] = {}
      <4>1. SUFFICES ASSUME ~ Creating(v) PROVE live'[v] = {}
        OBVIOUS
      <4>2. live'[v] = live[v] \ {DeleteScripts[2][1]}
        BY <2>1, <2>4, <4>1
      <4>3. QED
        BY <1>1, <1>2, <1>7, <3>1, <4>1, <4>2, ShareOfTwo
    <3>4. phase'[v] = "deleting" => ~ Creating(v)
      BY <1>1 DEF Creating
    <3>5. QED
      BY <1>1, <1>3, <1>4, <2>2, <3>1, <3>2, <3>3, <3>4 DEF ScriptsHaveRun
  <2>5. QED
    BY <2>1, <2>3, <2>4
<1>8. QED
  BY <1>5, <1>6, <1>7

\* A script that runs to its end.
LEMMA RunScriptKeeps ==
  ASSUME IInv, NEW v \in Volumes, RunScript(v)
  PROVE  IInv'
<1> DEFINE s == TheScript(v)
<1>1. /\ Types /\ Fine(v) /\ On(v, "script") /\ UNCHANGED options /\ strategy' = strategy
      /\ dataset' = dataset /\ device' = device /\ asset' = asset
      /\ faults' = faults /\ reboots' = reboots
  BY DEF IInv, RunScript, options, pool, bounds
<1>2. /\ AtScript(v) /\ at[v] # 0 /\ phase[v] \in {"creating", "deleting"}
      /\ Scripts(v)[Step(v)[2]] = s /\ ~ Scripted(v)
      /\ FirstScript(v) \in {2, 3} /\ Count \in {1, 2} /\ at[v] \in Nat /\ at[v] > 1
      /\ v \in dataset
  BY <1>1, AtAScript
<1>3. at[v] + 1 <= Last(v) /\ (Shared \/ ~ Creating(v) => at[v] + 1 # Last(v))
  BY <1>1, <1>2, StrategyCases DEF AtScript, Last, FirstScript, Count, Shared, Shells
<1>4. CASE Throws(v) /\ UNCHANGED config
  <2>1. /\ at' = [at EXCEPT ![v] = 0] /\ phase' = phase
        /\ tries' \in [Volumes -> 1..MaxTries] /\ live' = live /\ saved' = saved
    BY <1>1, <1>4, Moves DEF config
  <2>2. at'[v] = 0 /\ (\A u \in Volumes \ {v} : at'[u] = at[u]) /\ 0 <= Last(v)
    BY <1>2, <1>3, <2>1, <1>1 DEF Types, Last
  <2>3. Types'
    BY <1>1, <1>2, <2>1, <2>2, TypesAfterMove DEF Types
  <2>4. ConfiguredWell(v)' /\ HasDatasetForShare(v)'
    BY <1>1, <2>1 DEF Fine, ConfiguredWell, HasDatasetForShare
  <2>5. Fine(v)'
    BY <1>1, <1>2, <2>1, <2>2, <2>4, FineStopped
  <2>6. QED
    BY <1>1, <2>1, <2>2, <2>3, <2>5, OthersAreFine
<1>5. CASE Run(v, s, Len(s)) /\ Goes(v)
  <2>1. /\ at' = [at EXCEPT ![v] = at[v] + 1] /\ phase' = phase
        /\ tries' \in [Volumes -> 1..MaxTries]
    BY <1>1, <1>5, Moves
  <2>2. /\ at'[v] = at[v] + 1 /\ \A u \in Volumes \ {v} : at'[u] = at[u]
    BY <1>1, <2>1 DEF Types
  <2>3. Len(s) \in 0..Len(s)
    BY <1>1, <1>2, TheScriptIs
  <2>4. /\ live' \in [Volumes -> SUBSET Share] /\ saved' \in [Volumes -> SUBSET Share]
        /\ ConfiguredWell(v)'
        /\ \A u \in Volumes \ {v} : live'[u] = live[u] /\ saved'[u] \in {live[u], saved[u]}
    BY <1>1, <1>2, <1>5, <2>3, RunLeaves
  <2>5. Types'
    <3>1. at[v] + 1 \in Nat /\ at[v] + 1 <= Last(v)
      BY <1>2, <1>3
    <3>2. QED
      BY <1>1, <1>2, <2>1, <2>4, <3>1, TypesAfterMove DEF Types
  <2>6. ScriptsHaveRun(v)'
    BY <1>1, <1>5, <2>1, <2>2, WholeScript
  <2>7. HasDatasetForShare(v)' /\ ServesWhenAcked(v)'
    BY <1>1, <1>2, <2>1 DEF HasDatasetForShare, ServesWhenAcked
  <2>8. NeededThingsExist(v)'
    <3>1. /\ Creating(v)' <=> Creating(v)
          /\ Last(v)' = Last(v) /\ Shared' = Shared
      BY <1>1, <2>1, PlacesStay
    <3>2. phase[v] = "deleting" /\ Shared => v \in asset
      BY <1>1, <1>2 DEF Fine, NeededThingsExist
    <3>3. QED
      BY <1>1, <1>2, <1>3, <2>1, <2>2, <3>1, <3>2 DEF NeededThingsExist
  <2>9. Fine(v)'
    BY <2>4, <2>6, <2>7, <2>8 DEF Fine
  <2>10. QED
    BY <1>1, <2>1, <2>2, <2>4, <2>5, <2>9, OthersAreFine
<1>6. QED
  BY <1>2, <1>4, <1>5 DEF RunScript

\* A script that is cut short: what it leaves is made again, or deleted again.
LEMMA CutScriptKeeps ==
  ASSUME IInv, NEW v \in Volumes, CutScript(v)
  PROVE  IInv'
<1> DEFINE s == TheScript(v)
<1>1. /\ Types /\ Fine(v) /\ On(v, "script") /\ UNCHANGED options /\ strategy' = strategy
      /\ dataset' = dataset /\ device' = device /\ asset' = asset
      /\ faults < MaxFaults /\ faults' = faults + 1 /\ reboots' = reboots
  BY DEF IInv, CutScript, options, pool
<1>2. /\ AtScript(v) /\ at[v] # 0 /\ phase[v] \in {"creating", "deleting"}
      /\ Scripts(v)[Step(v)[2]] = s /\ ~ Scripted(v)
      /\ at[v] \in Nat /\ at[v] <= Last(v) /\ v \in dataset /\ Named(v)
  BY <1>1, AtAScript DEF Types
<1>3. PICK n \in 0..Len(s) : Run(v, s, n)
  BY <1>2 DEF CutScript
<1>4. /\ live' \in [Volumes -> SUBSET Share] /\ saved' \in [Volumes -> SUBSET Share]
      /\ live'[v] = After(v, s, n) /\ ConfiguredWell(v)'
      /\ \A u \in Volumes \ {v} : live'[u] = live[u] /\ saved'[u] \in {live[u], saved[u]}
  BY <1>1, <1>2, <1>3, RunLeaves
<1>5. PICK m \in {0, at[v]} :
        /\ at' = [at EXCEPT ![v] = m] /\ phase' = phase
        /\ tries' \in [Volumes -> 1..MaxTries]
  BY <1>1, <1>2, Moves DEF CutScript
<1>6. /\ at'[v] = m /\ m \in Nat /\ m <= Last(v)
      /\ \A u \in Volumes \ {v} : at'[u] = at[u]
  <2>1. at \in [Volumes -> Nat]
    BY <1>1 DEF Types
  <2>2. Last(v) \in Nat
    BY DEF Last, Count
  <2>3. m \in Nat /\ m <= Last(v)
    BY <1>2, <1>5, <2>2
  <2>4. QED
    BY <1>5, <2>1, <2>3
<1>7. Types'
  <2>1. faults' \in 0..MaxFaults /\ reboots' \in 0..MaxReboots
    BY <1>1, BoundsAssumption DEF Types
  <2>2. QED
    BY <1>1, <1>2, <1>4, <1>5, <1>6, <2>1, TypesAfterMove DEF Types
<1>8. HasDatasetForShare(v)' /\ ServesWhenAcked(v)'
  BY <1>1, <1>2, <1>5 DEF HasDatasetForShare, ServesWhenAcked
<1>9. Fine(v)'
  <2>1. CASE m = 0
    BY <1>1, <1>2, <1>4, <1>5, <1>6, <1>8, <2>1, FineStopped
  <2>2. CASE m = at[v]
    <3>1. /\ Creating(v)' <=> Creating(v)
          /\ Last(v)' = Last(v) /\ Shared' = Shared /\ Share' = Share
          /\ CreateScripts' = CreateScripts /\ DeleteScripts' = DeleteScripts
          /\ AtScript(v)' <=> AtScript(v)
          /\ Scripted(v)' <=> Scripted(v)
      BY <1>1, <1>5, <1>6, <2>2, PlacesStay DEF AtScript, Scripted
    <3>2. NeededThingsExist(v)'
      BY <1>1, <1>5, <1>6, <2>2, <3>1 DEF Fine, NeededThingsExist
    <3>3. strategy \notin Shells =>
            live'[v] \in {live[v], IF Creating(v) THEN live[v] \cup {s[1]} ELSE live[v] \ {s[1]}}
      <4>1. SUFFICES ASSUME strategy \notin Shells
                     PROVE  live'[v] \in {live[v], IF Creating(v) THEN live[v] \cup {s[1]}
                                                                 ELSE live[v] \ {s[1]}}
        OBVIOUS
      <4>2. Len(s) = 1
        BY <1>1, <1>2, <4>1, TheScriptIs
      <4>3. CASE n = 0
        <5>1. After(v, s, 0) = live[v]
          BY <1>2, AfterLines
        <5>2. QED
          BY <1>4, <4>3, <5>1
      <4>4. CASE n = Len(s)
        BY <1>1, <1>2, <1>4, <4>1, <4>4, ScriptDoes
      <4>5. QED
        BY <4>2, <4>3, <4>4
    <3>4. ScriptsHaveRun(v)'
      BY <1>1, <1>2, <1>6, <2>2, <3>1, <3>3 DEF Fine, ScriptsHaveRun
    <3>5. QED
      BY <1>4, <1>8, <3>2, <3>4 DEF Fine
  <2>3. QED
    BY <2>1, <2>2
<1>10. QED
  BY <1>1, <1>4, <1>5, <1>6, <1>7, <1>9, OthersAreFine

----------------------------------------------------------------------------
(* The theorems.                                                           *)

\* Nothing is there before the first call.
LEMMA InitIInv == Init => IInv
<1>1. SUFFICES ASSUME Init PROVE IInv
  OBVIOUS
<1>2. Types
  BY <1>1, BoundsAssumption DEF Init, Types, Phases, Last, Count
<1>3. ASSUME NEW v \in Volumes PROVE Fine(v)
  <2>1. at[v] = 0 /\ phase[v] = "new" /\ live[v] = {} /\ saved[v] = {}
    BY <1>1 DEF Init
  <2>2. ConfiguredWell(v) /\ ServesWhenAcked(v) /\ HasDatasetForShare(v)
    BY <2>1 DEF ConfiguredWell, ServesWhenAcked, HasDatasetForShare
  <2>3. FirstScript(v) \in {2, 3} /\ Last(v) \in 4..6
    BY <2>1 DEF FirstScript, Last, Count
  <2>4. NeededThingsExist(v) /\ ScriptsHaveRun(v)
    BY <2>1, <2>3 DEF NeededThingsExist, ScriptsHaveRun, Creating, AtScript
  <2>5. QED
    BY <2>2, <2>4 DEF Fine
<1>4. QED
  BY <1>2, <1>3 DEF IInv

\* No step breaks the invariant.
LEMMA NextIInv == IInv /\ [Next]_vars => IInv'
<1>1. SUFFICES ASSUME IInv, [Next]_vars PROVE IInv'
  OBVIOUS
<1>2. CASE UNCHANGED vars
  <2>1. /\ strategy' = strategy /\ templated' = templated /\ phase' = phase /\ at' = at
        /\ tries' = tries /\ dataset' = dataset /\ device' = device /\ asset' = asset
        /\ live' = live /\ saved' = saved /\ faults' = faults /\ reboots' = reboots
    BY <1>2 DEF vars, options, handlers, pool, config, bounds
  <2>2. Types'
    <3>1. Share' = Share /\ \A u \in Volumes : Last(u)' = Last(u)
      BY <2>1, PlacesStay, OptionsStay
    <3>2. QED
      BY <1>1, <2>1, <3>1 DEF IInv, Types
  <2>3. \A u \in Volumes : Fine(u)'
    BY <1>1, <2>1, FineElsewhere DEF IInv
  <2>4. QED
    BY <2>2, <2>3 DEF IInv
<1>3. ASSUME NEW v \in Volumes, Start(v) PROVE IInv'
  BY <1>1, <1>3, StartKeeps
<1>4. ASSUME NEW v \in Volumes, Handle(v) PROVE IInv'
  BY <1>1, <1>4, CreateDatasetKeeps, WaitForDeviceKeeps, RunScriptKeeps, VerifyKeeps,
     SetAssetKeeps, LookUpKeeps, DestroyKeeps, ReplyKeeps DEF Handle
<1>5. ASSUME NEW v \in Volumes, CutScript(v) PROVE IInv'
  BY <1>1, <1>5, CutScriptKeeps
<1>6. ASSUME NEW v \in Volumes, Fail(v) PROVE IInv'
  BY <1>1, <1>6, FailKeeps
<1>7. ASSUME NEW v \in Volumes, Udev(v) PROVE IInv'
  BY <1>1, <1>7, UdevKeeps
<1>8. CASE Reboot
  BY <1>1, <1>8, RebootKeeps
<1>9. CASE Quiet
  BY <1>2, <1>9 DEF Quiet
<1>10. QED
  BY <1>1, <1>2, <1>3, <1>4, <1>5, <1>6, <1>7, <1>8, <1>9 DEF Next

\* The invariant holds in every reachable state, for any number of volumes, attempts, faults
\* and reboots.
THEOREM Inductive == Spec => []IInv
BY InitIInv, NextIInv, PTL DEF Spec

\* Types: a handler never leaves its steps.
THEOREM TypeCorrect == Spec => []TypeOK
<1>1. IInv => TypeOK
  <2>1. SUFFICES ASSUME IInv PROVE TypeOK
    OBVIOUS
  <2>2. Types
    BY <2>1 DEF IInv
  <2>3. Share \subseteq Objects
    BY <2>2, ShareIs, StrategyCases DEF Objects
  <2>4. ASSUME NEW v \in Volumes PROVE at[v] \in {0} \cup DOMAIN Steps(v)
    <3>1. DOMAIN Steps(v) = 1..Last(v) /\ Last(v) \in Nat
      BY <2>2, CreateStepsAre, DeleteStepsAre DEF Last, Count
    <3>2. at[v] \in Nat /\ at[v] <= Last(v)
      BY <2>2 DEF Types
    <3>3. QED
      BY <3>1, <3>2
  <2>5. QED
    BY <2>2, <2>3, <2>4 DEF Types, TypeOK
<1>2. QED
  BY <1>1, Inductive, PTL

\* The share of a volume that CreateVolume has answered OK for is what a restart of the
\* storage server brings back, and whole where the driver looks or makes its objects one by
\* one, however often shells exit 0 on scripts that failed.
THEOREM AcksServe == Spec => []AckedSharesServe
<1>1. IInv => AckedSharesServe
  BY DEF IInv, Fine, ServesWhenAcked, AckedSharesServe
<1>2. QED
  BY <1>1, Inductive, PTL

\* deleteShare() leaves nothing behind when the dataset goes, in the running or in the saved
\* configuration: it always names the target right, and no script that is cut is the last.
THEOREM SharesNeedDatasets == Spec => []SharesHaveDatasets
<1>1. IInv => SharesHaveDatasets
  BY DEF IInv, Fine, HasDatasetForShare, SharesHaveDatasets
<1>2. QED
  BY <1>1, Inductive, PTL
=============================================================================
