-------------------------- MODULE ClientController --------------------------
(***************************************************************************)
(* The controller service of the client drivers (nfs, smb, lustre and      *)
(* local-hostpath: driver/controller-client-common).  A volume is a        *)
(* directory; a copy is made by rsync ("filecopy") or through a restic or  *)
(* kopia repository (utils/restic.js, utils/kopia.js).                     *)
(*                                                                         *)
(* The snapshot driver is a parameter of CreateSnapshot and part of the    *)
(* snapshot id, so all three may be in use at once.  A directory, and a    *)
(* snapshot of a repository, holds files; a file's data is the number of   *)
(* times it has been written.  Copying commands go file by file, with      *)
(* failures and other handlers in between; the file-system calls between   *)
(* two commands are synchronous in the code and one step here.             *)
(*                                                                         *)
(* The container orchestrator (CO) sends a call again until it is          *)
(* answered OK, and names neither a volume nor a snapshot again after      *)
(* asking for its deletion.                                                *)
(***************************************************************************)
EXTENDS Naturals, FiniteSetsExt

CONSTANTS
    Requests,       \* the CO's requests
    Plans,          \* the assignments of calls to requests to consider
    Volumes, Names, \* volume ids, snapshot names
    Files,
    Writable,       \* the volumes whose files are written while they are in use
    MaxWrites,      \* bound: writes to files in a behaviour
    MaxFaults,      \* bound: failed commands and restarts in a behaviour
    MaxUnnoticed    \* bound: failures of commands that are taken for success

Methods == {"CreateVolume", "DeleteVolume", "CreateSnapshot", "DeleteSnapshot"}

Drivers == {"filecopy", "restic", "kopia"}

\* The source of a new volume is a volume, or the snapshot that a request has
\* created; for DeleteSnapshot it is the snapshot to delete.
Sources == {<<"none">>} \cup ({"volume"} \X Volumes) \cup ({"snapshot"} \X Requests)

Call == [method : Methods, volume : Volumes, name : Names, driver : Drivers,
         source : Sources]

\* A volume is asked for in one request, a snapshot always in the same words;
\* the source of a snapshot is its volume.
WellFormed(plan) ==
    \A q, r \in Requests :
        /\ /\ plan[q].method = "CreateVolume" /\ plan[r].method = "CreateVolume"
           /\ plan[q].volume = plan[r].volume
           => q = r
        /\ /\ plan[q].method = "CreateSnapshot" /\ plan[r].method = "CreateSnapshot"
           /\ plan[q].volume = plan[r].volume /\ plan[q].name = plan[r].name
           /\ plan[q].driver = plan[r].driver
           => plan[q] = plan[r]
        /\ plan[r].method = "CreateSnapshot" => plan[r].source = <<"none">>
        /\ plan[r].method = "DeleteSnapshot" => plan[r].source[1] = "snapshot"

ASSUME PlansAssumption ==
    Plans \subseteq [Requests -> Call] /\ \A plan \in Plans : WellFormed(plan)
ASSUME NamesAssumption == "none" \notin Names
ASSUME WritableAssumption == Writable \subseteq Volumes
ASSUME BoundsAssumption ==
    MaxWrites \in Nat /\ MaxFaults \in Nat /\ MaxUnnoticed \in Nat

VARIABLES
    call,       \* call[r]: what request r asks for
    pc,         \* pc[r]: the next step of r's handler
    todo,       \* todo[r]: the files r's command has yet to copy
    buf,        \* buf[r]: the files r's backup has read
    sid,        \* sid[r]: the snapshot id CreateSnapshot has found or made
    dir,        \* the directories on the share, and the files in them
    repo,       \* the snapshots in the restic and kopia repositories
    lastId,     \* the last snapshot id a repository has given out
    since,      \* since[r]: the files to copy when r was first sent (ghost)
    unnoticed,  \* the requests with a failure taken for success (ghost)
    writes, faults

locals == <<todo, buf, sid>>
storage == <<dir, repo, lastId>>
bounds == <<writes, faults>>
vars == <<call, pc, locals, storage, since, unnoticed, bounds>>

----------------------------------------------------------------------------
(* Names, contents and ids.                                                *)

NoId == <<"none">>
NoName == "none"
NoFiles == [f \in {} |-> 0]

VolumePath(v) == <<"v", v>>
SnapshotPath(v, n) == <<"s", v, n>>

Paths == {VolumePath(v) : v \in Volumes}
           \cup {SnapshotPath(v, n) : v \in Volumes, n \in Names}

\* Adding or replacing an element of a function.
With(fn, x, val) == [y \in DOMAIN fn \cup {x} |-> IF y = x THEN val ELSE fn[y]]
Without(fn, x) == [y \in DOMAIN fn \ {x} |-> fn[y]]

\* A snapshot id: a path, or a driver and an id in its repository.
IdOf(c) == <<"filecopy", SnapshotPath(c.volume, c.name)>>

InRepo(id) == {s \in repo : <<s.driver, s.id>> = id}

SnapshotExists(id) == IF id[1] = "filecopy" THEN id[2] \in DOMAIN dir ELSE InRepo(id) # {}

SnapshotFiles(id) ==
    IF id[1] = "filecopy" THEN dir[id[2]] ELSE (CHOOSE s \in InRepo(id) : TRUE).files

Is(r, method) == call[r].method = method
Sent(r) == pc[r] # "idle"
Running(r) == pc[r] \notin {"idle", "pending", "done"}
Unfinished(r) == pc[r] \notin {"idle", "done"}
On(r, step) == pc[r] = step

Copies(r) ==
    \/ Is(r, "CreateSnapshot")
    \/ Is(r, "CreateVolume") /\ call[r].source[1] # "none"

\* What r copies.
SourceExists(r) ==
    LET c == call[r] IN
    CASE Is(r, "CreateSnapshot")   -> VolumePath(c.volume) \in DOMAIN dir
      [] c.source[1] = "volume"    -> VolumePath(c.source[2]) \in DOMAIN dir
      [] c.source[1] = "snapshot"  -> SnapshotExists(sid[c.source[2]])
      [] OTHER                     -> FALSE

SourceFiles(r) ==
    LET c == call[r] IN
    CASE Is(r, "CreateSnapshot")   -> dir[VolumePath(c.volume)]
      [] c.source[1] = "volume"    -> dir[VolumePath(c.source[2])]
      [] c.source[1] = "snapshot"  -> SnapshotFiles(sid[c.source[2]])

\* How r copies: the driver of the snapshot that is made or restored.
Driver(r) ==
    LET c == call[r] IN
    CASE Is(r, "CreateSnapshot")  -> c.driver
      [] c.source[1] = "snapshot" -> sid[c.source[2]][1]
      [] OTHER                    -> "filecopy"

----------------------------------------------------------------------------
(* The lock's keys, and what the CO sends.                                 *)

\* Mutant: snapshots are created without a lock.
KeysOfVolumes(r) ==
    LET c == call[r] IN
    CASE Is(r, "CreateVolume")   -> {<<"create_volume_name", c.volume>>}
      [] Is(r, "CreateSnapshot") -> {}
      [] Is(r, "DeleteVolume")   -> {<<"volume_id", c.volume>>}
      [] Is(r, "DeleteSnapshot") -> {<<"snapshot_id", sid[c.source[2]]>>}

Keys(r) ==
    LET c == call[r] IN
    CASE Is(r, "CreateVolume")   -> {<<"create_volume_name", c.volume>>}
      [] Is(r, "CreateSnapshot") -> {<<"create_snapshot_name", c.name>>, <<"volume_id", c.volume>>}
      [] Is(r, "DeleteVolume")   -> {<<"volume_id", c.volume>>}
      [] Is(r, "DeleteSnapshot") -> {<<"snapshot_id", sid[c.source[2]]>>}

Locked(r) == \E q \in Requests \ {r} : Running(q) /\ Keys(q) \cap Keys(r) # {}

Done(r) == pc[r] = "done"

\* The CO was answered OK, and has not asked for the deletion since.
OwnsVolume(v) ==
    /\ \E r \in Requests : Is(r, "CreateVolume") /\ call[r].volume = v /\ Done(r)
    /\ \A r \in Requests : Is(r, "DeleteVolume") /\ call[r].volume = v => ~ Sent(r)

SameSnapshot(q, r) ==
    /\ Is(q, "CreateSnapshot") /\ Is(r, "CreateSnapshot")
    /\ call[q] = call[r]

OwnsSnapshot(q) ==
    /\ Is(q, "CreateSnapshot") /\ Done(q)
    /\ \A r \in Requests :
         Is(r, "DeleteSnapshot") /\ SameSnapshot(call[r].source[2], q) => ~ Sent(r)

OwnsSource(r) ==
    LET c == call[r] IN
    CASE Is(r, "CreateSnapshot")  -> OwnsVolume(c.volume)
      [] c.source[1] = "volume"   -> OwnsVolume(c.source[2])
      [] c.source[1] = "snapshot" -> OwnsSnapshot(c.source[2])
      [] OTHER                    -> TRUE

MaySend(r) ==
    LET c == call[r] IN
    /\ OwnsSource(r)
    /\ Is(r, "DeleteVolume") => OwnsVolume(c.volume)
    /\ \A q \in Requests :
         /\ Is(r, "DeleteVolume") /\ Is(q, "CreateVolume") /\ call[q].volume = c.volume
              => ~ Unfinished(q)
         /\ Is(r, "CreateVolume") /\ Is(q, "DeleteVolume") /\ call[q].volume = c.volume
              => ~ Sent(q)
         /\ Is(r, "DeleteSnapshot") /\ SameSnapshot(q, c.source[2]) => ~ Unfinished(q)
         /\ Is(r, "CreateSnapshot") /\ Is(q, "DeleteSnapshot")
              /\ SameSnapshot(r, call[q].source[2]) => ~ Sent(q)

----------------------------------------------------------------------------
Init ==
    /\ call \in Plans
    /\ pc = [r \in Requests |-> "idle"]
    /\ todo = [r \in Requests |-> {}]
    /\ buf = [r \in Requests |-> NoFiles]
    /\ sid = [r \in Requests |-> NoId]
    /\ dir = [p \in {} |-> NoFiles]
    /\ repo = {} /\ lastId = 0
    /\ since = [r \in Requests |-> NoFiles]
    /\ unnoticed = {}
    /\ writes = 0 /\ faults = 0

\* Mutant: a snapshot is not searched for first.
FirstStepCuts(r) ==
    CASE Is(r, "CreateVolume")   -> "mkdir"
      [] Is(r, "CreateSnapshot") -> "cut"
      [] OTHER                   -> "remove"

FirstStep(r) ==
    CASE Is(r, "CreateVolume")   -> "mkdir"
      [] Is(r, "CreateSnapshot") -> "search"
      [] OTHER                   -> "remove"

\* The CO sends r, and the proxy runs its handler when its keys are free.
Start(r) ==
    /\ \/ pc[r] = "pending"
       \/ pc[r] = "idle" /\ MaySend(r)
    /\ ~ Locked(r)
    /\ pc' = [pc EXCEPT ![r] = FirstStep(r)]
    /\ since' = IF Sent(r) \/ ~ Copies(r) THEN since
                ELSE [since EXCEPT ![r] = SourceFiles(r)]
    /\ UNCHANGED <<call, locals, storage, unnoticed, bounds>>

Go(r, step) == pc' = [pc EXCEPT ![r] = step] /\ UNCHANGED <<call, since, bounds>>

\* The handlers of rs come to nothing; what they knew is gone.
Throws(rs) ==
    /\ pc' = [r \in Requests |-> IF r \in rs THEN "pending" ELSE pc[r]]
    /\ todo' = [r \in Requests |-> IF r \in rs THEN {} ELSE todo[r]]
    /\ buf' = [r \in Requests |-> IF r \in rs THEN NoFiles ELSE buf[r]]
    /\ sid' = [r \in Requests |-> IF r \in rs THEN NoId ELSE sid[r]]

\* r's handler throws (an error of some code), and its client will send r
\* again.
Throw(r) == Throws({r}) /\ UNCHANGED <<call, since, bounds>>

----------------------------------------------------------------------------
(* Copying.                                                                *)

Dest(r) == IF Is(r, "CreateVolume") THEN VolumePath(call[r].volume)
                                    ELSE SnapshotPath(call[r].volume, call[r].name)

ToRepo(r) == Is(r, "CreateSnapshot") /\ call[r].driver # "filecopy"

\* createDir() leaves a directory that exists as it is.
Made(p) == IF p \in DOMAIN dir THEN dir ELSE With(dir, p, NoFiles)

\* The command reads, and writes unless it is a backup, one more file.
CopyFile(r) ==
    /\ On(r, "copy") /\ SourceExists(r)
    /\ \E f \in todo[r] :
         LET data == SourceFiles(r)[f] IN
         /\ todo' = [todo EXCEPT ![r] = @ \ {f}]
         /\ IF ToRepo(r)
              THEN buf' = [buf EXCEPT ![r] = With(@, f, data)] /\ UNCHANGED dir
              ELSE dir' = [dir EXCEPT ![Dest(r)] = With(@, f, data)] /\ UNCHANGED buf
    /\ UNCHANGED <<call, pc, sid, repo, lastId, since, unnoticed, bounds>>

\* The source is deleted under the command.  kopia's restore takes a snapshot
\* that does not exist (any more) for restored.
SourceVanishes(r) ==
    /\ On(r, "copy") /\ todo[r] # {} /\ ~ SourceExists(r)
    /\ IF Is(r, "CreateVolume") /\ Driver(r) = "kopia"
         THEN /\ Go(r, "reply")
              /\ unnoticed' = unnoticed \cup {r}
              /\ todo' = [todo EXCEPT ![r] = {}]
              /\ UNCHANGED <<buf, sid>>
         ELSE Throw(r) /\ UNCHANGED unnoticed
    /\ UNCHANGED storage

\* A command that has not copied everything is taken for one that has: rsync
\* when a signal kills it (exec() has no exit code then), restic's restore
\* when it has counted every error as ignored.
Unnoticed(r) ==
    /\ On(r, "copy") /\ todo[r] # {}
    /\ \/ Driver(r) = "filecopy"
       \/ Driver(r) = "restic" /\ Is(r, "CreateVolume")
    /\ Cardinality(unnoticed) < MaxUnnoticed
    /\ unnoticed' = unnoticed \cup {r}
    /\ todo' = [todo EXCEPT ![r] = {}]
    /\ UNCHANGED <<call, pc, buf, sid, storage, since, bounds>>

Copied(r) == On(r, "copy") /\ todo[r] = {}

\* Start the command that copies the source.
Command(r) ==
    /\ Go(r, "copy")
    /\ todo' = [todo EXCEPT ![r] = DOMAIN SourceFiles(r)]
    /\ UNCHANGED <<buf, sid>>

----------------------------------------------------------------------------
(* CreateVolume and DeleteVolume.                                          *)

\* Mutant: a directory that exists is a volume that has been created.
MakeDirOnce(r) ==
    /\ On(r, "mkdir")
    /\ dir' = Made(Dest(r))
    /\ IF Dest(r) \in DOMAIN dir THEN Go(r, "reply") /\ UNCHANGED locals
       ELSE IF ~ Copies(r)       THEN Go(r, "reply") /\ UNCHANGED locals
       ELSE IF ~ SourceExists(r) THEN Throw(r)
       ELSE Command(r)
    /\ unnoticed' = unnoticed \ {r}
    /\ UNCHANGED <<repo, lastId>>

\* Mutant: a directory that exists belongs to another volume.
MakeDirNew(r) ==
    /\ On(r, "mkdir")
    /\ dir' = Made(Dest(r))
    /\ IF Dest(r) \in DOMAIN dir THEN Throw(r)
       ELSE IF ~ Copies(r)       THEN Go(r, "reply") /\ UNCHANGED locals
       ELSE IF ~ SourceExists(r) THEN Throw(r)
       ELSE Command(r)
    /\ unnoticed' = unnoticed \ {r}
    /\ UNCHANGED <<repo, lastId>>

\* Every attempt makes the directory if need be and copies the source (again).
MakeDir(r) ==
    /\ On(r, "mkdir")
    /\ dir' = Made(Dest(r))
    /\ IF ~ Copies(r)            THEN Go(r, "reply") /\ UNCHANGED locals
       ELSE IF ~ SourceExists(r) THEN Throw(r)
       ELSE Command(r)
    /\ unnoticed' = unnoticed \ {r}
    /\ UNCHANGED <<repo, lastId>>

VolumeCopied(r) ==
    /\ Copied(r) /\ Is(r, "CreateVolume")
    /\ Go(r, "reply")
    /\ UNCHANGED <<locals, storage, unnoticed>>

DeleteVolume(r) ==
    /\ On(r, "remove") /\ Is(r, "DeleteVolume")
    /\ dir' = Without(dir, VolumePath(call[r].volume))
    /\ Go(r, "reply")
    /\ UNCHANGED <<locals, repo, lastId, unnoticed>>

----------------------------------------------------------------------------
(* CreateSnapshot and DeleteSnapshot.                                      *)

\* Start the command that copies the volume; it fails without one.
Cut(r) ==
    /\ IF SourceExists(r) THEN Command(r) ELSE Throw(r)
    /\ UNCHANGED <<repo, lastId, unnoticed>>

Found(r, id) ==
    /\ sid' = [sid EXCEPT ![r] = id]
    /\ Go(r, "reply")
    /\ UNCHANGED <<todo, buf, storage, unnoticed>>

\* A directory that exists is a snapshot that has been cut.
SearchDir(r) ==
    /\ On(r, "search") /\ call[r].driver = "filecopy"
    /\ IF Dest(r) \in DOMAIN dir
         THEN Found(r, IdOf(call[r]))
         ELSE dir' = Made(Dest(r)) /\ Cut(r)

\* Mutant: nothing is ever found.
MatchesNone(r) == {s \in repo : FALSE}

\* The snapshots with the tags of the volume and of the snapshot's name.
Matches(r) ==
    {s \in repo : /\ s.driver = call[r].driver /\ s.volume = call[r].volume
                  /\ s.name = call[r].name}

SearchRepo(r) ==
    /\ On(r, "search") /\ call[r].driver # "filecopy"
    /\ IF Matches(r) # {}
         THEN Found(r, <<call[r].driver, Max({s.id : s \in Matches(r)})>>)
         ELSE Cut(r) /\ UNCHANGED dir

DirCut(r) ==
    /\ Copied(r) /\ Is(r, "CreateSnapshot") /\ call[r].driver = "filecopy"
    /\ Found(r, IdOf(call[r]))

\* A backup appears in the repository when it is complete, under a new id;
\* kopia's with all its tags, restic's with those of the volume only.
BackedUp(r) ==
    /\ Copied(r) /\ ToRepo(r)
    /\ repo' = repo \cup
         {[driver |-> call[r].driver, id |-> lastId + 1, original |-> lastId + 1,
           volume |-> call[r].volume, files |-> buf[r],
           name |-> IF call[r].driver = "restic" THEN NoName ELSE call[r].name]}
    /\ lastId' = lastId + 1
    /\ sid' = [sid EXCEPT ![r] = <<call[r].driver, lastId + 1>>]
    /\ buf' = [buf EXCEPT ![r] = NoFiles]
    /\ Go(r, IF call[r].driver = "restic" THEN "tag" ELSE "reply")
    /\ UNCHANGED <<todo, dir, unnoticed>>

\* restic tag replaces the snapshot by one with a new id.
Tag(r) ==
    /\ On(r, "tag")
    /\ \E s \in InRepo(sid[r]) :
         repo' = (repo \ {s}) \cup {[s EXCEPT !.id = lastId + 1, !.name = call[r].name]}
    /\ lastId' = lastId + 1
    /\ Go(r, "lookup")
    /\ UNCHANGED <<locals, dir, unnoticed>>

\* Mutant: the id of the backup is the id of the snapshot.
LookupOriginal(r) == On(r, "lookup") /\ Found(r, sid[r])

\* Find the new id of the snapshot that was tagged.
Lookup(r) ==
    /\ On(r, "lookup")
    /\ LET tagged == {s \in Matches(r) : s.original = sid[r][2]} IN
       IF tagged = {}
         THEN Throw(r) /\ UNCHANGED <<storage, unnoticed>>
         ELSE \E s \in tagged : Found(r, <<"restic", s.id>>)

\* Removing what does not exist is a success with every driver.
DeleteSnapshot(r) ==
    /\ On(r, "remove") /\ Is(r, "DeleteSnapshot")
    /\ LET id == sid[call[r].source[2]] IN
       IF id[1] = "filecopy"
         THEN dir' = Without(dir, id[2]) /\ UNCHANGED repo
         ELSE repo' = repo \ InRepo(id) /\ UNCHANGED dir
    /\ Go(r, "reply")
    /\ UNCHANGED <<locals, lastId, unnoticed>>

----------------------------------------------------------------------------
Reply(r) ==
    /\ On(r, "reply")
    /\ pc' = [pc EXCEPT ![r] = "done"]
    /\ UNCHANGED <<call, locals, storage, since, unnoticed, bounds>>

\* The command of r's step fails, or its answer is lost: the handler throws.
\* (What the command did before it failed is r's steps followed by Fail.)
Fail(r) ==
    /\ Running(r) /\ faults < MaxFaults
    /\ Throws({r})
    /\ faults' = faults + 1
    /\ UNCHANGED <<call, storage, since, unnoticed, writes>>

\* The process dies and its commands with it; the storage stays.
Restart ==
    /\ faults < MaxFaults
    /\ LET dead == {r \in Requests : Running(r)} IN dead # {} /\ Throws(dead)
    /\ faults' = faults + 1
    /\ UNCHANGED <<call, storage, since, unnoticed, writes>>

\* A workload writes a file of the volume it uses.
Write(v, f) ==
    /\ OwnsVolume(v) /\ writes < MaxWrites
    /\ LET old == dir[VolumePath(v)] IN
       dir' = [dir EXCEPT ![VolumePath(v)] =
                 With(old, f, 1 + (IF f \in DOMAIN old THEN old[f] ELSE 0))]
    /\ writes' = writes + 1
    /\ UNCHANGED <<call, pc, locals, repo, lastId, since, unnoticed, faults>>

Handle(r) ==
    \/ MakeDir(r) \/ CopyFile(r) \/ SourceVanishes(r) \/ VolumeCopied(r)
    \/ SearchDir(r) \/ DirCut(r)
    \/ SearchRepo(r) \/ BackedUp(r) \/ Tag(r) \/ Lookup(r)
    \/ DeleteVolume(r) \/ DeleteSnapshot(r)
    \/ Reply(r)

\* Nothing is under way; the CO may ask for more or be content.
Quiet == (\A r \in Requests : ~ Unfinished(r)) /\ UNCHANGED vars

Next ==
    \/ \E r \in Requests : Start(r) \/ Handle(r) \/ Unnoticed(r) \/ Fail(r)
    \/ Restart
    \/ \E v \in Writable, f \in Files : Write(v, f)
    \/ Quiet

Spec == Init /\ [][Next]_vars

\* Handlers go on, and the CO sends again what was not answered OK: often
\* enough to find the keys free.  Failures and writes need not happen.
FairSpec ==
    Spec /\ \A r \in Requests : WF_vars(Handle(r)) /\ SF_vars(Start(r))

----------------------------------------------------------------------------
(* Properties.                                                             *)

Contents == UNION {[fs -> 1..MaxWrites] : fs \in SUBSET Files}

\* Every variable has its type.
TypeOK ==
    /\ call \in Plans
    /\ pc \in [Requests -> {"idle", "pending", "mkdir", "search", "copy", "tag",
                            "lookup", "remove", "reply", "done"}]
    /\ todo \in [Requests -> SUBSET Files]
    /\ buf \in [Requests -> Contents] /\ since \in [Requests -> Contents]
    /\ \A r \in Requests :
         \/ sid[r] = NoId
         \/ sid[r][1] = "filecopy" /\ sid[r][2] \in Paths
         \/ sid[r][1] \in {"restic", "kopia"} /\ sid[r][2] \in 1..lastId
    /\ DOMAIN dir \subseteq Paths /\ \A p \in DOMAIN dir : dir[p] \in Contents
    /\ lastId \in Nat
    /\ repo \subseteq [driver : Drivers, id : 1..lastId, original : 1..lastId,
                       volume : Volumes, name : Names \cup {NoName}, files : Contents]
    /\ unnoticed \subseteq Requests
    /\ writes \in 0..MaxWrites /\ faults \in 0..MaxFaults

\* Every file of old is in new, as old as there or newer.
Includes(new, old) ==
    DOMAIN old \subseteq DOMAIN new /\ \A f \in DOMAIN old : new[f] >= old[f]

\* A volume CreateVolume has answered OK for has every file that its source
\* had when the call was first sent, in whatever attempts it was copied;
\* except when a command's failure went unnoticed.
AckedVolumesAreComplete ==
    \A r \in Requests :
        Is(r, "CreateVolume") /\ Done(r) /\ OwnsVolume(call[r].volume) =>
            /\ Dest(r) \in DOMAIN dir
            /\ r \in unnoticed \/ Includes(dir[Dest(r)], since[r])

\* The snapshot q was answered OK with exists, and has every file that its
\* volume had when the snapshot was first asked for.
IsKept(q) ==
    /\ SnapshotExists(sid[q])
    /\ \E p \in Requests : /\ SameSnapshot(p, q) /\ Sent(p)
                           /\ Includes(SnapshotFiles(sid[q]), since[p])

\* The id of a restic or kopia snapshot that was answered OK names a complete
\* snapshot until its deletion is asked for, though tagging changes the ids of
\* restic's, and an attempt that failed may have left a backup.
AckedSnapshotsAreKept ==
    \A q \in Requests : OwnsSnapshot(q) /\ sid[q][1] # "filecopy" => IsKept(q)

\* The same of filecopy snapshots.
FilecopySnapshotsAreKept ==
    \A q \in Requests : OwnsSnapshot(q) /\ sid[q][1] = "filecopy" => IsKept(q)

\* Asking for a snapshot again returns the id of the first answer, and when
\* DeleteSnapshot has been answered OK nothing is left under the snapshot's
\* name: no attempt to create it has left a second one.
OneSnapshotPerName ==
    /\ \A q, r \in Requests :
         SameSnapshot(q, r) /\ OwnsSnapshot(q) /\ OwnsSnapshot(r) => sid[q] = sid[r]
    /\ \A r \in Requests : Is(r, "DeleteSnapshot") /\ Done(r) =>
         LET q == call[r].source[2] IN
         /\ ~ SnapshotExists(sid[q])
         /\ \A s \in repo : s.driver = call[q].driver /\ s.volume = call[q].volume
                              => s.name # call[q].name

\* Every request is answered OK in the end, whatever fails on the way, unless
\* the CO deletes the source it has asked to copy.
EveryRequestSucceeds ==
    <>[](\A r \in Requests : Sent(r) => Done(r) \/ (Copies(r) /\ ~ OwnsSource(r)))
=============================================================================
