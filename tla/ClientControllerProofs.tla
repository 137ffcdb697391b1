------------------------ MODULE ClientControllerProofs ------------------------
(***************************************************************************)
(* Theorems about ClientController, for every set of requests, volumes,    *)
(* names and files, every plan of well-named calls, and any number of      *)
(* writes and failures.                                                    *)
(*                                                                         *)
(* The invariant follows a snapshot from the search for its name to the    *)
(* deletion of its id, and a copy file by file; what ties them together is *)
(* who may touch a path or a tag: the lock keeps one call at a time at a   *)
(* snapshot's name, and the CO deletes nothing that it still asks for.     *)
(***************************************************************************)
EXTENDS ClientController, TLAPS

\* Files with at most n writes each.
UpTo(n) == UNION {[fs -> 1..n] : fs \in SUBSET Files}

Steps == {"idle", "pending", "mkdir", "search", "copy", "tag", "lookup", "remove", "reply",
          "done"}

Ids == {NoId} \cup ({"filecopy"} \X Paths) \cup ({"restic", "kopia"} \X (1..lastId))

Backups == [driver : {"restic", "kopia"}, id : 1..lastId, original : 1..lastId,
            volume : Volumes, name : Names \cup {NoName}, files : UpTo(writes)]

Types ==
    /\ call \in Plans /\ pc \in [Requests -> Steps]
    /\ todo \in [Requests -> SUBSET Files]
    /\ buf \in [Requests -> UpTo(writes)] /\ since \in [Requests -> UpTo(writes)]
    /\ sid \in [Requests -> Ids]
    /\ dir = [p \in DOMAIN dir |-> dir[p]] /\ DOMAIN dir \subseteq Paths
    /\ \A p \in DOMAIN dir : dir[p] \in UpTo(writes)
    /\ lastId \in Nat /\ repo \subseteq Backups
    /\ unnoticed \subseteq Requests
    /\ writes \in 0..MaxWrites /\ faults \in 0..MaxFaults

\* Which steps a call takes.
InItsPlace(r) ==
    /\ Is(r, "CreateVolume") =>
         pc[r] \in {"idle", "pending", "mkdir", "copy", "reply", "done"}
    /\ Is(r, "CreateSnapshot") =>
         pc[r] \in {"idle", "pending", "search", "copy", "tag", "lookup", "reply", "done"}
    /\ Is(r, "DeleteVolume") \/ Is(r, "DeleteSnapshot") =>
         pc[r] \in {"idle", "pending", "remove", "reply", "done"}
    /\ pc[r] = "copy" => Copies(r)
    /\ pc[r] \in {"tag", "lookup"} => call[r].driver = "restic"

\* Where a call copies from, and the snapshot it names.
FromVolume(r, v) ==
    \/ Is(r, "CreateSnapshot") /\ call[r].volume = v
    \/ Is(r, "CreateVolume") /\ call[r].source = <<"volume", v>>

FromSnapshot(r, q) == Is(r, "CreateVolume") /\ call[r].source = <<"snapshot", q>>

Deletes(r, q) == Is(r, "DeleteSnapshot") /\ call[r].source = <<"snapshot", q>>

\* What a call that was sent names had been answered OK before.
VolumeMade(v) ==
    \E p \in Requests : Is(p, "CreateVolume") /\ call[p].volume = v /\ Done(p)

SourceWasMade(r) ==
    Sent(r) =>
      /\ \A v \in Volumes : FromVolume(r, v) => VolumeMade(v)
      /\ \A q \in Requests :
           FromSnapshot(r, q) \/ Deletes(r, q) => Is(q, "CreateSnapshot") /\ Done(q)

\* The deletion of a volume, or of a snapshot, has been asked for.
VolumeUnwanted(v) ==
    \E d \in Requests : Is(d, "DeleteVolume") /\ call[d].volume = v /\ Sent(d)

SnapshotUnwanted(q) ==
    \E d, p \in Requests : Deletes(d, p) /\ SameSnapshot(p, q) /\ Sent(d)

\* Nothing that is unwanted is being made.
UnwantedIsSettled(r) ==
    /\ Is(r, "CreateVolume") /\ VolumeUnwanted(call[r].volume) => pc[r] \in {"idle", "done"}
    /\ Is(r, "CreateSnapshot") /\ SnapshotUnwanted(r) => pc[r] \in {"idle", "done"}

\* One call at a time is at a snapshot's name.
OneAtATime ==
    \A q, r \in Requests : q # r /\ SameSnapshot(q, r) => ~ (Running(q) /\ Running(r))

\* No two calls have the same backup to tag.
BackupsHaveOwners ==
    \A q, r \in Requests :
        q # r /\ pc[q] = "tag" /\ pc[r] = "tag" => sid[q] # sid[r]

----------------------------------------------------------------------------
\* What a repository holds.
BackupsAreDistinct ==
    \A s, t \in repo :
        /\ s.id = t.id \/ s.original = t.original => s = t
        /\ /\ s.name # NoName /\ s.name = t.name
           /\ s.driver = t.driver /\ s.volume = t.volume
           => s = t

TaggedBackupsAreComplete ==
    \A s \in repo : s.name # NoName =>
        \E p \in Requests :
            /\ Is(p, "CreateSnapshot") /\ Sent(p)
            /\ call[p].driver = s.driver /\ call[p].volume = s.volume
            /\ call[p].name = s.name
            /\ Includes(s.files, since[p])

\* The backup that q has made and has yet to tag.
Untagged(q, s) ==
    /\ sid[q] = <<"restic", s.id>> /\ s.original = s.id
    /\ s.driver = "restic" /\ s.volume = call[q].volume /\ s.name = NoName
    /\ Includes(s.files, since[q])

\* A snapshot on its way into a repository, and in it.
RepoSnapshot(q) ==
    ToRepo(q) =>
      /\ pc[q] = "copy" =>
           /\ Matches(q) = {}
           /\ \A f \in DOMAIN since[q] :
                f \in todo[q] \/ (f \in DOMAIN buf[q] /\ buf[q][f] >= since[q][f])
      /\ pc[q] = "tag" => Matches(q) = {} /\ \E s \in repo : Untagged(q, s)
      /\ pc[q] = "lookup" =>
           sid[q][1] = "restic" /\ \E s \in Matches(q) : s.original = sid[q][2]
      /\ pc[q] \in {"reply", "done"} =>
           /\ sid[q][1] = call[q].driver
           /\ Matches(q) = InRepo(sid[q])
           /\ ~ SnapshotUnwanted(q) => Matches(q) # {}

\* The same of one that is a directory; once a call has answered for it, no other copies
\* into it.
DirSnapshot(q) ==
    Is(q, "CreateSnapshot") /\ ~ ToRepo(q) =>
      /\ pc[q] = "copy" => Dest(q) \in DOMAIN dir
      /\ pc[q] \in {"reply", "done"} =>
           /\ sid[q] = IdOf(call[q])
           /\ ~ SnapshotUnwanted(q) => Dest(q) \in DOMAIN dir
           /\ \A r \in Requests : SameSnapshot(q, r) => pc[r] # "copy"

DeletedIsGone(r) ==
    \A q \in Requests :
        Deletes(r, q) /\ pc[r] \in {"reply", "done"} => ~ SnapshotExists(sid[q])

----------------------------------------------------------------------------
\* A source that exists has not lost what it had, nor what a command has yet to copy.
SourceLasts(r) ==
    Copies(r) /\ Sent(r) /\ SourceExists(r) =>
      /\ Includes(SourceFiles(r), since[r])
      /\ pc[r] = "copy" => todo[r] \subseteq DOMAIN SourceFiles(r)

\* A volume on its way, and one that is answered for.
VolumeCopy(r) ==
    Is(r, "CreateVolume") =>
      /\ ~ Copies(r) => since[r] = NoFiles
      /\ pc[r] = "copy" =>
           /\ Dest(r) \in DOMAIN dir
           /\ \A f \in DOMAIN since[r] :
                \/ r \in unnoticed \/ f \in todo[r]
                \/ f \in DOMAIN dir[Dest(r)] /\ dir[Dest(r)][f] >= since[r][f]
      /\ pc[r] \in {"reply", "done"} /\ ~ VolumeUnwanted(call[r].volume) =>
           /\ Dest(r) \in DOMAIN dir
           /\ r \in unnoticed \/ Includes(dir[Dest(r)], since[r])

Fine(r) ==
    /\ InItsPlace(r) /\ SourceWasMade(r) /\ UnwantedIsSettled(r)
    /\ RepoSnapshot(r) /\ DirSnapshot(r) /\ DeletedIsGone(r)
    /\ SourceLasts(r) /\ VolumeCopy(r)

\* The inductive invariant.
IInv ==
    /\ Types /\ OneAtATime
    /\ BackupsHaveOwners /\ BackupsAreDistinct /\ TaggedBackupsAreComplete
    /\ \A r \in Requests : Fine(r)

----------------------------------------------------------------------------
(* Functions, files and calls.                                             *)

\* Adding or replacing an element.
LEMMA WithIs ==
  ASSUME NEW fn, NEW x, NEW val
  PROVE  /\ DOMAIN With(fn, x, val) = DOMAIN fn \cup {x}
         /\ With(fn, x, val)[x] = val
         /\ \A y \in DOMAIN fn : y # x => With(fn, x, val)[y] = fn[y]
         /\ With(fn, x, val) = [y \in DOMAIN With(fn, x, val) |-> With(fn, x, val)[y]]
BY DEF With

\* Removing one.
LEMMA WithoutIs ==
  ASSUME NEW fn, NEW x
  PROVE  /\ DOMAIN Without(fn, x) = DOMAIN fn \ {x}
         /\ \A y \in DOMAIN fn \ {x} : Without(fn, x)[y] = fn[y]
         /\ Without(fn, x) = [y \in DOMAIN Without(fn, x) |-> Without(fn, x)[y]]
BY DEF Without

\* What files with at most n writes are.
LEMMA UpToIs ==
  ASSUME NEW n, NEW g
  PROVE  g \in UpTo(n) <=> /\ DOMAIN g \subseteq Files
                           /\ g = [f \in DOMAIN g |-> g[f]]
                           /\ \A f \in DOMAIN g : g[f] \in 1..n
<1>1. ASSUME g \in UpTo(n)
      PROVE  /\ DOMAIN g \subseteq Files /\ g = [f \in DOMAIN g |-> g[f]]
             /\ \A f \in DOMAIN g : g[f] \in 1..n
  <2>1. PICK fs \in SUBSET Files : g \in [fs -> 1..n]
    BY <1>1 DEF UpTo
  <2>2. QED
    BY <2>1
<1>2. ASSUME DOMAIN g \subseteq Files, g = [f \in DOMAIN g |-> g[f]],
             \A f \in DOMAIN g : g[f] \in 1..n
      PROVE  g \in UpTo(n)
  <2>1. g \in [DOMAIN g -> 1..n] /\ DOMAIN g \in SUBSET Files
    BY <1>2
  <2>2. QED
    BY <2>1 DEF UpTo
<1>3. QED
  BY <1>1, <1>2

\* Nothing is written in no files.
LEMMA NoFilesAreFiles == ASSUME NEW n PROVE NoFiles \in UpTo(n) /\ DOMAIN NoFiles = {}
<1>1. DOMAIN NoFiles = {}
  BY DEF NoFiles
<1>2. NoFiles = [f \in DOMAIN NoFiles |-> NoFiles[f]]
  BY DEF NoFiles
<1>3. QED
  BY <1>1, <1>2, UpToIs

\* One more file.
LEMMA WithFile ==
  ASSUME NEW n \in Nat, NEW g \in UpTo(n), NEW f \in Files, NEW x \in 1..n
  PROVE  With(g, f, x) \in UpTo(n)
<1>1. DOMAIN g \subseteq Files /\ \A y \in DOMAIN g : g[y] \in 1..n
  BY UpToIs
<1>2. /\ DOMAIN With(g, f, x) \subseteq Files
      /\ \A y \in DOMAIN With(g, f, x) : With(g, f, x)[y] \in 1..n
  <2> DEFINE w == With(g, f, x)
  <2>1. /\ DOMAIN w = DOMAIN g \cup {f} /\ w[f] = x
        /\ \A y \in DOMAIN g : y # f => w[y] = g[y]
    BY DEF With
  <2> HIDE DEF w
  <2>2. DOMAIN w \subseteq Files /\ \A y \in DOMAIN w : w[y] \in 1..n
    BY <1>1, <2>1
  <2>3. QED
    BY <2>2 DEF w
<1>3. With(g, f, x) = [y \in DOMAIN With(g, f, x) |-> With(g, f, x)[y]]
  BY DEF With
<1>4. QED
  BY <1>2, <1>3, UpToIs

\* More writes may come.
LEMMA UpToMore ==
  ASSUME NEW n \in Nat, NEW m \in Nat, n <= m, NEW g \in UpTo(n)
  PROVE  g \in UpTo(m)
<1>1. /\ DOMAIN g \subseteq Files /\ g = [f \in DOMAIN g |-> g[f]]
      /\ \A y \in DOMAIN g : g[y] \in 1..n
  BY UpToIs
<1>2. \A y \in DOMAIN g : g[y] \in 1..m
  BY <1>1
<1>3. QED
  BY <1>1, <1>2, UpToIs

\* Includes is an order.
LEMMA IncludesSelf ==
  ASSUME NEW n \in Nat, NEW g \in UpTo(n)
  PROVE  Includes(g, g)
<1>1. \A y \in DOMAIN g : g[y] \in 1..n
  BY UpToIs
<1>2. QED
  BY <1>1 DEF Includes

\* It is transitive.
LEMMA IncludesMore ==
  ASSUME NEW n \in Nat, NEW a \in UpTo(n), NEW b \in UpTo(n), NEW c \in UpTo(n),
         Includes(a, b), Includes(b, c)
  PROVE  Includes(a, c)
<1>1. /\ \A y \in DOMAIN a : a[y] \in 1..n
      /\ \A y \in DOMAIN b : b[y] \in 1..n
      /\ \A y \in DOMAIN c : c[y] \in 1..n
  BY UpToIs
<1>2. QED
  BY <1>1 DEF Includes

\* The calls of a plan.
LEMMA CallsAre ==
  ASSUME call \in Plans, NEW r \in Requests
  PROVE  /\ call[r] \in Call
         /\ call[r].method \in Methods /\ call[r].volume \in Volumes
         /\ call[r].name \in Names /\ call[r].name # NoName
         /\ call[r].driver \in Drivers /\ call[r].source \in Sources
<1>1. call[r] \in Call
  BY PlansAssumption
<1>2. QED
  BY <1>1, NamesAssumption DEF Call, NoName

\* What two calls with a name in common are.
LEMMA CallsAreWellFormed ==
  ASSUME call \in Plans, NEW q \in Requests, NEW r \in Requests
  PROVE  /\ /\ Is(q, "CreateVolume") /\ Is(r, "CreateVolume")
            /\ call[q].volume = call[r].volume
            => q = r
         /\ /\ Is(q, "CreateSnapshot") /\ Is(r, "CreateSnapshot")
            /\ call[q].volume = call[r].volume /\ call[q].name = call[r].name
            /\ call[q].driver = call[r].driver
            => SameSnapshot(q, r)
BY PlansAssumption DEF WellFormed, Is, SameSnapshot

\* The sources of calls, by what a call does.
LEMMA SourcesAre ==
  ASSUME call \in Plans, NEW r \in Requests
  PROVE  /\ call[r].source[1] = "none" \/ (\E v \in Volumes : call[r].source = <<"volume", v>>)
              \/ (\E q \in Requests : call[r].source = <<"snapshot", q>>)
         /\ Is(r, "DeleteSnapshot") => \E q \in Requests : Deletes(r, q)
         /\ Copies(r) => \/ \E v \in Volumes : FromVolume(r, v)
                         \/ \E q \in Requests : FromSnapshot(r, q)
<1>1. call[r].source \in Sources /\ call[r].volume \in Volumes
  BY CallsAre
<1>2. \/ call[r].source = <<"none">>
      \/ \E v \in Volumes : call[r].source = <<"volume", v>>
      \/ \E q \in Requests : call[r].source = <<"snapshot", q>>
  BY <1>1 DEF Sources
<1>3. Is(r, "DeleteSnapshot") => \E q \in Requests : Deletes(r, q)
  BY <1>2, PlansAssumption DEF Is, WellFormed, Deletes
<1>4. Copies(r) => \/ \E v \in Volumes : FromVolume(r, v)
                   \/ \E q \in Requests : FromSnapshot(r, q)
  BY <1>1, <1>2 DEF Copies, FromVolume, FromSnapshot
<1>5. QED
  BY <1>2, <1>3, <1>4

\* What a call copies.
LEMMA CopiedFromVolume ==
  ASSUME call \in Plans, NEW r \in Requests, NEW v \in Volumes, FromVolume(r, v)
  PROVE  /\ Copies(r)
         /\ SourceExists(r) <=> VolumePath(v) \in DOMAIN dir
         /\ SourceFiles(r) = dir[VolumePath(v)]
         /\ OwnsSource(r) <=> OwnsVolume(v)
<1>1. CASE Is(r, "CreateSnapshot")
  <2>1. call[r].source = <<"none">> /\ call[r].volume = v
    BY <1>1, PlansAssumption DEF WellFormed, Is, FromVolume
  <2>2. QED
    BY <1>1, <2>1 DEF Copies, SourceExists, SourceFiles, OwnsSource
<1>2. CASE Is(r, "CreateVolume")
  <2>1. call[r].source = <<"volume", v>> /\ ~ Is(r, "CreateSnapshot")
    BY <1>2 DEF FromVolume, Is
  <2>2. QED
    BY <1>2, <2>1 DEF Copies, SourceExists, SourceFiles, OwnsSource
<1>3. QED
  BY <1>1, <1>2 DEF FromVolume

\* The same of a call that copies from a snapshot.
LEMMA CopiedFromSnapshot ==
  ASSUME NEW r \in Requests, NEW q \in Requests, FromSnapshot(r, q)
  PROVE  /\ Copies(r) /\ Driver(r) = sid[q][1]
         /\ SourceExists(r) <=> SnapshotExists(sid[q])
         /\ SourceFiles(r) = SnapshotFiles(sid[q])
         /\ OwnsSource(r) <=> OwnsSnapshot(q)
BY DEF FromSnapshot, Copies, SourceExists, SourceFiles, OwnsSource, Driver, Is

----------------------------------------------------------------------------
(* What a step leaves of a request that it does not move.                  *)

Untouched(q) ==
    /\ pc'[q] = pc[q] /\ todo'[q] = todo[q] /\ buf'[q] = buf[q]
    /\ sid'[q] = sid[q] /\ since'[q] = since[q]
    /\ q \in unnoticed' <=> q \in unnoticed

\* What was sent has been sent, and what is done is not taken up again.
NothingLost ==
    /\ call' = call
    /\ \A d \in Requests : pc'[d] = "idle" => pc[d] = "idle"
    /\ \A d \in Requests : Done(d) => pc'[d] = "done" /\ sid'[d] = sid[d]

\* No call is sent for the first time.
NothingNew == NothingLost /\ \A d \in Requests : pc[d] = "idle" => pc'[d] = "idle"

\* What is unwanted stays unwanted, and nothing else becomes so but by a first call.
LEMMA WishesStay ==
  ASSUME NothingLost
  PROVE  /\ \A v \in Volumes : VolumeUnwanted(v) => VolumeUnwanted(v)'
         /\ \A q \in Requests : SnapshotUnwanted(q) => SnapshotUnwanted(q)'
BY DEF NothingLost, VolumeUnwanted, SnapshotUnwanted, Deletes, SameSnapshot, Is, Sent

\* Nothing becomes unwanted when no call is sent for the first time.
LEMMA NoNewWishes ==
  ASSUME NothingNew
  PROVE  /\ \A v \in Volumes : VolumeUnwanted(v)' => VolumeUnwanted(v)
         /\ \A q \in Requests : SnapshotUnwanted(q)' => SnapshotUnwanted(q)
BY DEF NothingNew, NothingLost, VolumeUnwanted, SnapshotUnwanted, Deletes, SameSnapshot, Is,
   Sent

\* What a call is does not change.
LEMMA CallStays ==
  ASSUME call' = call, NEW r \in Requests
  PROVE  /\ Copies(r)' <=> Copies(r)
         /\ ToRepo(r)' <=> ToRepo(r)
         /\ Dest(r)' = Dest(r) /\ IdOf(call[r])' = IdOf(call[r])
         /\ \A m \in Methods : Is(r, m)' <=> Is(r, m)
         /\ \A v \in Volumes : FromVolume(r, v)' <=> FromVolume(r, v)
         /\ \A q \in Requests : /\ FromSnapshot(r, q)' <=> FromSnapshot(r, q)
                                /\ Deletes(r, q)' <=> Deletes(r, q)
                                /\ SameSnapshot(q, r)' <=> SameSnapshot(q, r)
BY DEF Copies, ToRepo, Dest, IdOf, Is, FromVolume, FromSnapshot, Deletes, SameSnapshot

\* A request that does not move is where it may be, and its source was made.
LEMMA PlaceStays ==
  ASSUME IInv, NothingLost, NEW q \in Requests, pc'[q] = pc[q]
  PROVE  InItsPlace(q)' /\ SourceWasMade(q)' /\ (NothingNew => UnwantedIsSettled(q)')
<1>1. call' = call /\ Fine(q) /\ call \in Plans
  BY DEF IInv, NothingLost, Types
<1>2. InItsPlace(q)'
  BY <1>1 DEF Fine, InItsPlace, Is, Copies
<1>3. \A v \in Volumes : VolumeMade(v) => VolumeMade(v)'
  BY <1>1 DEF NothingLost, VolumeMade, Is, Done
<1>4. SourceWasMade(q)'
  BY <1>1, <1>3
     DEF Fine, SourceWasMade, Sent, FromVolume, FromSnapshot, Deletes, Is, NothingLost, Done
<1>5. ASSUME NothingNew PROVE UnwantedIsSettled(q)'
  <2>1. call[q].volume \in Volumes
    BY <1>1, CallsAre
  <2>2. QED
    BY <1>1, <1>5, <2>1, NoNewWishes DEF Fine, UnwantedIsSettled, Is
<1>6. QED
  BY <1>2, <1>4, <1>5

\* Its snapshot in a repository is as it was, if the repository is.
LEMMA RepoStays ==
  ASSUME IInv, NothingLost, NEW q \in Requests, Untouched(q), repo' = repo
  PROVE  RepoSnapshot(q)'
<1>1. call' = call /\ Fine(q)
  BY DEF IInv, NothingLost
<1>2. Matches(q)' = Matches(q) /\ InRepo(sid[q])' = InRepo(sid[q])
  BY <1>1 DEF Matches, InRepo, Untouched
<1>3. \A s : Untagged(q, s)' <=> Untagged(q, s)
  BY <1>1 DEF Untagged, Untouched, Includes
<1>4. SnapshotUnwanted(q) => SnapshotUnwanted(q)'
  BY WishesStay
<1>5. ToRepo(q)' <=> ToRepo(q)
  BY <1>1, CallStays
<1>6. QED
  BY <1>1, <1>2, <1>3, <1>4, <1>5 DEF Fine, RepoSnapshot, Untouched

\* Its snapshot that is a directory is there, unless it is unwanted.
LEMMA DirStays ==
  ASSUME IInv, NothingLost, NEW q \in Requests, pc'[q] = pc[q], sid'[q] = sid[q],
         /\ Is(q, "CreateSnapshot") /\ ~ ToRepo(q) /\ ~ SnapshotUnwanted(q)
         /\ Dest(q) \in DOMAIN dir
         => Dest(q) \in DOMAIN dir',
         pc[q] \in {"reply", "done"} =>
            \A r \in Requests :
               SameSnapshot(q, r) /\ ~ ToRepo(r) /\ pc'[r] = "copy" => pc[r] = "copy"
  PROVE  DirSnapshot(q)'
<1>1. call' = call /\ Fine(q)
  BY DEF IInv, NothingLost
<1>2. SnapshotUnwanted(q) => SnapshotUnwanted(q)'
  BY WishesStay
<1>3. /\ ToRepo(q)' <=> ToRepo(q)
      /\ Dest(q)' = Dest(q) /\ IdOf(call[q])' = IdOf(call[q])
      /\ Is(q, "CreateSnapshot")' <=> Is(q, "CreateSnapshot")
      /\ \A r \in Requests : SameSnapshot(q, r)' <=> SameSnapshot(q, r)
  BY <1>1, CallStays DEF Methods
<1>4. Is(q, "CreateSnapshot") /\ pc[q] = "copy" => ~ SnapshotUnwanted(q)
  BY <1>1 DEF Fine, UnwantedIsSettled
<1>5. \A r \in Requests : SameSnapshot(q, r) => (ToRepo(r) <=> ToRepo(q))
  BY DEF SameSnapshot, ToRepo
<1>6. QED
  BY <1>1, <1>2, <1>3, <1>4, <1>5 DEF Fine, DirSnapshot

\* What it has deleted is not there again.
LEMMA GoneStays ==
  ASSUME IInv, NothingLost, NEW q \in Requests, pc'[q] = pc[q],
         \A p \in Requests : Sent(q) /\ Deletes(q, p) /\ Done(p) /\ ~ SnapshotExists(sid[p])
                               => ~ SnapshotExists(sid[p])'
  PROVE  DeletedIsGone(q)'
<1>1. call' = call /\ Fine(q)
  BY DEF IInv, NothingLost
<1>2. \A p \in Requests : Deletes(q, p)' <=> Deletes(q, p)
  BY <1>1, CallStays
<1>3. \A p \in Requests : Deletes(q, p) /\ pc[q] \in {"reply", "done"} => Sent(q) /\ Done(p)
  BY <1>1 DEF Fine, SourceWasMade, Sent
<1>4. QED
  BY <1>1, <1>2, <1>3 DEF Fine, DeletedIsGone, NothingLost

\* What was made only grows, or goes.
VolumeGrows(v) ==
    VolumePath(v) \in DOMAIN dir' =>
        VolumePath(v) \in DOMAIN dir /\ Includes(dir'[VolumePath(v)], dir[VolumePath(v)])

SnapshotGrows(p) ==
    SnapshotExists(sid[p])' =>
        SnapshotExists(sid[p]) /\ Includes(SnapshotFiles(sid[p])', SnapshotFiles(sid[p]))

MadeThingsGrow ==
    /\ \A v \in Volumes : VolumeMade(v) => VolumeGrows(v)
    /\ \A p \in Requests : Is(p, "CreateSnapshot") /\ Done(p) => SnapshotGrows(p)

\* So does the source of a call.
LEMMA SourceGrows ==
  ASSUME IInv, NothingLost, MadeThingsGrow, NEW r \in Requests, Copies(r), Sent(r),
         SourceExists(r)'
  PROVE  SourceExists(r) /\ Includes(SourceFiles(r)', SourceFiles(r))
<1>1. call' = call /\ Fine(r) /\ call \in Plans
  BY DEF IInv, NothingLost, Types
<1>2. call' \in Plans
  BY <1>1
<1>3. ASSUME NEW v \in Volumes, FromVolume(r, v)
      PROVE  SourceExists(r) /\ Includes(SourceFiles(r)', SourceFiles(r))
  <2>1. VolumeGrows(v)
    BY <1>1, <1>3 DEF MadeThingsGrow, Fine, SourceWasMade
  <2>2. /\ SourceExists(r) <=> VolumePath(v) \in DOMAIN dir
        /\ SourceFiles(r) = dir[VolumePath(v)]
    BY <1>1, <1>3, CopiedFromVolume
  <2>3. /\ SourceExists(r)' <=> VolumePath(v) \in DOMAIN dir'
        /\ SourceFiles(r)' = dir'[VolumePath(v)]
    <3>1. CASE Is(r, "CreateSnapshot")
      <4>1. call[r].source = <<"none">> /\ call[r].volume = v
        BY <1>3, <3>1, <1>1, PlansAssumption DEF WellFormed, Is, FromVolume
      <4>2. QED
        BY <1>1, <3>1, <4>1 DEF SourceExists, SourceFiles, Is, VolumePath
    <3>2. CASE Is(r, "CreateVolume")
      <4>1. call[r].source = <<"volume", v>> /\ ~ Is(r, "CreateSnapshot")
        BY <1>3, <3>2 DEF FromVolume, Is
      <4>2. QED
        BY <1>1, <3>2, <4>1 DEF SourceExists, SourceFiles, Is, VolumePath
    <3>3. QED
      BY <1>3, <3>1, <3>2 DEF FromVolume
  <2>4. QED
    BY <2>1, <2>2, <2>3 DEF VolumeGrows
<1>4. ASSUME NEW q \in Requests, FromSnapshot(r, q)
      PROVE  SourceExists(r) /\ Includes(SourceFiles(r)', SourceFiles(r))
  <2>1. SnapshotGrows(q) /\ sid'[q] = sid[q]
    BY <1>1, <1>4 DEF MadeThingsGrow, Fine, SourceWasMade, NothingLost
  <2>2. /\ SourceExists(r) <=> SnapshotExists(sid[q])
        /\ SourceFiles(r) = SnapshotFiles(sid[q])
    BY <1>4, CopiedFromSnapshot
  <2>3. /\ SourceExists(r)' <=> SnapshotExists(sid[q])'
        /\ SourceFiles(r)' = SnapshotFiles(sid[q])'
    <3>1. call[r].source = <<"snapshot", q>> /\ Is(r, "CreateVolume") /\ ~ Is(r, "CreateSnapshot")
      BY <1>4 DEF FromSnapshot, Is
    <3>2. QED
      BY <1>1, <3>1 DEF SourceExists, SourceFiles, Is
  <2>4. QED
    BY <2>1, <2>2, <2>3 DEF SnapshotGrows
<1>5. QED
  BY <1>1, <1>3, <1>4, SourcesAre

\* The files of snapshots, and of sources, are files.
LEMMA SnapshotsAreFiles ==
  ASSUME Types, NEW id \in Ids, SnapshotExists(id)
  PROVE  SnapshotFiles(id) \in UpTo(writes)
<1>1. CASE id[1] = "filecopy"
  BY <1>1 DEF Types, SnapshotExists, SnapshotFiles
<1>2. CASE id[1] # "filecopy"
  <2>1. (CHOOSE s \in InRepo(id) : TRUE) \in repo
    BY <1>2 DEF SnapshotExists, InRepo
  <2>2. QED
    BY <1>2, <2>1 DEF SnapshotFiles, Types, Backups
<1>3. QED
  BY <1>1, <1>2

\* The files of what a call copies are files.
LEMMA SourcesAreFiles ==
  ASSUME Types, NEW r \in Requests, Copies(r), SourceExists(r)
  PROVE  SourceFiles(r) \in UpTo(writes)
<1>1. ASSUME NEW v \in Volumes, FromVolume(r, v) PROVE SourceFiles(r) \in UpTo(writes)
  BY <1>1, CopiedFromVolume DEF Types
<1>2. ASSUME NEW q \in Requests, FromSnapshot(r, q) PROVE SourceFiles(r) \in UpTo(writes)
  <2>1. sid[q] \in Ids /\ SnapshotExists(sid[q])
    BY <1>2, CopiedFromSnapshot DEF Types
  <2>2. QED
    BY <1>2, <2>1, CopiedFromSnapshot, SnapshotsAreFiles
<1>3. QED
  BY <1>1, <1>2, SourcesAre DEF Types

\* The same, as a fact of the state alone.
LEMMA AllSourcesAreFiles ==
  \A r \in Requests :
     Types /\ Copies(r) /\ SourceExists(r) => SourceFiles(r) \in UpTo(writes)
BY SourcesAreFiles

\* A source that is there goes on having what it had when the call was sent.
LEMMA SourceLastsOn ==
  ASSUME IInv, Types', NothingLost, MadeThingsGrow, NEW q \in Requests,
         since'[q] = since[q], Sent(q)' => Sent(q),
         pc'[q] = "copy" /\ Copies(q) /\ SourceExists(q)
           => todo'[q] \subseteq DOMAIN SourceFiles(q)
  PROVE  SourceLasts(q)'
<1>1. call' = call /\ Fine(q) /\ Types
  BY DEF IInv, NothingLost
<1>2. SUFFICES ASSUME Copies(q), Sent(q), SourceExists(q)'
               PROVE  /\ Includes(SourceFiles(q)', since[q])
                      /\ pc'[q] = "copy" => todo'[q] \subseteq DOMAIN SourceFiles(q)'
  BY <1>1, CallStays DEF SourceLasts, Sent, Includes, NothingLost
<1>3. SourceExists(q) /\ Includes(SourceFiles(q)', SourceFiles(q))
  BY <1>2, SourceGrows
<1>4. /\ Includes(SourceFiles(q), since[q])
      /\ pc'[q] = "copy" => todo'[q] \subseteq DOMAIN SourceFiles(q)
  BY <1>1, <1>2, <1>3 DEF Fine, SourceLasts
<1>5. /\ writes \in Nat /\ writes' \in Nat
      /\ since[q] \in UpTo(writes) /\ since[q] \in UpTo(writes')
      /\ SourceFiles(q) \in UpTo(writes)
  BY <1>1, <1>2, <1>3, SourcesAreFiles, BoundsAssumption DEF Types
<1>6. /\ \A f \in DOMAIN since[q] : since[q][f] \in Nat
      /\ \A f \in DOMAIN SourceFiles(q) : SourceFiles(q)[f] \in Nat
  BY <1>5, UpToIs
<1>7. /\ \A f \in DOMAIN SourceFiles(q)' : SourceFiles(q)'[f] \in Nat
  <2>1. Copies(q)'
    BY <1>1, <1>2, CallStays
  <2>2. (\A r \in Requests :
            Types /\ Copies(r) /\ SourceExists(r) => SourceFiles(r) \in UpTo(writes))'
    BY AllSourcesAreFiles, PTL
  <2>3. SourceFiles(q)' \in UpTo(writes')
    BY <1>2, <2>1, <2>2 DEF UpTo
  <2>4. QED
    BY <2>3, UpToIs
<1>8. QED
  BY <1>3, <1>4, <1>6, <1>7 DEF Includes

\* A volume that does not move has what it had, if its directory does.
LEMMA CopyStays ==
  ASSUME IInv, NothingLost, Types', NEW q \in Requests, Untouched(q),
         Is(q, "CreateVolume") /\ ~ VolumeUnwanted(call[q].volume) /\ Dest(q) \in DOMAIN dir
            => Dest(q) \in DOMAIN dir' /\ Includes(dir'[Dest(q)], dir[Dest(q)])
  PROVE  VolumeCopy(q)'
<1>1. call' = call /\ Fine(q) /\ Types
  BY DEF IInv, NothingLost
<1>2. SUFFICES ASSUME Is(q, "CreateVolume") PROVE VolumeCopy(q)'
  BY <1>1 DEF VolumeCopy, Is
<1>3. /\ Copies(q)' <=> Copies(q)
      /\ Dest(q)' = Dest(q)
      /\ VolumeUnwanted(call[q].volume) => VolumeUnwanted(call[q].volume)'
  <2>1. call[q].volume \in Volumes
    BY <1>1, CallsAre DEF Types
  <2>2. VolumeUnwanted(call[q].volume) => VolumeUnwanted(call[q].volume)'
    BY <1>1, <2>1, WishesStay
  <2>3. QED
    BY <1>1, <2>2, CallStays
<1>4. pc[q] = "copy" => ~ VolumeUnwanted(call[q].volume)
  BY <1>1, <1>2 DEF Fine, UnwantedIsSettled
<1>5. \A f \in DOMAIN since[q] : since[q][f] \in Nat
  BY <1>1, UpToIs DEF Types
<1>6. /\ Dest(q) \in DOMAIN dir => \A f \in DOMAIN dir[Dest(q)] : dir[Dest(q)][f] \in Nat
      /\ Dest(q) \in DOMAIN dir' => \A f \in DOMAIN dir'[Dest(q)] : dir'[Dest(q)][f] \in Nat
  <2>1. Dest(q) \in DOMAIN dir' => dir'[Dest(q)] \in UpTo(writes')
    BY DEF Types, UpTo
  <2>2. Dest(q) \in DOMAIN dir => dir[Dest(q)] \in UpTo(writes)
    BY <1>1 DEF Types
  <2>3. QED
    BY <2>1, <2>2, UpToIs
<1>7. ~ Copies(q) => since'[q] = NoFiles
  BY <1>1, <1>2 DEF Fine, VolumeCopy, Untouched
<1>8. CASE pc[q] = "copy"
  <2>1. /\ Dest(q) \in DOMAIN dir
        /\ \A f \in DOMAIN since[q] :
             \/ q \in unnoticed \/ f \in todo[q]
             \/ f \in DOMAIN dir[Dest(q)] /\ dir[Dest(q)][f] >= since[q][f]
    BY <1>1, <1>2, <1>8 DEF Fine, VolumeCopy
  <2>2. Dest(q) \in DOMAIN dir' /\ Includes(dir'[Dest(q)], dir[Dest(q)])
    BY <1>2, <1>4, <1>8, <2>1
  <2>3. ASSUME NEW f \in DOMAIN since[q]
        PROVE  \/ q \in unnoticed \/ f \in todo[q]
               \/ f \in DOMAIN dir'[Dest(q)] /\ dir'[Dest(q)][f] >= since[q][f]
    BY <1>5, <1>6, <2>1, <2>2 DEF Includes
  <2>4. QED
    BY <1>3, <1>7, <1>8, <2>2, <2>3 DEF VolumeCopy, Untouched
<1>9. CASE pc[q] \in {"reply", "done"} /\ ~ VolumeUnwanted(call[q].volume)
  <2>1. Dest(q) \in DOMAIN dir /\ (q \in unnoticed \/ Includes(dir[Dest(q)], since[q]))
    BY <1>1, <1>2, <1>9 DEF Fine, VolumeCopy
  <2>2. Dest(q) \in DOMAIN dir' /\ Includes(dir'[Dest(q)], dir[Dest(q)])
    BY <1>2, <1>9, <2>1
  <2>3. q \in unnoticed \/ Includes(dir'[Dest(q)], since[q])
    BY <1>5, <1>6, <2>1, <2>2 DEF Includes
  <2>4. QED
    BY <1>3, <1>7, <1>9, <2>2, <2>3 DEF VolumeCopy, Untouched, Includes
<1>10. CASE /\ pc[q] # "copy"
            /\ ~ (pc[q] \in {"reply", "done"} /\ ~ VolumeUnwanted(call[q].volume))
  BY <1>3, <1>7, <1>10 DEF VolumeCopy, Untouched
<1>11. QED
  BY <1>8, <1>9, <1>10

\* Where nothing is stored or removed, what was made is as it was.
LEMMA StorageStays ==
  ASSUME IInv, NothingLost, dir' = dir, repo' = repo
  PROVE  /\ MadeThingsGrow
         /\ \A p \in Requests : Is(p, "CreateSnapshot") /\ Done(p) =>
                                  (SnapshotExists(sid[p])' <=> SnapshotExists(sid[p]))
<1>1. Types
  BY DEF IInv
<1>2. ASSUME NEW v \in Volumes PROVE VolumeGrows(v)
  <2>1. SUFFICES ASSUME VolumePath(v) \in DOMAIN dir
                 PROVE  Includes(dir[VolumePath(v)], dir[VolumePath(v)])
    BY DEF VolumeGrows, Includes
  <2>2. dir[VolumePath(v)] \in UpTo(writes) /\ writes \in Nat
    BY <1>1, <2>1, BoundsAssumption DEF Types
  <2>3. QED
    BY <2>2, IncludesSelf
<1>3. ASSUME NEW p \in Requests, Done(p)
      PROVE  /\ SnapshotExists(sid[p])' <=> SnapshotExists(sid[p])
             /\ SnapshotGrows(p)
  <2>1. sid'[p] = sid[p]
    BY <1>3 DEF NothingLost
  <2>2. InRepo(sid[p])' = InRepo(sid[p])
    BY <2>1 DEF InRepo
  <2>3. /\ SnapshotExists(sid[p])' <=> SnapshotExists(sid[p])
        /\ SnapshotFiles(sid[p])' = SnapshotFiles(sid[p])
    BY <2>1, <2>2 DEF SnapshotExists, SnapshotFiles
  <2>4. SnapshotExists(sid[p]) => Includes(SnapshotFiles(sid[p]), SnapshotFiles(sid[p]))
    <3>1. writes \in Nat /\ sid[p] \in Ids
      BY <1>1, BoundsAssumption DEF Types
    <3>2. QED
      BY <1>1, <3>1, SnapshotsAreFiles, IncludesSelf
  <2>5. QED
    BY <2>3, <2>4 DEF SnapshotGrows, Includes
<1>4. QED
  BY <1>2, <1>3 DEF MadeThingsGrow

\* A request that a step does not touch stays fine where nothing is stored, unless another
\* call begins to copy into its directory.
LEMMA FineWhereNothingIsStored ==
  ASSUME IInv, NothingLost, Types', NEW q \in Requests, Untouched(q),
         dir' = dir, repo' = repo,
         \A r \in Requests :
            SameSnapshot(q, r) /\ ~ ToRepo(r) /\ pc'[r] = "copy" => pc[r] = "copy",
         UnwantedIsSettled(q)'
  PROVE  Fine(q)'
<1>1. pc'[q] = pc[q] /\ todo'[q] = todo[q] /\ sid'[q] = sid[q] /\ since'[q] = since[q]
  BY DEF Untouched
<1>2. InItsPlace(q)' /\ SourceWasMade(q)'
  BY <1>1, PlaceStays
<1>3. RepoSnapshot(q)'
  BY RepoStays
<1>4. DirSnapshot(q)'
  BY <1>1, DirStays
<1>5. MadeThingsGrow /\ SourceLasts(q)'
  <2>1. MadeThingsGrow
    BY StorageStays
  <2>2. pc[q] = "copy" /\ Copies(q) /\ SourceExists(q) => todo[q] \subseteq DOMAIN SourceFiles(q)
    BY DEF IInv, Fine, SourceLasts, Sent
  <2>3. QED
    BY <1>1, <2>1, <2>2, SourceLastsOn DEF Sent
<1>6. DeletedIsGone(q)'
  <2>1. \A p \in Requests : Deletes(q, p) /\ Done(p) /\ ~ SnapshotExists(sid[p])
                               => ~ SnapshotExists(sid[p])'
    <3>1. SUFFICES ASSUME NEW p \in Requests, Done(p), ~ SnapshotExists(sid[p])
                   PROVE  ~ SnapshotExists(sid[p])'
      OBVIOUS
    <3>2. sid'[p] = sid[p]
      BY <3>1 DEF NothingLost
    <3>3. QED
      BY <3>1, <3>2 DEF SnapshotExists, InRepo
  <2>2. QED
    BY <1>1, <2>1, GoneStays
<1>7. VolumeCopy(q)'
  <2>1. Dest(q) \in DOMAIN dir => Includes(dir[Dest(q)], dir[Dest(q)])
    <3>1. writes \in Nat /\ \A p \in DOMAIN dir : dir[p] \in UpTo(writes)
      BY BoundsAssumption DEF IInv, Types
    <3>2. QED
      BY <3>1, IncludesSelf
  <2>2. QED
    BY <2>1, CopyStays
<1>8. QED
  BY <1>2, <1>3, <1>4, <1>5, <1>6, <1>7 DEF Fine

----------------------------------------------------------------------------
(* What a step leaves of the request that it moves.                        *)

\* A handler that runs goes on to a step x, throws, or is done.
LEMMA MoveIs ==
  ASSUME Types, NEW r \in Requests, Running(r), NEW x \in Steps, x # "idle",
         call' = call, pc' = [pc EXCEPT ![r] = x],
         \A q \in Requests \ {r} : sid'[q] = sid[q]
  PROVE  /\ NothingNew /\ pc' \in [Requests -> Steps] /\ pc'[r] = x
         /\ \A q \in Requests \ {r} : pc'[q] = pc[q]
         /\ \A q \in Requests : Running(q)' => Running(q)
BY DEF Types, NothingNew, NothingLost, Running, Done

\* A handler runs for what is still wanted, from what was there.
LEMMA RunnerStays ==
  ASSUME IInv, NothingNew, NEW r \in Requests, Unfinished(r)
  PROVE  /\ SourceWasMade(r)' /\ UnwantedIsSettled(r)'
         /\ Is(r, "CreateVolume") => ~ VolumeUnwanted(call[r].volume)
                                     /\ ~ VolumeUnwanted(call[r].volume)'
         /\ Is(r, "CreateSnapshot") => ~ SnapshotUnwanted(r) /\ ~ SnapshotUnwanted(r)'
<1>1. call' = call /\ Fine(r) /\ call \in Plans /\ Sent(r)
  BY DEF IInv, NothingNew, NothingLost, Types, Unfinished, Sent
<1>2. \A v \in Volumes : VolumeMade(v) => VolumeMade(v)'
  BY <1>1 DEF NothingNew, NothingLost, VolumeMade, Is, Done
<1>3. SourceWasMade(r)'
  BY <1>1, <1>2
     DEF Fine, SourceWasMade, Sent, FromVolume, FromSnapshot, Deletes, Is, NothingNew,
        NothingLost,
         Done
<1>4. /\ Is(r, "CreateVolume") => ~ VolumeUnwanted(call[r].volume)
      /\ Is(r, "CreateSnapshot") => ~ SnapshotUnwanted(r)
  BY <1>1 DEF Fine, UnwantedIsSettled, Unfinished
<1>5. /\ Is(r, "CreateVolume") => ~ VolumeUnwanted(call[r].volume)'
      /\ Is(r, "CreateSnapshot") => ~ SnapshotUnwanted(r)'
  <2>1. call[r].volume \in Volumes
    BY <1>1, CallsAre
  <2>2. QED
    BY <1>1, <1>4, <2>1, NoNewWishes
<1>6. UnwantedIsSettled(r)'
  BY <1>1, <1>5 DEF UnwantedIsSettled, Is
<1>7. QED
  BY <1>3, <1>4, <1>5, <1>6

\* A request that is not answered for says little.
LEMMA FineWhenPending ==
  ASSUME IInv, Types', NothingNew, MadeThingsGrow, NEW r \in Requests, Running(r),
         pc'[r] = "pending", since'[r] = since[r]
  PROVE  Fine(r)'
<1>1. call' = call /\ Fine(r) /\ NothingLost /\ (Sent(r)' => Sent(r))
  BY DEF IInv, NothingNew, NothingLost, Sent, Running
<1>2. SourceWasMade(r)' /\ UnwantedIsSettled(r)'
  BY RunnerStays DEF Running, Unfinished
<1>3. SourceLasts(r)'
  BY <1>1, SourceLastsOn
<1>4. InItsPlace(r)'
  BY DEF InItsPlace
<1>5. RepoSnapshot(r)' /\ DirSnapshot(r)' /\ DeletedIsGone(r)'
  BY DEF RepoSnapshot, DirSnapshot, DeletedIsGone
<1>6. VolumeCopy(r)'
  BY <1>1 DEF VolumeCopy, Fine, Is, Copies
<1>7. QED
  BY <1>2, <1>3, <1>4, <1>5, <1>6 DEF Fine

\* What is said of all requests and of repositories stays when neither moves.
LEMMA OneAtATimeStays ==
  ASSUME IInv, call' = call, \A q \in Requests : Running(q)' => Running(q)
  PROVE  OneAtATime'
BY DEF IInv, OneAtATime, SameSnapshot, Is

\* The backups in the repositories are as they were, and so are their owners.
LEMMA BackupsStay ==
  ASSUME IInv, call' = call, repo' = repo,
         \A q \in Requests : Sent(q) => Sent(q)' /\ since'[q] = since[q],
         \A q \in Requests : pc'[q] = "tag" => pc[q] = "tag" /\ sid'[q] = sid[q]
  PROVE  BackupsHaveOwners' /\ BackupsAreDistinct' /\ TaggedBackupsAreComplete'
<1>1. BackupsHaveOwners'
  BY DEF IInv, BackupsHaveOwners
<1>2. BackupsAreDistinct'
  BY DEF IInv, BackupsAreDistinct
<1>3. TaggedBackupsAreComplete'
  BY DEF IInv, TaggedBackupsAreComplete, Is, Includes
<1>4. QED
  BY <1>1, <1>2, <1>3

\* A step of r that stores nothing.
LEMMA FineWithoutStoring ==
  ASSUME IInv, NothingNew, Types', NEW r \in Requests, Running(r),
         dir' = dir, repo' = repo, since' = since,
         \A q \in Requests \ {r} : Untouched(q),
         pc'[r] # "tag", pc'[r] = "copy" => pc[r] = "copy" \/ ToRepo(r),
         Fine(r)'
  PROVE  IInv'
<1>1. \A q \in Requests \ {r} : pc'[q] = pc[q] /\ sid'[q] = sid[q]
  BY DEF Untouched
<1>2. \A q \in Requests \ {r} : Fine(q)'
  BY <1>1, PlaceStays, FineWhereNothingIsStored DEF NothingNew
<1>3. /\ \A q \in Requests : Running(q)' => Running(q)
      /\ \A q \in Requests : Sent(q) => Sent(q)'
      /\ \A q \in Requests : pc'[q] = "tag" => pc[q] = "tag" /\ sid'[q] = sid[q]
  BY <1>1 DEF Running, Sent, NothingNew, NothingLost
<1>4. /\ OneAtATime' /\ BackupsHaveOwners'
      /\ BackupsAreDistinct' /\ TaggedBackupsAreComplete'
  BY <1>3, OneAtATimeStays, BackupsStay DEF NothingNew, NothingLost
<1>5. QED
  BY <1>2, <1>4 DEF IInv

----------------------------------------------------------------------------
(* Steps that store nothing.                                               *)

\* The types of what a step leaves alone stay.
LEMMA TypesStay ==
  ASSUME Types, call' = call, since' = since, dir' = dir, repo' = repo, lastId' = lastId,
         writes' = writes, faults' \in 0..MaxFaults,
         pc' \in [Requests -> Steps], todo' \in [Requests -> SUBSET Files],
         buf' \in [Requests -> UpTo(writes)], sid' \in [Requests -> Ids],
         unnoticed' \subseteq Requests
  PROVE  Types'
BY DEF Types, Ids, Backups, UpTo

\* A handler copies nothing that is not there any more, and knows no id before it is found.
LEMMA StepStoresNothing ==
  ASSUME IInv, NEW r \in Requests, Running(r), NEW x \in Steps, x \notin {"idle", "tag"},
         UNCHANGED <<call, since, storage, bounds>>, pc' = [pc EXCEPT ![r] = x],
         todo' \in [Requests -> SUBSET Files], buf' \in [Requests -> UpTo(writes)],
         sid' \in [Requests -> Ids], unnoticed' \subseteq Requests,
         \A q \in Requests \ {r} :
            /\ todo'[q] = todo[q] /\ buf'[q] = buf[q] /\ sid'[q] = sid[q]
            /\ q \in unnoticed' <=> q \in unnoticed,
         x = "copy" /\ Copies(r) /\ SourceExists(r)
           => todo'[r] \subseteq DOMAIN SourceFiles(r),
         x = "copy" => pc[r] = "copy" \/ ToRepo(r)
  PROVE  /\ NothingNew /\ Types' /\ SourceWasMade(r)' /\ UnwantedIsSettled(r)'
         /\ SourceLasts(r)' /\ pc'[r] = x
         /\ InItsPlace(r)' /\ RepoSnapshot(r)' /\ DirSnapshot(r)' /\ DeletedIsGone(r)'
               /\ VolumeCopy(r)' => IInv'
<1>1. call' = call /\ since' = since /\ dir' = dir /\ repo' = repo /\ lastId' = lastId
        /\ writes' = writes /\ faults' = faults /\ Types
  BY DEF storage, bounds, IInv
<1>2. /\ NothingNew /\ NothingLost /\ pc' \in [Requests -> Steps] /\ pc'[r] = x
      /\ \A q \in Requests \ {r} : pc'[q] = pc[q]
  BY <1>1, MoveIs DEF NothingNew
<1>3. Types'
  BY <1>1, <1>2, TypesStay DEF Types
<1>4. SourceWasMade(r)' /\ UnwantedIsSettled(r)'
  BY <1>2, RunnerStays DEF Running, Unfinished
<1>5. SourceLasts(r)'
  BY <1>1, <1>2, <1>3, StorageStays, SourceLastsOn DEF Running, Sent
<1>6. \A q \in Requests \ {r} : Untouched(q)
  BY <1>1, <1>2 DEF Untouched
<1>7. ASSUME InItsPlace(r)', RepoSnapshot(r)', DirSnapshot(r)', DeletedIsGone(r)',
             VolumeCopy(r)'
      PROVE  IInv'
  <2>1. Fine(r)'
    BY <1>4, <1>5, <1>7 DEF Fine
  <2>2. QED
    BY <1>1, <1>2, <1>3, <1>6, <2>1, FineWithoutStoring
<1>8. QED
  BY <1>2, <1>3, <1>4, <1>5, <1>7

\* The command of CreateVolume is through.
LEMMA VolumeCopiedKeeps ==
  ASSUME IInv, NEW r \in Requests, VolumeCopied(r)
  PROVE  IInv'
<1>1. /\ pc[r] = "copy" /\ todo[r] = {} /\ Is(r, "CreateVolume") /\ Types /\ Fine(r)
      /\ Running(r) /\ ~ Is(r, "CreateSnapshot") /\ ~ Is(r, "DeleteSnapshot")
      /\ ~ Is(r, "DeleteVolume")
  BY DEF VolumeCopied, Copied, On, IInv, Running, Is
<1>2. /\ UNCHANGED <<call, since, storage, bounds>> /\ pc' = [pc EXCEPT ![r] = "reply"]
      /\ UNCHANGED <<todo, buf, sid, unnoticed, dir>>
  BY DEF VolumeCopied, Go, locals, storage
<1>3. /\ NothingNew /\ pc'[r] = "reply" /\ Types'
      /\ InItsPlace(r)' /\ RepoSnapshot(r)' /\ DirSnapshot(r)' /\ DeletedIsGone(r)'
            /\ VolumeCopy(r)' => IInv'
  BY <1>1, <1>2, StepStoresNothing DEF Types, Steps
<1>4. call' = call /\ since'[r] = since[r] /\ (Copies(r)' <=> Copies(r)) /\ Dest(r)' = Dest(r)
  BY <1>2, CallStays
<1>5. InItsPlace(r)' /\ RepoSnapshot(r)' /\ DirSnapshot(r)' /\ DeletedIsGone(r)'
  BY <1>1, <1>3, <1>4 DEF InItsPlace, RepoSnapshot, DirSnapshot, DeletedIsGone, Is,
     Deletes, ToRepo
<1>6. VolumeCopy(r)'
  <2>1. /\ Dest(r) \in DOMAIN dir
        /\ \A f \in DOMAIN since[r] :
             \/ r \in unnoticed
             \/ f \in DOMAIN dir[Dest(r)] /\ dir[Dest(r)][f] >= since[r][f]
        /\ ~ Copies(r) => since[r] = NoFiles
    BY <1>1 DEF Fine, VolumeCopy
  <2>2. QED
    BY <1>2, <1>3, <1>4, <2>1 DEF VolumeCopy, Includes
<1>7. QED
  BY <1>3, <1>5, <1>6

\* A request is answered.
LEMMA ReplyKeeps ==
  ASSUME IInv, NEW r \in Requests, Reply(r)
  PROVE  IInv'
<1>1. pc[r] = "reply" /\ Types /\ Fine(r) /\ Running(r)
  BY DEF Reply, On, IInv, Running
<1>2. /\ UNCHANGED <<call, since, storage, bounds>> /\ pc' = [pc EXCEPT ![r] = "done"]
      /\ UNCHANGED <<todo, buf, sid, unnoticed, dir, repo>>
  BY DEF Reply, locals, storage
<1>3. /\ NothingNew /\ pc'[r] = "done" /\ Types'
      /\ \A q \in Requests \ {r} : pc'[q] = pc[q]
      /\ InItsPlace(r)' /\ RepoSnapshot(r)' /\ DirSnapshot(r)' /\ DeletedIsGone(r)'
            /\ VolumeCopy(r)' => IInv'
  BY <1>1, <1>2, StepStoresNothing DEF Types, Steps
<1>4. /\ call' = call /\ NothingLost
      /\ Copies(r)' <=> Copies(r)
      /\ Dest(r)' = Dest(r) /\ (ToRepo(r)' <=> ToRepo(r)) /\ IdOf(call[r])' = IdOf(call[r])
      /\ \A m \in Methods : Is(r, m)' <=> Is(r, m)
      /\ \A q \in Requests : /\ Deletes(r, q)' <=> Deletes(r, q)
                             /\ SameSnapshot(r, q)' <=> SameSnapshot(r, q)
  BY <1>2, <1>3, CallStays DEF NothingNew
<1>5. /\ SnapshotUnwanted(r) => SnapshotUnwanted(r)'
      /\ \A v \in Volumes : VolumeUnwanted(v) => VolumeUnwanted(v)'
  BY <1>4, WishesStay
<1>6. InItsPlace(r)'
  BY <1>1, <1>3 DEF InItsPlace
<1>7. RepoSnapshot(r)'
  <2>1. Matches(r)' = Matches(r) /\ InRepo(sid[r])' = InRepo(sid[r]) /\ sid'[r] = sid[r]
    BY <1>2 DEF Matches, InRepo
  <2>2. QED
    BY <1>1, <1>3, <1>4, <1>5, <2>1 DEF Fine, RepoSnapshot
<1>8. DirSnapshot(r)'
  <2>1. \A q \in Requests : SameSnapshot(r, q) => pc'[q] # "copy" \/ pc[q] = "copy"
    BY <1>3
  <2>2. QED
    BY <1>1, <1>2, <1>3, <1>4, <1>5, <2>1 DEF Fine, DirSnapshot, Methods
<1>9. DeletedIsGone(r)'
  <2>1. \A q \in Requests : SnapshotExists(sid[q])' <=> SnapshotExists(sid[q])
    BY <1>2 DEF SnapshotExists, InRepo
  <2>2. QED
    BY <1>1, <1>4, <2>1 DEF Fine, DeletedIsGone
<1>10. VolumeCopy(r)'
  <2>1. call[r].volume \in Volumes
    BY <1>1, CallsAre DEF Types
  <2>2. QED
    BY <1>1, <1>2, <1>3, <1>4, <1>5, <2>1 DEF Fine, VolumeCopy, Methods, Includes
<1>11. QED
  BY <1>3, <1>6, <1>7, <1>8, <1>9, <1>10

\* Handlers throw, or die.
LEMMA ThrowsKeeps ==
  ASSUME IInv, NEW rs \in SUBSET Requests, \A r \in rs : Running(r), Throws(rs),
         UNCHANGED <<call, since, storage, unnoticed, writes>>, faults' \in 0..MaxFaults
  PROVE  IInv'
<1>1. /\ call' = call /\ since' = since /\ dir' = dir /\ repo' = repo /\ lastId' = lastId
      /\ unnoticed' = unnoticed /\ writes' = writes /\ Types
  BY DEF storage, IInv
<1>2. /\ \A r \in rs : pc'[r] = "pending"
      /\ \A r \in Requests \ rs : Untouched(r)
      /\ pc' \in [Requests -> Steps]
  <2>1. /\ \A r \in rs : pc'[r] = "pending"
        /\ pc' \in [Requests -> Steps]
    BY <1>1 DEF Throws, Types, Steps
  <2>2. \A r \in Requests \ rs : Untouched(r)
    BY <1>1 DEF Throws, Untouched
  <2>3. QED
    BY <2>1, <2>2
<1>3. Types'
  <2>1. todo' \in [Requests -> SUBSET Files]
    BY <1>1 DEF Throws, Types
  <2>2. buf' \in [Requests -> UpTo(writes)]
    BY <1>1, NoFilesAreFiles DEF Throws, Types
  <2>3. sid' \in [Requests -> Ids]
    BY <1>1 DEF Throws, Types, Ids
  <2>4. QED
    BY <1>1, <1>2, <2>1, <2>2, <2>3, TypesStay DEF Types
<1>4. NothingNew /\ NothingLost
  BY <1>1, <1>2 DEF NothingNew, NothingLost, Running, Done, Untouched
<1>5. ASSUME NEW r \in rs PROVE Fine(r)'
  BY <1>1, <1>2, <1>3, <1>4, StorageStays, FineWhenPending
<1>6. ASSUME NEW q \in Requests \ rs PROVE Fine(q)'
  <2>1. \A r \in Requests : pc'[r] = "copy" => pc[r] = "copy"
    BY <1>2 DEF Untouched
  <2>2. UnwantedIsSettled(q)'
    BY <1>2, <1>4, PlaceStays DEF Untouched
  <2>3. QED
    BY <1>1, <1>2, <1>3, <1>4, <2>1, <2>2, FineWhereNothingIsStored
<1>7. /\ \A q \in Requests : Running(q)' => Running(q)
      /\ \A q \in Requests : Sent(q) => Sent(q)' /\ since'[q] = since[q]
      /\ \A q \in Requests : pc'[q] = "tag" => pc[q] = "tag" /\ sid'[q] = sid[q]
  BY <1>1, <1>2 DEF Running, Sent, Untouched
<1>8. OneAtATime' /\ BackupsHaveOwners' /\ BackupsAreDistinct' /\ TaggedBackupsAreComplete'
  BY <1>1, <1>7, OneAtATimeStays, BackupsStay
<1>9. QED
  BY <1>3, <1>5, <1>6, <1>8 DEF IInv

\* One handler throws.
LEMMA ThrowKeeps ==
  ASSUME IInv, NEW r \in Requests, Running(r), Throw(r), UNCHANGED <<storage, unnoticed>>
  PROVE  IInv'
<1>1. {r} \in SUBSET Requests /\ \A q \in {r} : Running(q)
  OBVIOUS
<1>2. Throws({r}) /\ UNCHANGED <<call, since, storage, unnoticed, writes>> /\ faults' = faults
  BY DEF Throw, bounds
<1>3. faults' \in 0..MaxFaults
  BY <1>2 DEF IInv, Types
<1>4. QED
  BY <1>1, <1>2, <1>3, ThrowsKeeps

\* A snapshot's name has one snapshot in a repository, and its id is only its own.
LEMMA MatchesAreOne ==
  ASSUME IInv, NEW r \in Requests, NEW s \in Matches(r)
  PROVE  Matches(r) = {s} /\ InRepo(<<call[r].driver, s.id>>) = {s}
<1>1. s \in repo /\ s.driver = call[r].driver /\ s.volume = call[r].volume
        /\ s.name = call[r].name /\ s.name # NoName
  BY CallsAre DEF Matches, IInv, Types
<1>2. \A t \in repo : /\ t.id = s.id => t = s
                      /\ t.name = s.name /\ t.driver = s.driver /\ t.volume = s.volume => t = s
  BY <1>1 DEF IInv, BackupsAreDistinct
<1>3. Matches(r) = {s}
  BY <1>1, <1>2 DEF Matches
<1>4. InRepo(<<call[r].driver, s.id>>) = {s}
  BY <1>1, <1>2 DEF InRepo
<1>5. QED
  BY <1>3, <1>4

\* CreateSnapshot has found the snapshot, and answers with its id.
LEMMA FoundKeeps ==
  ASSUME IInv, NEW r \in Requests, Is(r, "CreateSnapshot"), Running(r),
         NEW id \in Ids, Found(r, id),
         ToRepo(r) => id[1] = call[r].driver /\ Matches(r) = InRepo(id) /\ Matches(r) # {},
         ~ ToRepo(r) => id = IdOf(call[r]) /\ Dest(r) \in DOMAIN dir
  PROVE  IInv'
<1>1. /\ Types /\ Fine(r)
      /\ ~ Is(r, "CreateVolume") /\ ~ Is(r, "DeleteSnapshot") /\ ~ Is(r, "DeleteVolume")
  BY DEF IInv, Is
<1>2. /\ UNCHANGED <<call, since, storage, bounds>> /\ pc' = [pc EXCEPT ![r] = "reply"]
      /\ UNCHANGED <<todo, buf, unnoticed, dir, repo>> /\ sid' = [sid EXCEPT ![r] = id]
  BY DEF Found, Go, storage
<1>3. /\ NothingNew /\ pc'[r] = "reply" /\ sid'[r] = id
      /\ \A q \in Requests \ {r} : pc'[q] = pc[q]
      /\ InItsPlace(r)' /\ RepoSnapshot(r)' /\ DirSnapshot(r)' /\ DeletedIsGone(r)'
            /\ VolumeCopy(r)' => IInv'
  <2>1. sid' \in [Requests -> Ids] /\ sid'[r] = id /\ \A q \in Requests \ {r} : sid'[q] = sid[q]
    BY <1>1, <1>2 DEF Types
  <2>2. "reply" \in Steps
    BY DEF Steps
  <2>3. QED
    BY <1>1, <1>2, <2>1, <2>2, StepStoresNothing DEF Types
<1>4. /\ call' = call
      /\ Dest(r)' = Dest(r) /\ (ToRepo(r)' <=> ToRepo(r)) /\ IdOf(call[r])' = IdOf(call[r])
      /\ \A q \in Requests : SameSnapshot(r, q)' <=> SameSnapshot(r, q)
  BY <1>2, CallStays
<1>5. InItsPlace(r)' /\ DeletedIsGone(r)' /\ VolumeCopy(r)'
  BY <1>1, <1>3, <1>4 DEF InItsPlace, DeletedIsGone, VolumeCopy, Is, Deletes
<1>6. RepoSnapshot(r)'
  <2>1. Matches(r)' = Matches(r) /\ InRepo(sid[r])' = InRepo(id)
    BY <1>2, <1>3 DEF Matches, InRepo
  <2>2. QED
    BY <1>3, <1>4, <2>1 DEF RepoSnapshot
<1>7. DirSnapshot(r)'
  <2>1. \A q \in Requests : SameSnapshot(r, q) => pc'[q] # "copy"
    BY <1>3 DEF IInv, OneAtATime, SameSnapshot, Running
  <2>2. QED
    BY <1>2, <1>3, <1>4, <2>1 DEF DirSnapshot
<1>8. QED
  BY <1>3, <1>5, <1>6, <1>7

\* A directory has been cut.
LEMMA DirCutKeeps ==
  ASSUME IInv, NEW r \in Requests, DirCut(r)
  PROVE  IInv'
<1>1. /\ pc[r] = "copy" /\ Is(r, "CreateSnapshot") /\ ~ ToRepo(r) /\ Fine(r)
      /\ Running(r) /\ Found(r, IdOf(call[r])) /\ call \in Plans
  BY DEF DirCut, Copied, On, ToRepo, IInv, Running, Types
<1>2. Dest(r) \in DOMAIN dir
  BY <1>1 DEF Fine, DirSnapshot
<1>3. IdOf(call[r]) \in Ids
  BY <1>1, CallsAre DEF IdOf, Ids, Paths
<1>4. QED
  BY <1>1, <1>2, <1>3, FoundKeeps

\* The new id of a tagged snapshot is found.
LEMMA LookupKeeps ==
  ASSUME IInv, NEW r \in Requests, Lookup(r)
  PROVE  IInv'
<1>1. /\ pc[r] = "lookup" /\ Types /\ Fine(r) /\ Running(r) /\ call[r].method \in Methods
  BY CallsAre DEF Lookup, On, IInv, Running, Types
<1>2. Is(r, "CreateSnapshot") /\ call[r].driver = "restic" /\ ToRepo(r)
  BY <1>1 DEF Fine, InItsPlace, Is, Methods, ToRepo
<1>3. ASSUME NEW s \in Matches(r), Found(r, <<"restic", s.id>>) PROVE IInv'
  <2>1. s \in Backups
    BY <1>1 DEF Matches, Types
  <2>2. <<"restic", s.id>> \in Ids
    BY <2>1 DEF Backups, Ids
  <2>3. Matches(r) = InRepo(<<"restic", s.id>>) /\ Matches(r) # {}
    BY <1>2, MatchesAreOne
  <2>4. QED
    BY <1>1, <1>2, <1>3, <2>2, <2>3, FoundKeeps
<1>4. CASE Throw(r) /\ UNCHANGED <<storage, unnoticed>>
  BY <1>1, <1>4, ThrowKeeps
<1>5. QED
  BY <1>3, <1>4 DEF Lookup

\* A repository is searched for the snapshot, and a backup begun if there is none.
LEMMA SearchRepoKeeps ==
  ASSUME IInv, NEW r \in Requests, SearchRepo(r)
  PROVE  IInv'
<1>1. /\ pc[r] = "search" /\ Types /\ Fine(r) /\ Running(r) /\ Sent(r)
      /\ call[r].method \in Methods /\ call[r].driver \in Drivers
  BY CallsAre DEF SearchRepo, On, IInv, Running, Types, Sent
<1>2. Is(r, "CreateSnapshot") /\ ToRepo(r) /\ Copies(r)
        /\ ~ Is(r, "CreateVolume") /\ ~ Is(r, "DeleteSnapshot") /\ ~ Is(r, "DeleteVolume")
  BY <1>1 DEF Fine, InItsPlace, Is, Methods, ToRepo, SearchRepo, Copies
<1>3. CASE Matches(r) # {}
  <2>1. PICK s \in Matches(r) : TRUE
    BY <1>3
  <2>2. Matches(r) = {s} /\ InRepo(<<call[r].driver, s.id>>) = {s} /\ s \in Backups
    BY <1>1, MatchesAreOne DEF Matches, Types
  <2>3. Max({t.id : t \in Matches(r)}) = s.id
    <3>1. {t.id : t \in Matches(r)} = {s.id} /\ s.id \in 1..lastId /\ lastId \in Nat
      BY <1>1, <2>2 DEF Backups, Types
    <3>2. s.id \in Nat
      BY <3>1
    <3>3. QED
      BY <3>1, <3>2 DEF Max
  <2>4. <<call[r].driver, s.id>> \in Ids
    BY <1>1, <2>2 DEF Ids, Backups, Matches
  <2>5. Found(r, <<call[r].driver, s.id>>)
    BY <1>3, <2>3 DEF SearchRepo
  <2>6. QED
    BY <1>1, <1>2, <2>2, <2>4, <2>5, FoundKeeps
<1>4. CASE Matches(r) = {} /\ ~ SourceExists(r)
  BY <1>1, <1>4, ThrowKeeps DEF SearchRepo, Cut, storage
<1>5. CASE Matches(r) = {} /\ SourceExists(r)
  <2>1. /\ UNCHANGED <<call, since, storage, bounds>> /\ pc' = [pc EXCEPT ![r] = "copy"]
        /\ UNCHANGED <<buf, sid, unnoticed, repo>>
        /\ todo' = [todo EXCEPT ![r] = DOMAIN SourceFiles(r)]
    BY <1>5 DEF SearchRepo, Cut, Command, Go, storage
  <2>2. SourceFiles(r) \in UpTo(writes)
    BY <1>1, <1>2, <1>5, SourcesAreFiles
  <2>3. DOMAIN SourceFiles(r) \subseteq Files
    BY <2>2, UpToIs
  <2>4. /\ todo' \in [Requests -> SUBSET Files] /\ todo'[r] = DOMAIN SourceFiles(r)
        /\ \A q \in Requests \ {r} : todo'[q] = todo[q]
    BY <1>1, <2>1, <2>3 DEF Types
  <2>5. "copy" \in Steps
    BY DEF Steps
  <2>6. /\ pc'[r] = "copy"
        /\ InItsPlace(r)' /\ RepoSnapshot(r)' /\ DirSnapshot(r)' /\ DeletedIsGone(r)'
              /\ VolumeCopy(r)' => IInv'
    BY <1>1, <1>2, <2>1, <2>4, <2>5, StepStoresNothing DEF Types
  <2>7. call' = call /\ (Copies(r)' <=> Copies(r)) /\ (ToRepo(r)' <=> ToRepo(r))
    BY <2>1, CallStays
  <2>8. InItsPlace(r)' /\ DirSnapshot(r)' /\ DeletedIsGone(r)' /\ VolumeCopy(r)'
    BY <1>2, <2>6, <2>7 DEF InItsPlace, DirSnapshot, DeletedIsGone, VolumeCopy, Is, Deletes
  <2>9. RepoSnapshot(r)'
    <3>1. Matches(r)' = Matches(r) /\ since'[r] = since[r]
      BY <2>1 DEF Matches
    <3>2. DOMAIN since[r] \subseteq todo'[r]
      BY <1>1, <1>2, <1>5, <2>4 DEF Fine, SourceLasts, Includes
    <3>3. QED
      BY <1>5, <2>6, <3>1, <3>2 DEF RepoSnapshot
  <2>10. QED
    BY <2>6, <2>8, <2>9
<1>6. QED
  BY <1>3, <1>4, <1>5

\* A file that a command has yet to copy is there, and as new as it was.
LEMMA NextFile ==
  ASSUME IInv, NEW r \in Requests, pc[r] = "copy", SourceExists(r), NEW f \in todo[r]
  PROVE  /\ Copies(r) /\ f \in Files /\ SourceFiles(r)[f] \in 1..writes
         /\ f \in DOMAIN since[r] =>
              since[r][f] \in Nat /\ SourceFiles(r)[f] >= since[r][f]
<1>1. Types /\ Fine(r) /\ Copies(r) /\ Sent(r)
  BY DEF IInv, Fine, InItsPlace, Sent
<1>2. f \in DOMAIN SourceFiles(r) /\ Includes(SourceFiles(r), since[r])
  BY <1>1 DEF Fine, SourceLasts
<1>3. SourceFiles(r) \in UpTo(writes) /\ since[r] \in UpTo(writes)
  BY <1>1, SourcesAreFiles DEF Types
<1>4. /\ DOMAIN SourceFiles(r) \subseteq Files
      /\ \A y \in DOMAIN SourceFiles(r) : SourceFiles(r)[y] \in 1..writes
      /\ \A y \in DOMAIN since[r] : since[r][y] \in 1..writes
  BY <1>3, UpToIs
<1>5. QED
  BY <1>1, <1>2, <1>4 DEF Includes

\* A backup reads one more file.
LEMMA BackupReadsKeeps ==
  ASSUME IInv, NEW r \in Requests, CopyFile(r), ToRepo(r)
  PROVE  IInv'
<1>1. /\ pc[r] = "copy" /\ SourceExists(r) /\ Types /\ Fine(r) /\ Running(r)
      /\ ~ Is(r, "CreateVolume") /\ ~ Is(r, "DeleteSnapshot") /\ ~ Is(r, "DeleteVolume")
      /\ writes \in Nat
  BY BoundsAssumption DEF CopyFile, On, IInv, Running, ToRepo, Is, Types
<1>2. PICK f \in todo[r] : /\ todo' = [todo EXCEPT ![r] = @ \ {f}]
                           /\ buf' = [buf EXCEPT ![r] = With(@, f, SourceFiles(r)[f])]
                           /\ dir' = dir
  BY DEF CopyFile
<1>3. /\ Copies(r) /\ f \in Files /\ SourceFiles(r)[f] \in 1..writes
      /\ f \in DOMAIN since[r] => SourceFiles(r)[f] >= since[r][f]
  BY <1>1, NextFile
<1>4. With(buf[r], f, SourceFiles(r)[f]) \in UpTo(writes)
  BY <1>1, <1>3, WithFile DEF Types
<1>5. /\ todo' \in [Requests -> SUBSET Files] /\ buf' \in [Requests -> UpTo(writes)]
      /\ todo'[r] = todo[r] \ {f} /\ buf'[r] = With(buf[r], f, SourceFiles(r)[f])
      /\ \A q \in Requests \ {r} : todo'[q] = todo[q] /\ buf'[q] = buf[q]
  BY <1>1, <1>2, <1>4 DEF Types
<1>6. /\ UNCHANGED <<call, since, storage, bounds>> /\ UNCHANGED <<sid, unnoticed, repo>>
      /\ pc' = [pc EXCEPT ![r] = "copy"]
  BY <1>1, <1>2 DEF CopyFile, storage, Types
<1>7. todo'[r] \subseteq DOMAIN SourceFiles(r) /\ "copy" \in Steps
  BY <1>1, <1>3, <1>5 DEF Fine, SourceLasts, Sent, Steps
<1>8. /\ pc'[r] = "copy"
      /\ InItsPlace(r)' /\ RepoSnapshot(r)' /\ DirSnapshot(r)' /\ DeletedIsGone(r)'
            /\ VolumeCopy(r)' => IInv'
  BY <1>1, <1>5, <1>6, <1>7, StepStoresNothing DEF Types
<1>9. call' = call /\ (Copies(r)' <=> Copies(r)) /\ (ToRepo(r)' <=> ToRepo(r))
  BY <1>6, CallStays
<1>10. InItsPlace(r)' /\ DirSnapshot(r)' /\ DeletedIsGone(r)' /\ VolumeCopy(r)'
  BY <1>1, <1>3, <1>8, <1>9 DEF InItsPlace, DirSnapshot, DeletedIsGone, VolumeCopy, Is,
     Deletes,
     ToRepo, Fine
<1>11. RepoSnapshot(r)'
  <2>1. Matches(r)' = Matches(r) /\ since'[r] = since[r]
    BY <1>6 DEF Matches
  <2>2. /\ Matches(r) = {}
        /\ \A g \in DOMAIN since[r] :
             g \in todo[r] \/ (g \in DOMAIN buf[r] /\ buf[r][g] >= since[r][g])
    BY <1>1 DEF Fine, RepoSnapshot
  <2>3. ASSUME NEW g \in DOMAIN since[r]
        PROVE  g \in todo'[r] \/ (g \in DOMAIN buf'[r] /\ buf'[r][g] >= since[r][g])
    BY <1>3, <1>5, <2>2 DEF With
  <2>4. QED
    BY <1>8, <2>1, <2>2, <2>3 DEF RepoSnapshot
<1>12. QED
  BY <1>8, <1>10, <1>11

\* The source is gone: the handler throws, or kopia has restored nothing.
LEMMA SourceVanishesKeeps ==
  ASSUME IInv, NEW r \in Requests, SourceVanishes(r)
  PROVE  IInv'
<1>1. /\ pc[r] = "copy" /\ Types /\ Fine(r) /\ Running(r)
  BY DEF SourceVanishes, On, IInv, Running
<1>2. CASE Throw(r) /\ UNCHANGED unnoticed
  BY <1>1, <1>2, ThrowKeeps DEF SourceVanishes
<1>3. CASE /\ Is(r, "CreateVolume") /\ Go(r, "reply") /\ unnoticed' = unnoticed \cup {r}
           /\ todo' = [todo EXCEPT ![r] = {}] /\ UNCHANGED <<buf, sid>>
  <2>1. /\ UNCHANGED <<call, since, storage, bounds>> /\ UNCHANGED <<buf, sid, dir>>
        /\ pc' = [pc EXCEPT ![r] = "reply"] /\ "reply" \in Steps
        /\ unnoticed' \subseteq Requests /\ r \in unnoticed'
        /\ \A q \in Requests \ {r} : q \in unnoticed' <=> q \in unnoticed
    BY <1>1, <1>3 DEF SourceVanishes, Go, storage, Steps, Types
  <2>2. /\ todo' \in [Requests -> SUBSET Files]
        /\ \A q \in Requests \ {r} : todo'[q] = todo[q]
    BY <1>1, <1>3 DEF Types
  <2>3. /\ pc'[r] = "reply"
        /\ InItsPlace(r)' /\ RepoSnapshot(r)' /\ DirSnapshot(r)' /\ DeletedIsGone(r)'
              /\ VolumeCopy(r)' => IInv'
    BY <1>1, <2>1, <2>2, StepStoresNothing DEF Types
  <2>4. call' = call /\ (Copies(r)' <=> Copies(r)) /\ Dest(r)' = Dest(r) /\ since'[r] = since[r]
    BY <2>1, CallStays
  <2>5. InItsPlace(r)' /\ RepoSnapshot(r)' /\ DirSnapshot(r)' /\ DeletedIsGone(r)'
    BY <1>3, <2>3, <2>4 DEF InItsPlace, RepoSnapshot, ToRepo, DirSnapshot, DeletedIsGone,
       Is, Deletes
  <2>6. VolumeCopy(r)'
    BY <1>1, <1>3, <2>1, <2>3, <2>4 DEF VolumeCopy, Fine
  <2>7. QED
    BY <2>3, <2>5, <2>6
<1>4. QED
  BY <1>2, <1>3 DEF SourceVanishes

\* A command that failed is taken for one that has copied everything.
LEMMA UnnoticedKeeps ==
  ASSUME IInv, NEW r \in Requests, Unnoticed(r)
  PROVE  IInv'
<1>1. /\ pc[r] = "copy" /\ Types /\ Fine(r) /\ Running(r)
  BY DEF Unnoticed, On, IInv, Running
<1>2. ~ ToRepo(r)
  <2>1. SUFFICES ASSUME ToRepo(r) PROVE FALSE
    OBVIOUS
  <2>2. Is(r, "CreateSnapshot") /\ call[r].driver # "filecopy" /\ ~ Is(r, "CreateVolume")
    BY <2>1 DEF ToRepo, Is
  <2>3. call[r].source = <<"none">>
    BY <1>1, <2>2, PlansAssumption DEF Types, WellFormed, Is
  <2>4. Driver(r) = call[r].driver
    BY <2>2, <2>3 DEF Driver
  <2>5. QED
    BY <2>2, <2>4 DEF Unnoticed
<1>3. /\ UNCHANGED <<call, since, storage, bounds>> /\ UNCHANGED <<buf, sid, dir>>
      /\ pc' = [pc EXCEPT ![r] = "copy"] /\ "copy" \in Steps
      /\ unnoticed' \subseteq Requests /\ r \in unnoticed'
      /\ \A q \in Requests \ {r} : q \in unnoticed' <=> q \in unnoticed
  BY <1>1 DEF Unnoticed, storage, Steps, Types
<1>4. /\ todo' \in [Requests -> SUBSET Files] /\ todo'[r] = {}
      /\ \A q \in Requests \ {r} : todo'[q] = todo[q]
  BY <1>1 DEF Types, Unnoticed
<1>5. /\ pc'[r] = "copy" /\ \A q \in Requests : pc'[q] = pc[q]
      /\ InItsPlace(r)' /\ RepoSnapshot(r)' /\ DirSnapshot(r)' /\ DeletedIsGone(r)'
            /\ VolumeCopy(r)' => IInv'
  BY <1>1, <1>3, <1>4, StepStoresNothing DEF Types
<1>6. /\ call' = call /\ (Copies(r)' <=> Copies(r)) /\ (ToRepo(r)' <=> ToRepo(r))
      /\ Dest(r)' = Dest(r) /\ since'[r] = since[r]
      /\ \A m \in Methods : Is(r, m)' <=> Is(r, m)
  BY <1>3, CallStays
<1>7. InItsPlace(r)' /\ RepoSnapshot(r)' /\ DirSnapshot(r)' /\ DeletedIsGone(r)'
  BY <1>1, <1>2, <1>3, <1>5, <1>6
     DEF InItsPlace, RepoSnapshot, DirSnapshot, DeletedIsGone, Fine, Methods
<1>8. VolumeCopy(r)'
  BY <1>1, <1>3, <1>5, <1>6 DEF VolumeCopy, Fine, Methods
<1>9. QED
  BY <1>5, <1>7, <1>8

----------------------------------------------------------------------------
(* A call is sent.                                                         *)

\* What the CO owns is there, and is not unwanted.
LEMMA OwnedIsThere ==
  ASSUME IInv
  PROVE  /\ \A v \in Volumes : OwnsVolume(v) =>
              VolumeMade(v) /\ ~ VolumeUnwanted(v) /\ VolumePath(v) \in DOMAIN dir
         /\ \A q \in Requests : OwnsSnapshot(q) =>
              /\ Is(q, "CreateSnapshot") /\ Done(q) /\ ~ SnapshotUnwanted(q)
              /\ SnapshotExists(sid[q])
<1>1. Types
  BY DEF IInv
<1>2. ASSUME NEW v \in Volumes, OwnsVolume(v)
      PROVE  VolumeMade(v) /\ ~ VolumeUnwanted(v) /\ VolumePath(v) \in DOMAIN dir
  <2>1. ~ VolumeUnwanted(v)
    BY <1>2 DEF OwnsVolume, VolumeUnwanted
  <2>2. PICK p \in Requests : Is(p, "CreateVolume") /\ call[p].volume = v /\ Done(p)
    BY <1>2 DEF OwnsVolume
  <2>3. Fine(p) /\ Dest(p) = VolumePath(v)
    BY <2>2 DEF IInv, Dest
  <2>4. VolumePath(v) \in DOMAIN dir
    BY <2>1, <2>2, <2>3 DEF Fine, VolumeCopy, Done
  <2>5. QED
    BY <2>1, <2>2, <2>4 DEF VolumeMade
<1>3. ASSUME NEW q \in Requests, OwnsSnapshot(q)
      PROVE  /\ Is(q, "CreateSnapshot") /\ Done(q) /\ ~ SnapshotUnwanted(q)
             /\ SnapshotExists(sid[q])
  <2>1. Is(q, "CreateSnapshot") /\ Done(q) /\ Fine(q) /\ call[q].driver \in Drivers
    BY <1>1, <1>3, CallsAre DEF OwnsSnapshot, IInv, Types
  <2>2. ~ SnapshotUnwanted(q)
    <3>1. SUFFICES ASSUME NEW d \in Requests, NEW p \in Requests, Deletes(d, p),
                          SameSnapshot(p, q), Sent(d)
                   PROVE  FALSE
      BY DEF SnapshotUnwanted
    <3>2. Is(d, "DeleteSnapshot") /\ call[d].source[2] = p
      BY <3>1 DEF Deletes
    <3>3. QED
      BY <1>3, <3>1, <3>2 DEF OwnsSnapshot
  <2>3. CASE ToRepo(q)
    <3>1. sid[q][1] # "filecopy" /\ InRepo(sid[q]) # {}
      BY <2>1, <2>2, <2>3 DEF Fine, RepoSnapshot, Done, ToRepo
    <3>2. QED
      BY <2>1, <2>2, <3>1 DEF SnapshotExists
  <2>4. CASE ~ ToRepo(q)
    <3>1. sid[q] = <<"filecopy", Dest(q)>> /\ Dest(q) \in DOMAIN dir
      BY <2>1, <2>2, <2>4 DEF Fine, DirSnapshot, Done, IdOf, Dest, Is
    <3>2. QED
      BY <2>1, <2>2, <3>1 DEF SnapshotExists
  <2>5. QED
    BY <2>3, <2>4
<1>4. QED
  BY <1>2, <1>3

\* What the CO copies or deletes is its own.
LEMMA SendingIsRight ==
  ASSUME IInv, NEW r \in Requests, MaySend(r)
  PROVE  /\ \A v \in Volumes : FromVolume(r, v) => OwnsVolume(v)
         /\ \A q \in Requests : FromSnapshot(r, q) \/ Deletes(r, q) => OwnsSnapshot(q)
         /\ Copies(r) => SourceExists(r)
<1>1. call \in Plans /\ OwnsSource(r)
  BY DEF IInv, Types, MaySend
<1>2. \A v \in Volumes : FromVolume(r, v) => OwnsVolume(v) /\ SourceExists(r)
  BY <1>1, CopiedFromVolume, OwnedIsThere
<1>3. \A q \in Requests : FromSnapshot(r, q) => OwnsSnapshot(q) /\ SourceExists(r)
  BY <1>1, CopiedFromSnapshot, OwnedIsThere
<1>4. \A q \in Requests : Deletes(r, q) => OwnsSnapshot(q)
  BY <1>1 DEF Deletes, OwnsSource, Is
<1>5. QED
  BY <1>1, <1>2, <1>3, <1>4, SourcesAre

\* A call's handler begins, for the first time or again.
LEMMA StartKeeps ==
  ASSUME IInv, NEW r \in Requests, Start(r)
  PROVE  IInv'
<1>1. /\ Types /\ Fine(r) /\ call[r].method \in Methods
      /\ \A q \in Requests : call[q].volume \in Volumes
  BY CallsAre DEF IInv, Types
<1>2. /\ pc[r] \in {"idle", "pending"} /\ ~ Locked(r) /\ (pc[r] = "idle" => MaySend(r))
      /\ pc' = [pc EXCEPT ![r] = FirstStep(r)]
      /\ call' = call /\ todo' = todo /\ buf' = buf /\ sid' = sid /\ dir' = dir /\ repo' = repo
      /\ lastId' = lastId /\ unnoticed' = unnoticed /\ writes' = writes /\ faults' = faults
      /\ since' = IF Sent(r) \/ ~ Copies(r) THEN since ELSE [since EXCEPT ![r] = SourceFiles(r)]
  BY DEF Start, locals, storage, bounds
<1>3. /\ pc' \in [Requests -> Steps] /\ pc'[r] \in {"mkdir", "search", "remove"}
      /\ Is(r, "CreateVolume") => pc'[r] = "mkdir"
      /\ Is(r, "CreateSnapshot") => pc'[r] = "search"
      /\ Is(r, "DeleteVolume") \/ Is(r, "DeleteSnapshot") => pc'[r] = "remove"
      /\ \A q \in Requests \ {r} : pc'[q] = pc[q]
  <2>1. /\ FirstStep(r) \in {"mkdir", "search", "remove"}
        /\ Is(r, "CreateVolume") => FirstStep(r) = "mkdir"
        /\ Is(r, "CreateSnapshot") => FirstStep(r) = "search"
        /\ Is(r, "DeleteVolume") \/ Is(r, "DeleteSnapshot") => FirstStep(r) = "remove"
    BY <1>1 DEF FirstStep, Is, Methods
  <2>2. QED
    BY <1>1, <1>2, <2>1 DEF Types, Steps
<1>4. NothingLost /\ \A q \in Requests : Sent(q) => Sent(q)'
  BY <1>2, <1>3 DEF NothingLost, Done, Sent
<1>5. /\ \A q \in Requests \ {r} : since'[q] = since[q]
      /\ since' \in [Requests -> UpTo(writes)]
      /\ pc[r] = "idle" /\ Copies(r) => since'[r] = SourceFiles(r) /\ SourceExists(r)
      /\ pc[r] = "pending" \/ ~ Copies(r) => since'[r] = since[r]
  <2>1. CASE pc[r] = "idle" /\ Copies(r)
    <3>1. SourceFiles(r) \in UpTo(writes) /\ SourceExists(r)
      BY <1>1, <1>2, <2>1, SendingIsRight, SourcesAreFiles
    <3>2. since' = [since EXCEPT ![r] = SourceFiles(r)]
      BY <1>2, <2>1 DEF Sent
    <3>3. QED
      BY <1>1, <2>1, <3>1, <3>2 DEF Types
  <2>2. CASE pc[r] = "pending" \/ ~ Copies(r)
    BY <1>1, <1>2, <2>2 DEF Types, Sent
  <2>3. QED
    BY <1>2, <2>1, <2>2
<1>6. Types'
  BY <1>1, <1>2, <1>3, <1>5 DEF Types, Ids, Backups, UpTo
<1>7. \A q \in Requests \ {r} : Untouched(q)
  BY <1>2, <1>3, <1>5 DEF Untouched
<1>8. MadeThingsGrow
  BY <1>2, <1>4, StorageStays
<1>9. OneAtATime'
  <2>1. \A q \in Requests : q # r /\ SameSnapshot(q, r) => ~ Running(q)
    <3>1. SUFFICES ASSUME NEW q \in Requests, q # r, SameSnapshot(q, r), Running(q)
                   PROVE  FALSE
      OBVIOUS
    <3>2. <<"create_snapshot_name", call[r].name>> \in Keys(q) \cap Keys(r)
      BY <3>1 DEF Keys, SameSnapshot, Is
    <3>3. QED
      BY <1>2, <3>1, <3>2 DEF Locked
  <2>2. \A q \in Requests \ {r} : Running(q)' <=> Running(q)
    BY <1>3 DEF Running
  <2>3. \A p, q \in Requests : SameSnapshot(p, q)' <=> SameSnapshot(p, q)
    BY <1>2 DEF SameSnapshot, Is
  <2>4. \A p, q \in Requests : SameSnapshot(p, q) <=> SameSnapshot(q, p)
    BY DEF SameSnapshot
  <2>5. QED
    BY <2>1, <2>2, <2>3, <2>4 DEF IInv, OneAtATime
<1>10. BackupsHaveOwners' /\ BackupsAreDistinct' /\ TaggedBackupsAreComplete'
  <2>1. \A q \in Requests : pc'[q] = "tag" => pc[q] = "tag" /\ sid'[q] = sid[q]
    BY <1>2, <1>3
  <2>2. BackupsHaveOwners' /\ BackupsAreDistinct'
    BY <1>2, <2>1 DEF IInv, BackupsHaveOwners, BackupsAreDistinct
  <2>3. TaggedBackupsAreComplete'
    <3>1. SUFFICES ASSUME NEW s \in repo, s.name # NoName
                   PROVE  \E p \in Requests :
                             /\ Is(p, "CreateSnapshot") /\ Sent(p)'
                             /\ call[p].driver = s.driver /\ call[p].volume = s.volume
                             /\ call[p].name = s.name
                             /\ Includes(s.files, since'[p])
      BY <1>2 DEF TaggedBackupsAreComplete, Is, Includes
    <3>2. PICK p \in Requests :
             /\ Is(p, "CreateSnapshot") /\ Sent(p)
             /\ call[p].driver = s.driver /\ call[p].volume = s.volume
             /\ call[p].name = s.name
             /\ Includes(s.files, since[p])
      BY <3>1 DEF IInv, TaggedBackupsAreComplete
    <3>3. since'[p] = since[p] /\ Sent(p)'
      BY <1>2, <1>4, <1>5, <3>2 DEF Sent
    <3>4. QED
      BY <3>2, <3>3
  <2>4. QED
    BY <2>2, <2>3
<1>11. \A q \in Requests : UnwantedIsSettled(q)'
  <2>1. CASE pc[r] = "pending"
    <3>1. NothingNew
      BY <1>3, <1>4, <2>1 DEF NothingNew
    <3>2. UnwantedIsSettled(r)'
      BY <2>1, <3>1, RunnerStays DEF Unfinished
    <3>3. QED
      BY <1>3, <1>4, <3>1, <3>2, PlaceStays
  <2>2. CASE pc[r] = "idle"
    <3>1. MaySend(r)
      BY <1>2, <2>2
    <3>2. SUFFICES ASSUME NEW q \in Requests, NEW d \in Requests, Sent(d)'
                   PROVE  /\ /\ Is(q, "CreateVolume") /\ Is(d, "DeleteVolume")
                             /\ call[d].volume = call[q].volume
                             => pc'[q] \in {"idle", "done"}
                          /\ \A p \in Requests :
                                /\ Is(q, "CreateSnapshot") /\ Deletes(d, p)
                                /\ SameSnapshot(p, q)
                                => pc'[q] \in {"idle", "done"}
      BY <1>2 DEF UnwantedIsSettled, VolumeUnwanted, SnapshotUnwanted, Is, Deletes,
         SameSnapshot
    <3>3. Is(d, "DeleteVolume") /\ d = q => ~ Is(q, "CreateVolume")
      BY DEF Is
    <3>4. \A p \in Requests : Deletes(d, p) =>
             Is(d, "DeleteSnapshot") /\ call[d].source[2] = p /\ ~ Is(d, "CreateSnapshot")
      BY DEF Deletes, Is
    <3>5. CASE d = r
      <4>1. q # r => pc'[q] = pc[q]
        BY <1>3
      <4>2. \A p \in Requests : SameSnapshot(p, q) => SameSnapshot(q, p)
        BY DEF SameSnapshot
      <4>3. QED
        BY <3>1, <3>3, <3>4, <3>5, <4>1, <4>2 DEF MaySend, Unfinished
    <3>6. CASE d # r /\ q = r
      <4>1. Sent(d)
        BY <1>3, <3>2, <3>6 DEF Sent
      <4>2. \A p \in Requests : SameSnapshot(p, q) => SameSnapshot(q, p)
        BY DEF SameSnapshot
      <4>3. QED
        BY <3>1, <3>4, <3>6, <4>1, <4>2 DEF MaySend
    <3>7. CASE d # r /\ q # r
      <4>1. Sent(d) /\ pc'[q] = pc[q] /\ Fine(q)
        BY <1>3, <3>2, <3>7 DEF Sent, IInv
      <4>2. QED
        BY <4>1 DEF Fine, UnwantedIsSettled, VolumeUnwanted, SnapshotUnwanted
    <3>8. QED
      BY <3>5, <3>6, <3>7
  <2>3. QED
    BY <1>2, <2>1, <2>2
<1>12. \A q \in Requests \ {r} : Fine(q)'
  <2>1. \A q \in Requests : pc'[q] = "copy" => pc[q] = "copy"
    BY <1>3
  <2>2. QED
    BY <1>2, <1>4, <1>6, <1>7, <1>11, <2>1, FineWhereNothingIsStored
<1>13. Fine(r)'
  <2>1. /\ Copies(r)' <=> Copies(r)
        /\ \A m \in Methods : Is(r, m)' <=> Is(r, m)
        /\ \A v \in Volumes : FromVolume(r, v)' <=> FromVolume(r, v)
        /\ \A q \in Requests : /\ FromSnapshot(r, q)' <=> FromSnapshot(r, q)
                               /\ Deletes(r, q)' <=> Deletes(r, q)
    BY <1>2, CallStays
  <2>2. InItsPlace(r)'
    BY <1>3, <2>1 DEF InItsPlace, Methods
  <2>3. SourceWasMade(r)'
    <3>1. /\ \A v \in Volumes : VolumeMade(v) => VolumeMade(v)'
          /\ \A q \in Requests : Is(q, "CreateSnapshot") /\ Done(q) =>
                                   Is(q, "CreateSnapshot")' /\ Done(q)'
      BY <1>4 DEF NothingLost, VolumeMade, Is, Done
    <3>2. CASE pc[r] = "pending"
      BY <1>1, <2>1, <3>1, <3>2 DEF Fine, SourceWasMade, Sent
    <3>3. CASE pc[r] = "idle"
      BY <1>2, <2>1, <3>1, <3>3, SendingIsRight, OwnedIsThere DEF SourceWasMade
    <3>4. QED
      BY <1>2, <3>2, <3>3
  <2>4. RepoSnapshot(r)' /\ DirSnapshot(r)' /\ DeletedIsGone(r)'
    BY <1>3 DEF RepoSnapshot, DirSnapshot, DeletedIsGone
  <2>5. SourceLasts(r)'
    <3>1. CASE pc[r] = "pending"
      BY <1>2, <1>3, <1>4, <1>5, <1>6, <1>8, <3>1, SourceLastsOn DEF Sent
    <3>2. CASE pc[r] = "idle" /\ Copies(r)
      <4>1. SourceFiles(r)' = SourceFiles(r)
        <5>1. call' = call /\ dir' = dir /\ repo' = repo /\ sid' = sid
          BY <1>2
        <5>2. QED
          BY <5>1 DEF SourceFiles, Is, SnapshotFiles, InRepo
      <4>2. SourceFiles(r) \in UpTo(writes) /\ writes \in Nat
        BY <1>1, <1>5, <3>2, SourcesAreFiles, BoundsAssumption DEF Types
      <4>3. Includes(SourceFiles(r)', since'[r])
        BY <1>5, <3>2, <4>1, <4>2, IncludesSelf
      <4>4. QED
        BY <1>3, <4>3 DEF SourceLasts, Includes
    <3>3. CASE ~ Copies(r)
      BY <2>1, <3>3 DEF SourceLasts
    <3>4. QED
      BY <1>2, <3>1, <3>2, <3>3
  <2>6. VolumeCopy(r)'
    BY <1>1, <1>3, <1>5, <2>1 DEF VolumeCopy, Fine, Methods
  <2>7. QED
    BY <1>11, <2>2, <2>3, <2>4, <2>5, <2>6 DEF Fine
<1>14. QED
  BY <1>6, <1>9, <1>10, <1>12, <1>13 DEF IInv

----------------------------------------------------------------------------
(* Steps at one directory.                                                 *)

OnlyAt(x) ==
    /\ repo' = repo
    /\ \A p \in Paths \ {x} :
          /\ p \in DOMAIN dir' <=> p \in DOMAIN dir
          /\ p \in DOMAIN dir => dir'[p] = dir[p]

\* What is copied to one path.
LEMMA PathsAre ==
  ASSUME call \in Plans, NEW q \in Requests, NEW r \in Requests
  PROVE  /\ Dest(q) \in Paths /\ VolumePath(call[q].volume) \in Paths
         /\ \A v \in Volumes :
               /\ VolumePath(v) \in Paths
               /\ Is(q, "CreateVolume") /\ Dest(q) = VolumePath(v) => call[q].volume = v
               /\ Is(q, "CreateSnapshot") => Dest(q) # VolumePath(v)
         /\ Dest(q) = Dest(r) =>
              /\ Is(q, "CreateVolume") /\ Is(r, "CreateVolume") => q = r
              /\ ~ (Is(q, "CreateVolume") /\ Is(r, "CreateSnapshot"))
              /\ Is(q, "CreateSnapshot") /\ ~ ToRepo(q) /\ Is(r, "CreateSnapshot") /\ ~ ToRepo(r)
                   => SameSnapshot(q, r)
<1>1. /\ call[q].volume \in Volumes /\ call[q].name \in Names
      /\ call[r].volume \in Volumes /\ call[r].name \in Names
  BY CallsAre
<1>2. /\ \A u, v : VolumePath(u) = VolumePath(v) => u = v
      /\ \A u, v, n, m : SnapshotPath(u, n) = SnapshotPath(v, m) => u = v /\ n = m
      /\ \A u, v, n : SnapshotPath(u, n) # VolumePath(v)
  BY DEF VolumePath, SnapshotPath
<1>3. \A v \in Volumes : VolumePath(v) \in Paths
  BY DEF Paths
<1>4. /\ Is(q, "CreateVolume") => Dest(q) = VolumePath(call[q].volume)
      /\ ~ Is(q, "CreateVolume") => Dest(q) = SnapshotPath(call[q].volume, call[q].name)
      /\ Is(r, "CreateVolume") => Dest(r) = VolumePath(call[r].volume)
      /\ ~ Is(r, "CreateVolume") => Dest(r) = SnapshotPath(call[r].volume, call[r].name)
      /\ Is(q, "CreateSnapshot") => ~ Is(q, "CreateVolume")
      /\ Is(r, "CreateSnapshot") => ~ Is(r, "CreateVolume")
  BY DEF Dest, Is
<1>5. Dest(q) \in Paths
  BY <1>1, <1>3, <1>4 DEF Paths
<1>6. \A v \in Volumes :
         /\ Is(q, "CreateVolume") /\ Dest(q) = VolumePath(v) => call[q].volume = v
         /\ Is(q, "CreateSnapshot") => Dest(q) # VolumePath(v)
  BY <1>2, <1>4
<1>7. ASSUME Dest(q) = Dest(r)
      PROVE  /\ Is(q, "CreateVolume") /\ Is(r, "CreateVolume") => q = r
             /\ ~ (Is(q, "CreateVolume") /\ Is(r, "CreateSnapshot"))
             /\ /\ Is(q, "CreateSnapshot") /\ ~ ToRepo(q)
                /\ Is(r, "CreateSnapshot") /\ ~ ToRepo(r)
                => SameSnapshot(q, r)
  <2>1. Is(q, "CreateVolume") /\ Is(r, "CreateVolume") => q = r
    BY <1>2, <1>4, <1>7, CallsAreWellFormed
  <2>2. ~ (Is(q, "CreateVolume") /\ Is(r, "CreateSnapshot"))
    BY <1>2, <1>4, <1>7
  <2>3. ASSUME Is(q, "CreateSnapshot"), ~ ToRepo(q), Is(r, "CreateSnapshot"), ~ ToRepo(r)
        PROVE  SameSnapshot(q, r)
    <3>1. call[q].driver = call[r].driver
      BY <2>3 DEF ToRepo
    <3>2. call[q].volume = call[r].volume /\ call[q].name = call[r].name
      BY <1>2, <1>4, <1>7, <2>3
    <3>3. QED
      BY <2>3, <3>1, <3>2, CallsAreWellFormed
  <2>4. QED
    BY <2>1, <2>2, <2>3
<1>8. QED
  BY <1>1, <1>3, <1>5, <1>6, <1>7

\* The id of a snapshot that is answered for.
LEMMA IdOfDone ==
  ASSUME IInv, NEW p \in Requests, Is(p, "CreateSnapshot"), Done(p)
  PROVE  /\ ToRepo(p) => /\ sid[p][1] = call[p].driver /\ sid[p][1] # "filecopy"
                         /\ Matches(p) = InRepo(sid[p])
         /\ ~ ToRepo(p) => sid[p] = <<"filecopy", Dest(p)>>
<1>1. Fine(p)
  BY DEF IInv
<1>2. QED
  BY <1>1 DEF Fine, RepoSnapshot, DirSnapshot, Done, ToRepo, IdOf, Dest, Is

\* Files that were made stay as they are but at the one directory.
LEMMA DirStepGrows ==
  ASSUME IInv, NothingLost, NEW x \in Paths, OnlyAt(x),
         \A v \in Volumes : VolumeMade(v) /\ VolumePath(v) = x => VolumeGrows(v),
         \A p \in Requests :
            Is(p, "CreateSnapshot") /\ Done(p) /\ ~ ToRepo(p) /\ Dest(p) = x
              => x \notin DOMAIN dir'
  PROVE  /\ MadeThingsGrow
         /\ \A p \in Requests : Is(p, "CreateSnapshot") /\ Done(p) /\ ~ SnapshotExists(sid[p])
                                  => ~ SnapshotExists(sid[p])'
<1>1. Types /\ writes \in Nat
  BY BoundsAssumption DEF IInv, Types
<1>2. \A p \in DOMAIN dir : Includes(dir[p], dir[p])
  BY <1>1, IncludesSelf DEF Types
<1>3. ASSUME NEW v \in Volumes, VolumeMade(v) PROVE VolumeGrows(v)
  <2>1. VolumePath(v) \in Paths
    BY DEF Paths
  <2>2. QED
    BY <1>2, <1>3, <2>1 DEF OnlyAt, VolumeGrows, Includes
<1>4. ASSUME NEW p \in Requests, Is(p, "CreateSnapshot"), Done(p)
      PROVE  SnapshotGrows(p) /\ (~ SnapshotExists(sid[p]) => ~ SnapshotExists(sid[p])')
  <2>1. sid'[p] = sid[p] /\ sid[p] \in Ids
    BY <1>1, <1>4 DEF NothingLost, Types
  <2>2. SnapshotExists(sid[p]) => Includes(SnapshotFiles(sid[p]), SnapshotFiles(sid[p]))
    BY <1>1, <2>1, SnapshotsAreFiles, IncludesSelf
  <2>3. CASE ToRepo(p)
    <3>1. sid[p][1] # "filecopy" /\ InRepo(sid[p])' = InRepo(sid[p])
      BY <1>4, <2>1, <2>3, IdOfDone DEF OnlyAt, InRepo
    <3>2. /\ SnapshotExists(sid[p])' <=> SnapshotExists(sid[p])
          /\ SnapshotFiles(sid[p])' = SnapshotFiles(sid[p])
      BY <2>1, <3>1 DEF SnapshotExists, SnapshotFiles
    <3>3. QED
      BY <2>2, <3>2 DEF SnapshotGrows, Includes
  <2>4. CASE ~ ToRepo(p)
    <3>1. sid[p] = <<"filecopy", Dest(p)>> /\ Dest(p) \in Paths
      BY <1>1, <1>4, <2>4, IdOfDone, PathsAre DEF Types
    <3>2. /\ SnapshotExists(sid[p]) <=> Dest(p) \in DOMAIN dir
          /\ SnapshotExists(sid[p])' <=> Dest(p) \in DOMAIN dir'
          /\ SnapshotFiles(sid[p]) = dir[Dest(p)]
          /\ SnapshotFiles(sid[p])' = dir'[Dest(p)]
      BY <2>1, <3>1 DEF SnapshotExists, SnapshotFiles
    <3>3. CASE Dest(p) = x
      BY <1>4, <2>4, <3>2, <3>3 DEF SnapshotGrows
    <3>4. CASE Dest(p) # x
      <4>1. /\ Dest(p) \in DOMAIN dir' <=> Dest(p) \in DOMAIN dir
            /\ Dest(p) \in DOMAIN dir => dir'[Dest(p)] = dir[Dest(p)]
        BY <3>1, <3>4 DEF OnlyAt
      <4>2. QED
        BY <2>2, <3>2, <4>1 DEF SnapshotGrows, Includes
    <3>5. QED
      BY <3>3, <3>4
  <2>5. QED
    BY <2>3, <2>4
<1>5. QED
  BY <1>3, <1>4 DEF MadeThingsGrow

\* A request stays fine whose own directory, if it is the one, keeps what it had.
LEMMA FineElsewhere ==
  ASSUME IInv, NothingNew, Types', NEW q \in Requests, Untouched(q),
         NEW x \in Paths, OnlyAt(x), MadeThingsGrow,
         \A p \in Requests : Is(p, "CreateSnapshot") /\ Done(p) /\ ~ SnapshotExists(sid[p])
                               => ~ SnapshotExists(sid[p])',
         /\ Is(q, "CreateVolume") /\ Dest(q) = x /\ ~ VolumeUnwanted(call[q].volume)
         /\ x \in DOMAIN dir
         => x \in DOMAIN dir' /\ Includes(dir'[x], dir[x]),
         /\ Is(q, "CreateSnapshot") /\ ~ ToRepo(q) /\ Dest(q) = x /\ ~ SnapshotUnwanted(q)
         /\ x \in DOMAIN dir
         => x \in DOMAIN dir',
         pc[q] \in {"reply", "done"} =>
            \A r \in Requests :
               SameSnapshot(q, r) /\ ~ ToRepo(r) /\ pc'[r] = "copy" => pc[r] = "copy"
  PROVE  Fine(q)'
<1>1. /\ pc'[q] = pc[q] /\ todo'[q] = todo[q] /\ sid'[q] = sid[q] /\ since'[q] = since[q]
      /\ NothingLost /\ Types /\ writes \in Nat /\ repo' = repo
  BY BoundsAssumption DEF Untouched, NothingNew, IInv, Types, OnlyAt
<1>2. InItsPlace(q)' /\ SourceWasMade(q)' /\ UnwantedIsSettled(q)'
  BY <1>1, PlaceStays
<1>3. RepoSnapshot(q)'
  BY <1>1, RepoStays
<1>4. Dest(q) \in Paths
  BY <1>1, PathsAre DEF Types
<1>5. /\ Dest(q) # x => /\ Dest(q) \in DOMAIN dir' <=> Dest(q) \in DOMAIN dir
                        /\ Dest(q) \in DOMAIN dir => dir'[Dest(q)] = dir[Dest(q)]
      /\ Dest(q) \in DOMAIN dir => Includes(dir[Dest(q)], dir[Dest(q)])
  BY <1>1, <1>4, IncludesSelf DEF OnlyAt, Types
<1>6. DirSnapshot(q)'
  BY <1>1, <1>5, DirStays
<1>7. SourceLasts(q)'
  <2>1. pc[q] = "copy" /\ Copies(q) /\ SourceExists(q) => todo[q] \subseteq DOMAIN SourceFiles(q)
    BY DEF IInv, Fine, SourceLasts, Sent
  <2>2. QED
    BY <1>1, <2>1, SourceLastsOn DEF Sent
<1>8. DeletedIsGone(q)'
  <2>1. \A p \in Requests : Sent(q) /\ Deletes(q, p) => Is(p, "CreateSnapshot")
    BY DEF IInv, Fine, SourceWasMade
  <2>2. QED
    BY <1>1, <2>1, GoneStays
<1>9. VolumeCopy(q)'
  <2>1. Dest(q) # x /\ Dest(q) \in DOMAIN dir =>
          Dest(q) \in DOMAIN dir' /\ Includes(dir'[Dest(q)], dir[Dest(q)])
    BY <1>5
  <2>2. QED
    BY <1>1, <2>1, CopyStays
<1>10. QED
  BY <1>2, <1>3, <1>6, <1>7, <1>8, <1>9 DEF Fine

\* A step of r at one directory, x.
LEMMA DirStep ==
  ASSUME IInv, NEW r \in Requests, Running(r),
         UNCHANGED <<call, since, repo, lastId, bounds>>,
         pc' \in [Requests -> Steps], pc'[r] \notin {"idle", "tag"},
         todo' \in [Requests -> SUBSET Files], buf' \in [Requests -> UpTo(writes)],
         sid' \in [Requests -> Ids], unnoticed' \subseteq Requests,
         \A q \in Requests \ {r} :
            /\ pc'[q] = pc[q] /\ todo'[q] = todo[q] /\ buf'[q] = buf[q] /\ sid'[q] = sid[q]
            /\ q \in unnoticed' <=> q \in unnoticed,
         pc'[r] = "copy" /\ Copies(r) /\ SourceExists(r)
           => todo'[r] \subseteq DOMAIN SourceFiles(r),
         NEW x \in Paths, OnlyAt(x),
         DOMAIN dir' \subseteq Paths, dir' = [p \in DOMAIN dir' |-> dir'[p]],
         x \in DOMAIN dir' => dir'[x] \in UpTo(writes),
         \A v \in Volumes : VolumeMade(v) /\ VolumePath(v) = x => VolumeGrows(v),
         \A p \in Requests :
            Is(p, "CreateSnapshot") /\ Done(p) /\ ~ ToRepo(p) /\ Dest(p) = x
              => x \notin DOMAIN dir',
         \A q \in Requests \ {r} :
            /\ Is(q, "CreateVolume") /\ Dest(q) = x => VolumeUnwanted(call[q].volume)
            /\ /\ Is(q, "CreateSnapshot") /\ ~ ToRepo(q) /\ Dest(q) = x
               /\ ~ SnapshotUnwanted(q) /\ x \in DOMAIN dir
               => x \in DOMAIN dir'
            /\ /\ pc[q] \in {"reply", "done"} /\ SameSnapshot(q, r) /\ ~ ToRepo(r)
               /\ pc'[r] = "copy"
               => pc[r] = "copy"
  PROVE  /\ NothingNew /\ Types' /\ SourceWasMade(r)' /\ UnwantedIsSettled(r)'
         /\ SourceLasts(r)'
         /\ InItsPlace(r)' /\ RepoSnapshot(r)' /\ DirSnapshot(r)' /\ DeletedIsGone(r)'
               /\ VolumeCopy(r)' => IInv'
<1>1. /\ call' = call /\ since' = since /\ repo' = repo /\ lastId' = lastId
      /\ writes' = writes /\ faults' = faults /\ Types
  BY DEF bounds, IInv
<1>2. /\ NothingNew /\ NothingLost
      /\ \A q \in Requests : Running(q)' => Running(q)
      /\ \A q \in Requests : Sent(q) => Sent(q)' /\ since'[q] = since[q]
      /\ \A q \in Requests : pc'[q] = "tag" => pc[q] = "tag" /\ sid'[q] = sid[q]
  BY <1>1 DEF NothingNew, NothingLost, Running, Done, Sent
<1>3. \A p \in DOMAIN dir' : dir'[p] \in UpTo(writes)
  BY <1>1 DEF OnlyAt, Types
<1>4. Types'
  BY <1>1, <1>3 DEF Types, Ids, Backups, UpTo
<1>5. SourceWasMade(r)' /\ UnwantedIsSettled(r)'
  BY <1>2, RunnerStays DEF Running, Unfinished
<1>6. /\ MadeThingsGrow
      /\ \A p \in Requests : Is(p, "CreateSnapshot") /\ Done(p) /\ ~ SnapshotExists(sid[p])
                               => ~ SnapshotExists(sid[p])'
  BY <1>2, DirStepGrows
<1>7. SourceLasts(r)'
  BY <1>1, <1>2, <1>4, <1>6, SourceLastsOn DEF Running, Sent
<1>8. ASSUME InItsPlace(r)', RepoSnapshot(r)', DirSnapshot(r)', DeletedIsGone(r)',
             VolumeCopy(r)'
      PROVE  IInv'
  <2>1. Fine(r)'
    BY <1>5, <1>7, <1>8 DEF Fine
  <2>2. ASSUME NEW q \in Requests \ {r} PROVE Fine(q)'
    <3>1. Untouched(q)
      BY <1>1 DEF Untouched
    <3>2. pc[q] \in {"reply", "done"} =>
            \A p \in Requests :
               SameSnapshot(q, p) /\ ~ ToRepo(p) /\ pc'[p] = "copy" => pc[p] = "copy"
      OBVIOUS
    <3>3. QED
      BY <1>2, <1>4, <1>6, <3>1, <3>2, FineElsewhere
  <2>3. OneAtATime' /\ BackupsHaveOwners' /\ BackupsAreDistinct' /\ TaggedBackupsAreComplete'
    BY <1>1, <1>2, OneAtATimeStays, BackupsStay
  <2>4. QED
    BY <1>4, <2>1, <2>2, <2>3 DEF IInv
<1>9. QED
  BY <1>2, <1>4, <1>5, <1>7, <1>8

\* What createDir() makes of the directories.
LEMMA MadeIs ==
  ASSUME Types, NEW x \in Paths, dir' = Made(x), repo' = repo
  PROVE  /\ OnlyAt(x) /\ DOMAIN dir' \subseteq Paths /\ dir' = [p \in DOMAIN dir' |-> dir'[p]]
         /\ x \in DOMAIN dir' /\ dir'[x] \in UpTo(writes)
         /\ x \in DOMAIN dir => dir'[x] = dir[x]
<1>1. CASE x \in DOMAIN dir
  BY <1>1 DEF Made, OnlyAt, Types
<1>2. CASE x \notin DOMAIN dir
  <2>1. dir' = With(dir, x, NoFiles) /\ NoFiles \in UpTo(writes)
    BY <1>2, NoFilesAreFiles DEF Made
  <2>2. /\ DOMAIN dir' = DOMAIN dir \cup {x} /\ dir'[x] = NoFiles
        /\ \A y \in DOMAIN dir : y # x => dir'[y] = dir[y]
        /\ dir' = [p \in DOMAIN dir' |-> dir'[p]]
    BY <2>1 DEF With
  <2>3. QED
    BY <1>2, <2>1, <2>2 DEF OnlyAt, Types
<1>3. QED
  BY <1>1, <1>2

\* What a handler's throwing makes of what it knows.
LEMMA ThrowIs ==
  ASSUME Types, NEW r \in Requests, Throw(r)
  PROVE  /\ pc' \in [Requests -> Steps] /\ pc'[r] = "pending"
         /\ todo' \in [Requests -> SUBSET Files] /\ buf' \in [Requests -> UpTo(writes)]
         /\ sid' \in [Requests -> Ids]
         /\ \A q \in Requests \ {r} :
               pc'[q] = pc[q] /\ todo'[q] = todo[q] /\ buf'[q] = buf[q] /\ sid'[q] = sid[q]
<1>1. pc' \in [Requests -> Steps] /\ pc'[r] = "pending"
  BY DEF Throw, Throws, Types, Steps
<1>2. todo' \in [Requests -> SUBSET Files]
  BY DEF Throw, Throws, Types
<1>3. buf' \in [Requests -> UpTo(writes)]
  BY NoFilesAreFiles DEF Throw, Throws, Types
<1>4. sid' \in [Requests -> Ids]
  BY DEF Throw, Throws, Types, Ids
<1>5. \A q \in Requests \ {r} :
         pc'[q] = pc[q] /\ todo'[q] = todo[q] /\ buf'[q] = buf[q] /\ sid'[q] = sid[q]
  BY DEF Throw, Throws
<1>6. QED
  BY <1>1, <1>2, <1>3, <1>4, <1>5

\* What starting a command, or going on without one, makes of it.
LEMMA CommandIs ==
  ASSUME Types, NEW r \in Requests, Copies(r), SourceExists(r), Command(r)
  PROVE  /\ pc' \in [Requests -> Steps] /\ pc'[r] = "copy"
         /\ todo' \in [Requests -> SUBSET Files] /\ todo'[r] = DOMAIN SourceFiles(r)
         /\ buf' \in [Requests -> UpTo(writes)] /\ sid' \in [Requests -> Ids]
         /\ \A q \in Requests \ {r} :
               pc'[q] = pc[q] /\ todo'[q] = todo[q] /\ buf'[q] = buf[q] /\ sid'[q] = sid[q]
<1>1. SourceFiles(r) \in UpTo(writes)
  BY SourcesAreFiles
<1>2. DOMAIN SourceFiles(r) \subseteq Files
  BY <1>1, UpToIs
<1>3. QED
  BY <1>2 DEF Command, Go, Types, Steps

\* The same of going on to another step.
LEMMA GoIs ==
  ASSUME Types, NEW r \in Requests, NEW step \in Steps, Go(r, step), UNCHANGED locals
  PROVE  /\ pc' \in [Requests -> Steps] /\ pc'[r] = step
         /\ todo' \in [Requests -> SUBSET Files] /\ buf' \in [Requests -> UpTo(writes)]
         /\ sid' \in [Requests -> Ids] /\ todo'[r] = todo[r] /\ sid'[r] = sid[r]
         /\ \A q \in Requests \ {r} :
               pc'[q] = pc[q] /\ todo'[q] = todo[q] /\ buf'[q] = buf[q] /\ sid'[q] = sid[q]
BY DEF Go, Types, Steps, locals

\* CreateVolume makes the volume's directory, and begins to copy into it.
LEMMA MakeDirKeeps ==
  ASSUME IInv, NEW r \in Requests, MakeDir(r)
  PROVE  IInv'
<1> DEFINE x == Dest(r)
<1>1. /\ pc[r] = "mkdir" /\ Types /\ Fine(r) /\ Running(r) /\ Sent(r)
      /\ call[r].method \in Methods /\ call \in Plans
  BY CallsAre DEF MakeDir, On, IInv, Running, Types, Sent
<1>2. Is(r, "CreateVolume") /\ ~ Is(r, "CreateSnapshot") /\ ~ Is(r, "DeleteSnapshot")
        /\ ~ Is(r, "DeleteVolume") /\ ~ ToRepo(r)
  BY <1>1 DEF Fine, InItsPlace, Is, Methods, ToRepo
<1>3. x \in Paths
  BY <1>1, PathsAre
<1>4. dir' = Made(x) /\ repo' = repo /\ lastId' = lastId /\ unnoticed' = unnoticed \ {r}
  BY DEF MakeDir
<1>5. /\ call' = call /\ since' = since /\ UNCHANGED bounds
      /\ pc' \in [Requests -> Steps] /\ pc'[r] \in {"reply", "pending", "copy"}
      /\ todo' \in [Requests -> SUBSET Files] /\ buf' \in [Requests -> UpTo(writes)]
      /\ sid' \in [Requests -> Ids]
      /\ \A q \in Requests \ {r} :
            pc'[q] = pc[q] /\ todo'[q] = todo[q] /\ buf'[q] = buf[q] /\ sid'[q] = sid[q]
      /\ pc'[r] = "copy" =>
            Copies(r) /\ SourceExists(r) /\ todo'[r] = DOMAIN SourceFiles(r)
      /\ pc'[r] = "reply" => ~ Copies(r)
  <2>1. CASE ~ Copies(r)
    <3>1. Go(r, "reply") /\ UNCHANGED locals /\ "reply" \in Steps
      BY <2>1 DEF MakeDir, Steps
    <3>2. QED
      BY <1>1, <2>1, <3>1, GoIs DEF Go
  <2>2. CASE Copies(r) /\ ~ SourceExists(r)
    <3>1. Throw(r)
      BY <2>2 DEF MakeDir
    <3>2. call' = call /\ since' = since /\ UNCHANGED bounds
      BY <3>1 DEF Throw
    <3>3. QED
      BY <1>1, <3>1, <3>2, ThrowIs
  <2>3. CASE Copies(r) /\ SourceExists(r)
    <3>1. Command(r)
      BY <2>3 DEF MakeDir
    <3>2. call' = call /\ since' = since /\ UNCHANGED bounds
      BY <3>1 DEF Command, Go
    <3>3. QED
      BY <1>1, <2>3, <3>1, <3>2, CommandIs
  <2>4. QED
    BY <2>1, <2>2, <2>3
<1>6. /\ OnlyAt(x) /\ DOMAIN dir' \subseteq Paths /\ dir' = [p \in DOMAIN dir' |-> dir'[p]]
      /\ x \in DOMAIN dir' /\ dir'[x] \in UpTo(writes)
  BY <1>1, <1>3, <1>4, MadeIs
<1>7. \A q \in Requests : Dest(q) = x => (Is(q, "CreateVolume") => q = r)
                                         /\ ~ Is(q, "CreateSnapshot")
  BY <1>1, <1>2, PathsAre
<1>8. \A v \in Volumes : VolumeMade(v) => VolumePath(v) # x
  <2>1. SUFFICES ASSUME NEW v \in Volumes, VolumeMade(v), VolumePath(v) = x PROVE FALSE
    OBVIOUS
  <2>2. PICK p \in Requests : Is(p, "CreateVolume") /\ call[p].volume = v /\ Done(p)
    BY <2>1 DEF VolumeMade
  <2>3. p = r
    BY <1>7, <2>1, <2>2 DEF Dest
  <2>4. QED
    BY <1>1, <2>2, <2>3 DEF Done
<1>9. /\ Types'
      /\ InItsPlace(r)' /\ RepoSnapshot(r)' /\ DirSnapshot(r)' /\ DeletedIsGone(r)'
            /\ VolumeCopy(r)' => IInv'
  <2>1. pc'[r] \notin {"idle", "tag"}
    BY <1>5
  <2>2. unnoticed' \subseteq Requests
          /\ \A q \in Requests \ {r} : q \in unnoticed' <=> q \in unnoticed
    BY <1>1, <1>4 DEF Types
  <2>3. \A q \in Requests : ~ SameSnapshot(q, r)
    BY <1>2 DEF SameSnapshot
  <2> HIDE DEF x
  <2>4. QED
    BY <1>1, <1>3, <1>4, <1>5, <1>6, <1>7, <1>8, <2>1, <2>2, <2>3, DirStep
<1>10. /\ Copies(r)' <=> Copies(r)
       /\ Dest(r)' = x /\ (ToRepo(r)' <=> ToRepo(r))
       /\ \A m \in Methods : Is(r, m)' <=> Is(r, m)
  BY <1>5, CallStays
<1>11. InItsPlace(r)' /\ RepoSnapshot(r)' /\ DirSnapshot(r)' /\ DeletedIsGone(r)'
  BY <1>2, <1>5, <1>10 DEF InItsPlace, RepoSnapshot, DirSnapshot, DeletedIsGone, Deletes,
     Is, Methods
<1>12. VolumeCopy(r)'
  <2>1. ~ Copies(r) => since[r] = NoFiles
    BY <1>1, <1>2 DEF Fine, VolumeCopy
  <2>2. pc'[r] = "copy" => DOMAIN since[r] \subseteq todo'[r]
    BY <1>1, <1>5 DEF Fine, SourceLasts, Includes
  <2>3. ~ Copies(r) => Includes(dir'[x], since[r])
    BY <2>1, NoFilesAreFiles DEF Includes
  <2>4. since'[r] = since[r]
    BY <1>5
  <2> HIDE DEF x
  <2>5. QED
    BY <1>5, <1>6, <1>10, <2>1, <2>2, <2>3, <2>4 DEF VolumeCopy, Includes
<1>13. QED
  BY <1>9, <1>11, <1>12

\* While a call cuts a directory, nothing is answered for at that path.
LEMMA NoneAnswered ==
  ASSUME IInv, NEW r \in Requests, Is(r, "CreateSnapshot"), ~ ToRepo(r), Running(r),
         pc[r] = "copy" \/ Dest(r) \notin DOMAIN dir,
         NEW q \in Requests \ {r}, Dest(q) = Dest(r)
  PROVE  /\ ~ Is(q, "CreateVolume")
         /\ Is(q, "CreateSnapshot") /\ ~ ToRepo(q) =>
              SameSnapshot(q, r) /\ pc[q] \notin {"reply", "done"}
<1>1. call \in Plans /\ Fine(q) /\ Fine(r)
  BY DEF IInv, Types
<1>2. /\ ~ Is(q, "CreateVolume")
      /\ Is(q, "CreateSnapshot") /\ ~ ToRepo(q) => SameSnapshot(q, r)
  BY <1>1, PathsAre
<1>3. ASSUME Is(q, "CreateSnapshot"), ~ ToRepo(q), pc[q] \in {"reply", "done"} PROVE FALSE
  <2>1. SameSnapshot(q, r)
    BY <1>2, <1>3
  <2>2. SnapshotUnwanted(q) => SnapshotUnwanted(r)
    BY <2>1 DEF SnapshotUnwanted, SameSnapshot
  <2>3. ~ SnapshotUnwanted(r)
    BY <1>1 DEF Fine, UnwantedIsSettled, Running
  <2>4. QED
    BY <1>1, <1>3, <2>1, <2>2, <2>3 DEF Fine, DirSnapshot
<1>4. QED
  BY <1>2, <1>3

\* CreateSnapshot finds the directory of its snapshot, or makes it and begins to copy.
LEMMA SearchDirKeeps ==
  ASSUME IInv, NEW r \in Requests, SearchDir(r)
  PROVE  IInv'
<1> DEFINE x == Dest(r)
<1>1. /\ pc[r] = "search" /\ Types /\ Fine(r) /\ Running(r) /\ Sent(r)
      /\ call[r].method \in Methods /\ call \in Plans
  BY CallsAre DEF SearchDir, On, IInv, Running, Types, Sent
<1>2. /\ Is(r, "CreateSnapshot") /\ ~ Is(r, "CreateVolume") /\ ~ Is(r, "DeleteSnapshot")
      /\ ~ Is(r, "DeleteVolume") /\ ~ ToRepo(r) /\ Copies(r)
  BY <1>1 DEF Fine, InItsPlace, Is, Methods, ToRepo, SearchDir, Copies
<1>3. x \in Paths /\ IdOf(call[r]) \in Ids
  BY <1>1, PathsAre, CallsAre DEF IdOf, Ids, Paths
<1>4. CASE x \in DOMAIN dir
  BY <1>1, <1>2, <1>3, <1>4, FoundKeeps DEF SearchDir
<1>5. CASE x \notin DOMAIN dir
  <2>1. dir' = Made(x) /\ repo' = repo /\ lastId' = lastId /\ unnoticed' = unnoticed
    BY <1>5 DEF SearchDir, Cut
  <2>2. /\ call' = call /\ since' = since /\ UNCHANGED bounds
        /\ pc' \in [Requests -> Steps] /\ pc'[r] \in {"pending", "copy"}
        /\ todo' \in [Requests -> SUBSET Files] /\ buf' \in [Requests -> UpTo(writes)]
        /\ sid' \in [Requests -> Ids]
        /\ \A q \in Requests \ {r} :
              pc'[q] = pc[q] /\ todo'[q] = todo[q] /\ buf'[q] = buf[q] /\ sid'[q] = sid[q]
        /\ pc'[r] = "copy" => todo'[r] = DOMAIN SourceFiles(r)
    <3>1. CASE ~ SourceExists(r)
      <4>1. Throw(r)
        BY <1>5, <3>1 DEF SearchDir, Cut
      <4>2. call' = call /\ since' = since /\ UNCHANGED bounds
        BY <4>1 DEF Throw
      <4>3. QED
        BY <1>1, <4>1, <4>2, ThrowIs
    <3>2. CASE SourceExists(r)
      <4>1. Command(r)
        BY <1>5, <3>2 DEF SearchDir, Cut
      <4>2. call' = call /\ since' = since /\ UNCHANGED bounds
        BY <4>1 DEF Command, Go
      <4>3. QED
        BY <1>1, <1>2, <3>2, <4>1, <4>2, CommandIs
    <3>3. QED
      BY <3>1, <3>2
  <2>3. /\ OnlyAt(x) /\ DOMAIN dir' \subseteq Paths /\ dir' = [p \in DOMAIN dir' |-> dir'[p]]
        /\ x \in DOMAIN dir' /\ dir'[x] \in UpTo(writes)
    BY <1>1, <1>3, <2>1, MadeIs
  <2>4. \A q \in Requests \ {r} : Dest(q) = x =>
           /\ ~ Is(q, "CreateVolume")
           /\ Is(q, "CreateSnapshot") /\ ~ ToRepo(q) =>
                SameSnapshot(q, r) /\ pc[q] \notin {"reply", "done"}
    BY <1>1, <1>2, <1>5, NoneAnswered
  <2>5. \A v \in Volumes : VolumePath(v) # x
    BY <1>1, <1>2, PathsAre
  <2>6. \A q \in Requests : SameSnapshot(q, r) =>
           Dest(q) = x /\ Is(q, "CreateSnapshot") /\ ~ ToRepo(q)
    BY <1>2 DEF SameSnapshot, Dest, Is, ToRepo
  <2>7. \A p \in Requests :
           ~ (Is(p, "CreateSnapshot") /\ Done(p) /\ ~ ToRepo(p) /\ Dest(p) = x)
    BY <1>1, <2>4 DEF Done
  <2>8. \A q \in Requests \ {r} : pc[q] \in {"reply", "done"} => ~ SameSnapshot(q, r)
    BY <2>4, <2>6
  <2>9. InItsPlace(r)' /\ RepoSnapshot(r)' /\ DirSnapshot(r)' /\ DeletedIsGone(r)'
             /\ VolumeCopy(r)' => IInv'
    <3>1. pc'[r] \notin {"idle", "tag"}
      BY <2>2
    <3>2. unnoticed' \subseteq Requests
            /\ \A q \in Requests \ {r} : q \in unnoticed' <=> q \in unnoticed
      BY <1>1, <2>1 DEF Types
    <3> HIDE DEF x
    <3>3. QED
      BY <1>1, <1>3, <1>5, <2>1, <2>2, <2>3, <2>4, <2>5, <2>7, <2>8, <3>1, <3>2, DirStep
  <2>10. /\ Copies(r)' <=> Copies(r)
         /\ Dest(r)' = x /\ (ToRepo(r)' <=> ToRepo(r))
         /\ \A m \in Methods : Is(r, m)' <=> Is(r, m)
    BY <2>2, CallStays
  <2>11. InItsPlace(r)' /\ RepoSnapshot(r)' /\ DeletedIsGone(r)' /\ VolumeCopy(r)'
    BY <1>2, <2>2, <2>10 DEF InItsPlace, RepoSnapshot, DeletedIsGone, VolumeCopy, Deletes,
       Is, Methods
  <2>12. DirSnapshot(r)'
    BY <2>2, <2>3, <2>10 DEF DirSnapshot
  <2>13. QED
    BY <2>9, <2>11, <2>12
<1>6. QED
  BY <1>4, <1>5

\* rsync, or a restore, copies one more file.
LEMMA CommandCopiesKeeps ==
  ASSUME IInv, NEW r \in Requests, CopyFile(r), ~ ToRepo(r)
  PROVE  IInv'
<1> DEFINE x == Dest(r)
<1>1. /\ pc[r] = "copy" /\ SourceExists(r) /\ Types /\ Fine(r) /\ Running(r) /\ Sent(r)
      /\ writes \in Nat /\ call \in Plans
  BY BoundsAssumption DEF CopyFile, On, IInv, Running, Types, Sent
<1>2. PICK f \in todo[r] : /\ todo' = [todo EXCEPT ![r] = @ \ {f}]
                           /\ dir' = [dir EXCEPT ![x] = With(@, f, SourceFiles(r)[f])]
                           /\ buf' = buf
  BY DEF CopyFile
<1>3. /\ Copies(r) /\ f \in Files /\ SourceFiles(r)[f] \in 1..writes
      /\ f \in DOMAIN since[r] =>
           since[r][f] \in Nat /\ SourceFiles(r)[f] >= since[r][f]
  BY <1>1, NextFile
<1>4. /\ Is(r, "CreateVolume") \/ Is(r, "CreateSnapshot")
      /\ ~ Is(r, "DeleteSnapshot") /\ ~ Is(r, "DeleteVolume")
      /\ x \in DOMAIN dir /\ x \in Paths
  BY <1>1, <1>3, PathsAre DEF Copies, Is, Fine, VolumeCopy, DirSnapshot
<1>5. With(dir[x], f, SourceFiles(r)[f]) \in UpTo(writes)
  BY <1>1, <1>3, <1>4, WithFile DEF Types
<1>6. /\ OnlyAt(x) /\ DOMAIN dir' \subseteq Paths /\ dir' = [p \in DOMAIN dir' |-> dir'[p]]
      /\ x \in DOMAIN dir' /\ dir'[x] \in UpTo(writes)
      /\ dir'[x] = With(dir[x], f, SourceFiles(r)[f])
  <2>1. repo' = repo
    BY DEF CopyFile
  <2>2. /\ DOMAIN dir' = DOMAIN dir /\ dir'[x] = With(dir[x], f, SourceFiles(r)[f])
        /\ \A p \in DOMAIN dir \ {x} : dir'[p] = dir[p]
        /\ dir' = [p \in DOMAIN dir' |-> dir'[p]]
    BY <1>2, <1>4
  <2>3. QED
    BY <1>1, <1>4, <1>5, <2>1, <2>2 DEF OnlyAt, Types
<1>7. /\ call' = call /\ since' = since /\ UNCHANGED bounds /\ pc' = pc /\ sid' = sid
      /\ repo' = repo /\ lastId' = lastId /\ unnoticed' = unnoticed
      /\ todo' \in [Requests -> SUBSET Files] /\ todo'[r] = todo[r] \ {f}
      /\ \A q \in Requests \ {r} : todo'[q] = todo[q]
  BY <1>1, <1>2 DEF CopyFile, Types
<1>8. \A q \in Requests \ {r} : Dest(q) = x =>
         /\ ~ Is(q, "CreateVolume")
         /\ ~ (Is(q, "CreateSnapshot") /\ ~ ToRepo(q) /\ Done(q))
  <2>1. CASE Is(r, "CreateSnapshot")
    BY <1>1, <2>1, NoneAnswered DEF Done
  <2>2. CASE Is(r, "CreateVolume")
    <3>1. ~ Is(r, "CreateSnapshot")
      BY <2>2 DEF Is
    <3>2. QED
      BY <1>1, <2>2, <3>1, PathsAre
  <2>3. QED
    BY <1>4, <2>1, <2>2
<1>9. \A v \in Volumes : VolumeMade(v) => VolumePath(v) # x
  <2>1. SUFFICES ASSUME NEW v \in Volumes, VolumeMade(v), VolumePath(v) = x PROVE FALSE
    OBVIOUS
  <2>2. PICK p \in Requests : Is(p, "CreateVolume") /\ call[p].volume = v /\ Done(p)
    BY <2>1 DEF VolumeMade
  <2>3. p = r
    BY <1>8, <2>1, <2>2 DEF Dest
  <2>4. QED
    BY <1>1, <2>2, <2>3 DEF Done
<1>10. InItsPlace(r)' /\ RepoSnapshot(r)' /\ DirSnapshot(r)' /\ DeletedIsGone(r)'
             /\ VolumeCopy(r)' => IInv'
  <2>1. pc'[r] = "copy" /\ pc' \in [Requests -> Steps] /\ sid' \in [Requests -> Ids]
        /\ buf' \in [Requests -> UpTo(writes)] /\ unnoticed' \subseteq Requests
    BY <1>1, <1>2, <1>7 DEF Types
  <2>2. \A p \in Requests :
           ~ (Is(p, "CreateSnapshot") /\ Done(p) /\ ~ ToRepo(p) /\ Dest(p) = x)
    BY <1>1, <1>8 DEF Done
  <2>3. todo'[r] \subseteq DOMAIN SourceFiles(r)
    BY <1>1, <1>3, <1>7 DEF Fine, SourceLasts
  <2> HIDE DEF x
  <2>4. \A q \in Requests \ {r} :
           /\ pc'[q] = pc[q] /\ todo'[q] = todo[q] /\ buf'[q] = buf[q] /\ sid'[q] = sid[q]
           /\ q \in unnoticed' <=> q \in unnoticed
    BY <1>2, <1>7
  <2>5. QED
    BY <1>1, <1>4, <1>6, <1>7, <1>8, <1>9, <2>1, <2>2, <2>3, <2>4, DirStep
<1>11. /\ Copies(r)' <=> Copies(r)
       /\ Dest(r)' = x /\ (ToRepo(r)' <=> ToRepo(r))
       /\ \A m \in Methods : Is(r, m)' <=> Is(r, m)
  BY <1>7, CallStays
<1>12. InItsPlace(r)' /\ RepoSnapshot(r)' /\ DirSnapshot(r)' /\ DeletedIsGone(r)'
  BY <1>1, <1>3, <1>4, <1>6, <1>7, <1>11
     DEF InItsPlace, RepoSnapshot, DirSnapshot, DeletedIsGone, Deletes, Is, Methods, Fine
<1>13. VolumeCopy(r)'
  <2>1. SUFFICES ASSUME Is(r, "CreateVolume") PROVE VolumeCopy(r)'
    BY <1>11 DEF VolumeCopy, Methods
  <2>2. \A g \in DOMAIN since[r] :
           \/ r \in unnoticed \/ g \in todo[r]
           \/ g \in DOMAIN dir[x] /\ dir[x][g] >= since[r][g]
    BY <1>1, <2>1 DEF Fine, VolumeCopy
  <2>3. /\ DOMAIN dir'[x] = DOMAIN dir[x] \cup {f} /\ dir'[x][f] = SourceFiles(r)[f]
        /\ \A g \in DOMAIN dir[x] : g # f => dir'[x][g] = dir[x][g]
    BY <1>6 DEF With
  <2> HIDE DEF x
  <2>4. ASSUME NEW g \in DOMAIN since[r]
        PROVE  \/ r \in unnoticed \/ g \in todo'[r]
               \/ g \in DOMAIN dir'[x] /\ dir'[x][g] >= since[r][g]
    BY <1>3, <1>7, <2>2, <2>3
  <2>5. pc'[r] = "copy" /\ since'[r] = since[r] /\ (r \in unnoticed' <=> r \in unnoticed)
    BY <1>1, <1>7
  <2>6. QED
    BY <1>3, <1>6, <1>11, <2>4, <2>5 DEF VolumeCopy
<1>14. QED
  BY <1>10, <1>12, <1>13

\* A directory is removed.
LEMMA RemovedIs ==
  ASSUME Types, NEW x \in Paths, dir' = Without(dir, x), repo' = repo
  PROVE  /\ OnlyAt(x) /\ DOMAIN dir' \subseteq Paths /\ dir' = [p \in DOMAIN dir' |-> dir'[p]]
         /\ x \notin DOMAIN dir'
<1>1. /\ DOMAIN dir' = DOMAIN dir \ {x} /\ \A p \in DOMAIN dir \ {x} : dir'[p] = dir[p]
      /\ dir' = [p \in DOMAIN dir' |-> dir'[p]]
  BY DEF Without
<1>2. QED
  BY <1>1 DEF OnlyAt, Types

\* DeleteVolume removes a directory that is unwanted.
LEMMA DeleteVolumeKeeps ==
  ASSUME IInv, NEW r \in Requests, DeleteVolume(r)
  PROVE  IInv'
<1>1. /\ pc[r] = "remove" /\ Types /\ Fine(r) /\ Running(r) /\ Sent(r) /\ call \in Plans
      /\ Is(r, "DeleteVolume") /\ ~ Is(r, "CreateVolume") /\ ~ Is(r, "CreateSnapshot")
      /\ ~ Is(r, "DeleteSnapshot") /\ ~ Copies(r) /\ call[r].volume \in Volumes
  BY CallsAre DEF DeleteVolume, On, IInv, Running, Types, Sent, Is, Copies
<1>2. PICK x \in Paths : x = VolumePath(call[r].volume)
  BY <1>1, PathsAre
<1>3. /\ dir' = Without(dir, x) /\ repo' = repo /\ lastId' = lastId /\ unnoticed' = unnoticed
      /\ Go(r, "reply") /\ UNCHANGED locals
  BY <1>2 DEF DeleteVolume
<1>4. /\ OnlyAt(x) /\ DOMAIN dir' \subseteq Paths /\ dir' = [p \in DOMAIN dir' |-> dir'[p]]
      /\ x \notin DOMAIN dir'
  BY <1>1, <1>3, RemovedIs
<1>5. /\ call' = call /\ since' = since /\ UNCHANGED bounds
      /\ pc' \in [Requests -> Steps] /\ pc'[r] = "reply"
      /\ todo' \in [Requests -> SUBSET Files] /\ buf' \in [Requests -> UpTo(writes)]
      /\ sid' \in [Requests -> Ids]
      /\ \A q \in Requests \ {r} :
            pc'[q] = pc[q] /\ todo'[q] = todo[q] /\ buf'[q] = buf[q] /\ sid'[q] = sid[q]
  <2>1. "reply" \in Steps
    BY DEF Steps
  <2>2. QED
    BY <1>1, <1>3, <2>1, GoIs DEF Go
<1>6. \A q \in Requests : Dest(q) = x =>
         /\ Is(q, "CreateVolume") => VolumeUnwanted(call[q].volume)
         /\ ~ Is(q, "CreateSnapshot")
  <2>1. VolumeUnwanted(call[r].volume)
    BY <1>1 DEF VolumeUnwanted
  <2>2. QED
    BY <1>1, <1>2, <2>1, PathsAre
<1>7. \A v \in Volumes : VolumePath(v) = x => VolumeGrows(v)
  BY <1>4 DEF VolumeGrows
<1>8. InItsPlace(r)' /\ RepoSnapshot(r)' /\ DirSnapshot(r)' /\ DeletedIsGone(r)'
             /\ VolumeCopy(r)' => IInv'
  <2>1. unnoticed' \subseteq Requests
          /\ \A q \in Requests \ {r} : q \in unnoticed' <=> q \in unnoticed
    BY <1>1, <1>3 DEF Types
  <2>2. QED
    BY <1>1, <1>3, <1>4, <1>5, <1>6, <1>7, <2>1, DirStep
<1>9. \A m \in Methods : Is(r, m)' <=> Is(r, m)
  BY <1>5, CallStays
<1>10. /\ InItsPlace(r)' /\ RepoSnapshot(r)' /\ DirSnapshot(r)' /\ DeletedIsGone(r)'
       /\ VolumeCopy(r)'
  BY <1>1, <1>5, <1>9
     DEF InItsPlace, RepoSnapshot, ToRepo, DirSnapshot, DeletedIsGone, VolumeCopy, Deletes,
        Is,
         Methods
<1>11. QED
  BY <1>8, <1>10

\* What DeleteSnapshot is asked to delete.
LEMMA DeletionIs ==
  ASSUME IInv, NEW r \in Requests, pc[r] = "remove", Is(r, "DeleteSnapshot")
  PROVE  /\ Running(r) /\ Sent(r) /\ ~ Copies(r)
         /\ ~ Is(r, "CreateVolume") /\ ~ Is(r, "CreateSnapshot") /\ ~ Is(r, "DeleteVolume")
         /\ \E p \in Requests :
               /\ call[r].source[2] = p /\ Deletes(r, p)
               /\ \A q \in Requests : Deletes(r, q) => q = p
               /\ Is(p, "CreateSnapshot") /\ Done(p)
               /\ \A q \in Requests : SameSnapshot(q, p) =>
                     SnapshotUnwanted(q) /\ pc[q] \in {"idle", "done"}
<1>1. Running(r) /\ Sent(r) /\ Fine(r) /\ call \in Plans
  BY DEF Running, Sent, IInv, Types
<1>2. ~ Is(r, "CreateVolume") /\ ~ Is(r, "CreateSnapshot") /\ ~ Is(r, "DeleteVolume")
        /\ ~ Copies(r)
  BY DEF Is, Copies
<1>3. PICK p \in Requests : Deletes(r, p)
  BY <1>1, SourcesAre
<1>4. call[r].source[2] = p /\ \A q \in Requests : Deletes(r, q) => q = p
  BY <1>3 DEF Deletes
<1>5. Is(p, "CreateSnapshot") /\ Done(p)
  BY <1>1, <1>3 DEF Fine, SourceWasMade
<1>6. ASSUME NEW q \in Requests, SameSnapshot(q, p)
      PROVE  SnapshotUnwanted(q) /\ pc[q] \in {"idle", "done"}
  <2>1. SameSnapshot(p, q) /\ Is(q, "CreateSnapshot") /\ Fine(q)
    BY <1>6 DEF SameSnapshot, IInv
  <2>2. SnapshotUnwanted(q)
    BY <1>1, <1>3, <2>1 DEF SnapshotUnwanted
  <2>3. QED
    BY <2>1, <2>2 DEF Fine, UnwantedIsSettled
<1>7. QED
  BY <1>1, <1>2, <1>3, <1>4, <1>5, <1>6

\* DeleteSnapshot removes the directory of a snapshot.
LEMMA DeleteDirSnapshotKeeps ==
  ASSUME IInv, NEW r \in Requests, DeleteSnapshot(r), NEW p \in Requests,
         call[r].source[2] = p, sid[p][1] = "filecopy"
  PROVE  IInv'
<1>1. pc[r] = "remove" /\ Is(r, "DeleteSnapshot") /\ Types /\ call \in Plans
  BY DEF DeleteSnapshot, On, IInv, Types
<1>2. /\ Running(r) /\ Sent(r) /\ ~ Copies(r)
      /\ ~ Is(r, "CreateVolume") /\ ~ Is(r, "CreateSnapshot") /\ ~ Is(r, "DeleteVolume")
      /\ \A q \in Requests : Deletes(r, q) => q = p
      /\ Is(p, "CreateSnapshot") /\ Done(p)
      /\ \A q \in Requests : SameSnapshot(q, p) =>
            SnapshotUnwanted(q) /\ pc[q] \in {"idle", "done"}
  BY <1>1, DeletionIs
<1>3. ~ ToRepo(p) /\ sid[p] = <<"filecopy", Dest(p)>>
  BY <1>2, IdOfDone
<1>4. PICK x \in Paths : x = Dest(p)
  BY <1>1, PathsAre
<1>5. /\ dir' = Without(dir, x) /\ repo' = repo /\ lastId' = lastId /\ unnoticed' = unnoticed
      /\ Go(r, "reply") /\ UNCHANGED locals
  BY <1>3, <1>4 DEF DeleteSnapshot
<1>6. /\ OnlyAt(x) /\ DOMAIN dir' \subseteq Paths /\ dir' = [y \in DOMAIN dir' |-> dir'[y]]
      /\ x \notin DOMAIN dir'
  BY <1>1, <1>5, RemovedIs
<1>7. /\ call' = call /\ since' = since /\ UNCHANGED bounds
      /\ pc' \in [Requests -> Steps] /\ pc'[r] = "reply"
      /\ todo' \in [Requests -> SUBSET Files] /\ buf' \in [Requests -> UpTo(writes)]
      /\ sid' \in [Requests -> Ids] /\ sid' = sid
      /\ \A q \in Requests \ {r} :
            pc'[q] = pc[q] /\ todo'[q] = todo[q] /\ buf'[q] = buf[q] /\ sid'[q] = sid[q]
  <2>1. "reply" \in Steps
    BY DEF Steps
  <2>2. QED
    BY <1>1, <1>5, <2>1, GoIs DEF Go, locals
<1>8. \A q \in Requests : Dest(q) = x =>
         /\ ~ Is(q, "CreateVolume")
         /\ Is(q, "CreateSnapshot") /\ ~ ToRepo(q) => SnapshotUnwanted(q)
  BY <1>1, <1>2, <1>3, <1>4, PathsAre
<1>9. \A v \in Volumes : VolumePath(v) # x
  BY <1>1, <1>2, <1>4, PathsAre
<1>10. \A q \in Requests : ~ SameSnapshot(q, r)
  BY <1>2 DEF SameSnapshot
<1>11. InItsPlace(r)' /\ RepoSnapshot(r)' /\ DirSnapshot(r)' /\ DeletedIsGone(r)'
             /\ VolumeCopy(r)' => IInv'
  <2>1. unnoticed' \subseteq Requests
          /\ \A q \in Requests \ {r} : q \in unnoticed' <=> q \in unnoticed
    BY <1>1, <1>5 DEF Types
  <2>2. QED
    BY <1>2, <1>5, <1>6, <1>7, <1>8, <1>9, <1>10, <2>1, DirStep
<1>12. /\ \A m \in Methods : Is(r, m)' <=> Is(r, m)
       /\ \A q \in Requests : Deletes(r, q)' <=> Deletes(r, q)
  BY <1>7, CallStays
<1>13. InItsPlace(r)' /\ RepoSnapshot(r)' /\ DirSnapshot(r)' /\ VolumeCopy(r)'
  BY <1>1, <1>2, <1>7, <1>12
     DEF InItsPlace, RepoSnapshot, ToRepo, DirSnapshot, VolumeCopy, Is, Methods
<1>14. DeletedIsGone(r)'
  <2>1. ~ SnapshotExists(sid[p])'
    BY <1>3, <1>4, <1>6, <1>7 DEF SnapshotExists
  <2>2. QED
    BY <1>2, <1>12, <2>1 DEF DeletedIsGone
<1>15. QED
  BY <1>11, <1>13, <1>14

\* A workload writes one file more.
LEMMA WriteKeeps ==
  ASSUME IInv, NEW v \in Volumes, NEW f \in Files, Write(v, f)
  PROVE  IInv'
<1> DEFINE old == dir[VolumePath(v)]
           data == 1 + (IF f \in DOMAIN old THEN old[f] ELSE 0)
           new == With(old, f, data)
<1>1. /\ Types /\ call \in Plans /\ writes \in Nat /\ writes' = writes + 1 /\ writes < MaxWrites
      /\ call' = call /\ pc' = pc /\ todo' = todo /\ buf' = buf /\ sid' = sid /\ repo' = repo
      /\ lastId' = lastId /\ since' = since /\ unnoticed' = unnoticed /\ faults' = faults
      /\ OwnsVolume(v) /\ dir' = [dir EXCEPT ![VolumePath(v)] = new]
  BY BoundsAssumption DEF IInv, Types, Write, locals
<1>2. VolumePath(v) \in DOMAIN dir
  BY <1>1, OwnedIsThere
<1>3. PICK x \in Paths : x = VolumePath(v)
  BY DEF Paths
<1>4. old \in UpTo(writes)
  BY <1>1, <1>2 DEF Types
<1>5. \A y \in DOMAIN old : old[y] \in 1..writes
  BY <1>4, UpToIs
<1>6. data \in 1..writes' /\ (f \in DOMAIN old => data >= old[f])
  BY <1>1, <1>5
<1>7. writes' \in 0..MaxWrites /\ writes' \in Nat /\ writes <= writes'
  BY <1>1, BoundsAssumption
<1>8. \A g \in UpTo(writes) : g \in UpTo(writes')
  BY <1>1, <1>7, UpToMore
<1>9. new \in UpTo(writes')
  BY <1>4, <1>6, <1>7, <1>8, WithFile
<1>10. Includes(new, old)
  <2>1. /\ DOMAIN new = DOMAIN old \cup {f} /\ new[f] = data
        /\ \A y \in DOMAIN old : y # f => new[y] = old[y]
    BY DEF With
  <2> HIDE DEF data, new, old
  <2>2. \A y \in DOMAIN old : new[y] >= old[y]
    BY <1>1, <1>5, <1>6, <2>1
  <2>3. QED
    BY <2>1, <2>2 DEF Includes
<1>11. /\ DOMAIN dir' = DOMAIN dir /\ dir'[x] = new /\ dir[x] = old
       /\ \A p \in DOMAIN dir \ {x} : dir'[p] = dir[p]
       /\ dir' = [p \in DOMAIN dir' |-> dir'[p]]
  BY <1>1, <1>2, <1>3
<1> HIDE DEF data, new, old
<1>12. OnlyAt(x)
  BY <1>1, <1>11 DEF OnlyAt
<1>13. Types'
  <2>1. DOMAIN dir' \subseteq Paths /\ \A p \in DOMAIN dir' : dir'[p] \in UpTo(writes')
    BY <1>1, <1>8, <1>9, <1>11 DEF Types
  <2>2. buf' \in [Requests -> UpTo(writes')] /\ since' \in [Requests -> UpTo(writes')]
    BY <1>1, <1>8 DEF Types
  <2>3. Backups \subseteq [driver : {"restic", "kopia"}, id : 1..lastId, original : 1..lastId,
                           volume : Volumes, name : Names \cup {NoName}, files : UpTo(writes')]
    BY <1>8 DEF Backups
  <2>4. repo' \subseteq Backups'
    <3>1. Backups' = [driver : {"restic", "kopia"}, id : 1..lastId, original : 1..lastId,
                      volume : Volumes, name : Names \cup {NoName}, files : UpTo(writes')]
      BY <1>1 DEF Backups, UpTo
    <3>2. QED
      BY <1>1, <2>3, <3>1 DEF Types
  <2>5. sid' \in [Requests -> Ids']
    BY <1>1 DEF Types, Ids
  <2>6. QED
    BY <1>1, <1>7, <1>11, <2>1, <2>2, <2>4, <2>5 DEF Types, UpTo
<1>14. NothingNew /\ NothingLost /\ \A q \in Requests : Untouched(q)
  BY <1>1 DEF NothingNew, NothingLost, Done, Untouched
<1>15. \A u \in Volumes : VolumePath(u) = x => VolumeGrows(u)
  BY <1>2, <1>3, <1>10, <1>11 DEF VolumeGrows, Includes
<1>16. \A q \in Requests : Is(q, "CreateSnapshot") => Dest(q) # x
  BY <1>1, <1>3, PathsAre
<1>17. /\ MadeThingsGrow
       /\ \A p \in Requests : Is(p, "CreateSnapshot") /\ Done(p) /\ ~ SnapshotExists(sid[p])
                                => ~ SnapshotExists(sid[p])'
  BY <1>12, <1>14, <1>15, <1>16, DirStepGrows
<1>18. \A q \in Requests : Fine(q)'
  <2>1. Includes(dir'[x], dir[x]) /\ x \in DOMAIN dir'
    BY <1>2, <1>3, <1>10, <1>11
  <2>2. QED
    BY <1>1, <1>12, <1>13, <1>14, <1>16, <1>17, <2>1, FineElsewhere
<1>19. OneAtATime' /\ BackupsHaveOwners' /\ BackupsAreDistinct' /\ TaggedBackupsAreComplete'
  BY <1>1, OneAtATimeStays, BackupsStay DEF Running, Sent
<1>20. QED
  BY <1>13, <1>18, <1>19 DEF IInv

----------------------------------------------------------------------------
(* Steps at a repository.                                                  *)

\* A step takes Gone out of the repositories, and adds New under new ids.
Changes(Gone, New) ==
    /\ repo' = (repo \ Gone) \cup New
    /\ New \subseteq Backups' /\ \A s \in New : s.id \notin 1..lastId

\* A request whose snapshot is neither stays fine.
LEMMA RepoChanges ==
  ASSUME IInv, NothingLost, NEW Gone, NEW New, Changes(Gone, New),
         NEW q \in Requests, Untouched(q),
         \A s \in Gone \cup New :
            ~ (/\ s.driver = call[q].driver /\ s.volume = call[q].volume
               /\ s.name = call[q].name),
         pc[q] = "tag" => \A s \in Gone : ~ Untagged(q, s)
  PROVE  RepoSnapshot(q)'
<1>1. /\ call' = call /\ Fine(q) /\ Types
      /\ pc'[q] = pc[q] /\ todo'[q] = todo[q] /\ buf'[q] = buf[q] /\ sid'[q] = sid[q]
      /\ since'[q] = since[q]
  BY DEF IInv, NothingLost, Untouched
<1>2. SUFFICES ASSUME ToRepo(q) PROVE RepoSnapshot(q)'
  BY <1>1, CallStays DEF RepoSnapshot
<1>3. Matches(q)' = Matches(q)
  BY <1>1 DEF Matches, Changes
<1>4. SnapshotUnwanted(q) => SnapshotUnwanted(q)'
  BY WishesStay
<1>5. pc[q] = "tag" => \E s \in repo' : Untagged(q, s)'
  <2>1. SUFFICES ASSUME pc[q] = "tag" PROVE \E s \in repo' : Untagged(q, s)'
    OBVIOUS
  <2>2. PICK s \in repo : Untagged(q, s)
    BY <1>1, <1>2, <2>1 DEF Fine, RepoSnapshot
  <2>3. s \in repo'
    BY <2>1, <2>2 DEF Changes
  <2>4. Untagged(q, s)'
    BY <1>1, <2>2 DEF Untagged, Includes
  <2>5. QED
    BY <2>3, <2>4
<1>6. pc[q] \in {"reply", "done"} => InRepo(sid[q])' = InRepo(sid[q])
  <2>1. SUFFICES ASSUME pc[q] \in {"reply", "done"} PROVE InRepo(sid[q])' = InRepo(sid[q])
    OBVIOUS
  <2>2. /\ sid[q][1] = call[q].driver /\ Matches(q) = InRepo(sid[q]) /\ sid[q] \in Ids
        /\ call[q].driver \in {"restic", "kopia"}
    BY <1>1, <1>2, <2>1, CallsAre DEF Fine, RepoSnapshot, Types, ToRepo, Drivers
  <2>3. PICK n \in 1..lastId : sid[q] = <<call[q].driver, n>>
    BY <2>2 DEF Ids, NoId
  <2>4. InRepo(sid[q])' = {s \in repo' : s.driver = call[q].driver /\ s.id = n}
    BY <1>1, <2>3 DEF InRepo
  <2>5. InRepo(sid[q]) = {s \in repo : s.driver = call[q].driver /\ s.id = n}
    BY <2>3 DEF InRepo
  <2>6. \A s \in Gone : s \notin InRepo(sid[q])
    BY <2>2 DEF Matches
  <2>7. QED
    BY <2>3, <2>4, <2>5, <2>6 DEF Changes
<1>7. QED
  BY <1>1, <1>2, <1>3, <1>4, <1>5, <1>6 DEF Fine, RepoSnapshot

\* A snapshot that was answered for is not made again, nor changed.
LEMMA RepoGrows ==
  ASSUME IInv, NothingLost, NEW Gone, NEW New, Changes(Gone, New), dir' = dir
  PROVE  /\ MadeThingsGrow
         /\ \A p \in Requests : Is(p, "CreateSnapshot") /\ Done(p) /\ ~ SnapshotExists(sid[p])
                                  => ~ SnapshotExists(sid[p])'
<1>1. Types /\ writes \in Nat
  BY BoundsAssumption DEF IInv, Types
<1>2. ASSUME NEW v \in Volumes PROVE VolumeGrows(v)
  <2>1. VolumePath(v) \in DOMAIN dir => Includes(dir[VolumePath(v)], dir[VolumePath(v)])
    BY <1>1, IncludesSelf DEF Types
  <2>2. QED
    BY <2>1 DEF VolumeGrows, Includes
<1>3. ASSUME NEW p \in Requests, Is(p, "CreateSnapshot"), Done(p)
      PROVE  SnapshotGrows(p) /\ (~ SnapshotExists(sid[p]) => ~ SnapshotExists(sid[p])')
  <2>1. sid'[p] = sid[p] /\ sid[p] \in Ids
    BY <1>1, <1>3 DEF NothingLost, Types
  <2>2. SnapshotExists(sid[p]) => Includes(SnapshotFiles(sid[p]), SnapshotFiles(sid[p]))
    BY <1>1, <2>1, SnapshotsAreFiles, IncludesSelf
  <2>3. CASE ~ ToRepo(p)
    <3>1. sid[p] = <<"filecopy", Dest(p)>>
      BY <1>3, <2>3, IdOfDone
    <3>2. /\ SnapshotExists(sid[p])' <=> SnapshotExists(sid[p])
          /\ SnapshotFiles(sid[p])' = SnapshotFiles(sid[p])
      BY <2>1, <3>1 DEF SnapshotExists, SnapshotFiles
    <3>3. QED
      BY <2>2, <3>2 DEF SnapshotGrows, Includes
  <2>4. CASE ToRepo(p)
    <3>1. sid[p][1] # "filecopy" /\ sid[p][1] = call[p].driver
            /\ call[p].driver \in {"restic", "kopia"}
      BY <1>1, <1>3, <2>4, IdOfDone, CallsAre DEF Types, Drivers
    <3>2. PICK n \in 1..lastId : sid[p] = <<call[p].driver, n>>
      BY <2>1, <3>1 DEF Ids, NoId
    <3>3. InRepo(sid[p]) = {s \in repo : s.driver = call[p].driver /\ s.id = n}
      BY <3>2 DEF InRepo
    <3>4. InRepo(sid[p])' = {s \in repo' : s.driver = call[p].driver /\ s.id = n}
      BY <2>1, <3>2 DEF InRepo, NothingLost
    <3>5. InRepo(sid[p])' \subseteq InRepo(sid[p])
      BY <3>2, <3>3, <3>4 DEF Changes
    <3>6. \A s, t \in InRepo(sid[p]) : s = t
      BY <3>3 DEF IInv, BackupsAreDistinct
    <3>7. InRepo(sid[p])' # {} => InRepo(sid[p])' = InRepo(sid[p])
      BY <3>5, <3>6
    <3>8. /\ SnapshotExists(sid[p]) <=> InRepo(sid[p]) # {}
          /\ SnapshotExists(sid[p])' <=> InRepo(sid[p])' # {}
          /\ SnapshotFiles(sid[p]) = (CHOOSE s \in InRepo(sid[p]) : TRUE).files
          /\ SnapshotFiles(sid[p])' = (CHOOSE s \in InRepo(sid[p])' : TRUE).files
      BY <2>1, <3>1 DEF SnapshotExists, SnapshotFiles
    <3>9. QED
      BY <2>2, <3>5, <3>7, <3>8 DEF SnapshotGrows, Includes
  <2>5. QED
    BY <2>3, <2>4
<1>4. QED
  BY <1>2, <1>3 DEF MadeThingsGrow

\* A step of r at a repository.
LEMMA RepoStep ==
  ASSUME IInv, NEW r \in Requests, Running(r),
         UNCHANGED <<call, since, dir, unnoticed, bounds>>,
         lastId' \in Nat, lastId <= lastId',
         pc' \in [Requests -> Steps], pc'[r] \notin {"idle", "copy"},
         todo' \in [Requests -> SUBSET Files], buf' \in [Requests -> UpTo(writes)],
         sid' \in [Requests -> Ids'],
         \A q \in Requests \ {r} :
            pc'[q] = pc[q] /\ todo'[q] = todo[q] /\ buf'[q] = buf[q] /\ sid'[q] = sid[q],
         NEW Gone, NEW New, Changes(Gone, New)
  PROVE  /\ NothingNew /\ SourceWasMade(r)' /\ UnwantedIsSettled(r)' /\ SourceLasts(r)'
         /\ \A q \in Requests \ {r} : Untouched(q)
         /\ /\ BackupsHaveOwners' /\ BackupsAreDistinct' /\ TaggedBackupsAreComplete'
            /\ \A q \in Requests : RepoSnapshot(q)'
            /\ InItsPlace(r)' /\ DirSnapshot(r)' /\ DeletedIsGone(r)' /\ VolumeCopy(r)'
            => IInv'
<1>1. /\ call' = call /\ since' = since /\ dir' = dir /\ unnoticed' = unnoticed
      /\ writes' = writes /\ faults' = faults /\ Types /\ lastId \in Nat /\ writes \in Nat
  BY BoundsAssumption DEF bounds, IInv, Types
<1>2. /\ NothingNew /\ NothingLost
      /\ \A q \in Requests : Running(q)' => Running(q)
  BY <1>1 DEF NothingNew, NothingLost, Running, Done, Sent
<1>3. Types'
  <2>1. 1..lastId \subseteq 1..lastId'
    BY <1>1
  <2>2. /\ Backups = [driver : {"restic", "kopia"}, id : 1..lastId, original : 1..lastId,
                      volume : Volumes, name : Names \cup {NoName}, files : UpTo(writes)]
        /\ Backups' = [driver : {"restic", "kopia"}, id : 1..lastId', original : 1..lastId',
                       volume : Volumes, name : Names \cup {NoName}, files : UpTo(writes)]
    BY <1>1 DEF Backups, UpTo
  <2>3. Backups \subseteq Backups'
    BY <2>1, <2>2
  <2>4. repo' \subseteq Backups'
    BY <1>1, <2>3 DEF Changes, Types
  <2>5. QED
    BY <1>1, <2>4 DEF Types, UpTo
<1>4. SourceWasMade(r)' /\ UnwantedIsSettled(r)'
  BY <1>2, RunnerStays DEF Running, Unfinished
<1>5. /\ MadeThingsGrow
      /\ \A p \in Requests : Is(p, "CreateSnapshot") /\ Done(p) /\ ~ SnapshotExists(sid[p])
                               => ~ SnapshotExists(sid[p])'
  BY <1>1, <1>2, RepoGrows
<1>6. SourceLasts(r)'
  BY <1>1, <1>2, <1>3, <1>5, SourceLastsOn DEF Running, Sent
<1>7. \A q \in Requests \ {r} : Untouched(q)
  BY <1>1 DEF Untouched
<1>8. ASSUME NEW q \in Requests \ {r}
      PROVE  /\ InItsPlace(q)' /\ SourceWasMade(q)' /\ UnwantedIsSettled(q)' /\ DirSnapshot(q)'
             /\ DeletedIsGone(q)' /\ SourceLasts(q)' /\ VolumeCopy(q)'
  <2>1. /\ pc'[q] = pc[q] /\ sid'[q] = sid[q] /\ since'[q] = since[q] /\ todo'[q] = todo[q]
        /\ Untouched(q)
    BY <1>7 DEF Untouched
  <2>2. InItsPlace(q)' /\ SourceWasMade(q)' /\ UnwantedIsSettled(q)'
    BY <1>2, <2>1, PlaceStays
  <2>3. DirSnapshot(q)'
    <3>1. \A p \in Requests : pc'[p] = "copy" => pc[p] = "copy"
      OBVIOUS
    <3>2. QED
      BY <1>1, <1>2, <2>1, <3>1, DirStays
  <2>4. DeletedIsGone(q)'
    <3>1. \A p \in Requests : Sent(q) /\ Deletes(q, p) => Is(p, "CreateSnapshot")
      BY DEF IInv, Fine, SourceWasMade
    <3>2. QED
      BY <1>2, <1>5, <2>1, <3>1, GoneStays
  <2>5. SourceLasts(q)'
    <3>1. pc[q] = "copy" /\ Copies(q) /\ SourceExists(q)
            => todo[q] \subseteq DOMAIN SourceFiles(q)
      BY DEF IInv, Fine, SourceLasts, Sent
    <3>2. QED
      BY <1>2, <1>3, <1>5, <2>1, <3>1, SourceLastsOn DEF Sent
  <2>6. VolumeCopy(q)'
    <3>1. Dest(q) \in DOMAIN dir => Includes(dir[Dest(q)], dir[Dest(q)])
      BY <1>1, IncludesSelf DEF Types
    <3>2. QED
      BY <1>1, <1>2, <1>3, <2>1, <3>1, CopyStays
  <2>7. QED
    BY <2>2, <2>3, <2>4, <2>5, <2>6
<1>9. OneAtATime'
  BY <1>1, <1>2, OneAtATimeStays
<1>10. QED
  BY <1>2, <1>3, <1>4, <1>6, <1>7, <1>8, <1>9 DEF IInv, Fine

\* While a call puts a snapshot in a repository, nobody has one of that name.
LEMMA NoneInRepo ==
  ASSUME IInv, NEW r \in Requests, ToRepo(r), Running(r), Matches(r) = {},
         NEW q \in Requests \ {r}, SameSnapshot(q, r)
  PROVE  pc[q] \in {"idle", "pending"}
<1>1. Fine(q) /\ Fine(r) /\ Is(q, "CreateSnapshot") /\ Is(r, "CreateSnapshot") /\ ToRepo(q)
        /\ Matches(q) = {} /\ (SnapshotUnwanted(q) => SnapshotUnwanted(r))
  BY DEF IInv, SameSnapshot, ToRepo, Is, Matches, SnapshotUnwanted
<1>2. ~ SnapshotUnwanted(r)
  BY <1>1 DEF Fine, UnwantedIsSettled, Running
<1>3. ~ Running(q)
  BY DEF IInv, OneAtATime
<1>4. ~ Done(q)
  BY <1>1, <1>2 DEF Fine, RepoSnapshot, Done
<1>5. QED
  BY <1>3, <1>4 DEF Running, Done

\* Two snapshots of one driver, volume and name are one.
LEMMA SameTags ==
  ASSUME IInv, NEW q \in Requests, NEW r \in Requests, ToRepo(q), ToRepo(r),
         call[q].driver = call[r].driver, call[q].volume = call[r].volume,
         call[q].name = call[r].name
  PROVE  SameSnapshot(q, r)
BY CallsAreWellFormed DEF ToRepo, IInv, Types

\* A request that makes no snapshot in a repository, or has not begun, says nothing of them.
LEMMA NothingInRepo ==
  ASSUME call' = call, NEW q \in Requests, ~ ToRepo(q) \/ pc'[q] \in {"idle", "pending"}
  PROVE  RepoSnapshot(q)'
BY CallStays DEF RepoSnapshot

\* A backup is complete, and appears in its repository.
LEMMA BackedUpKeeps ==
  ASSUME IInv, NEW r \in Requests, BackedUp(r)
  PROVE  IInv'
<1>0. PICK b : b = [driver |-> call[r].driver, id |-> lastId + 1, original |-> lastId + 1,
                    volume |-> call[r].volume, files |-> buf[r],
                    name |-> IF call[r].driver = "restic" THEN NoName ELSE call[r].name]
  OBVIOUS
<1> DEFINE step == IF call[r].driver = "restic" THEN "tag" ELSE "reply"
<1>1. /\ pc[r] = "copy" /\ todo[r] = {} /\ ToRepo(r) /\ Types /\ Fine(r) /\ Running(r)
      /\ Sent(r) /\ call \in Plans /\ lastId \in Nat /\ writes \in Nat
      /\ Is(r, "CreateSnapshot") /\ ~ Is(r, "CreateVolume") /\ ~ Is(r, "DeleteSnapshot")
      /\ ~ Is(r, "DeleteVolume") /\ Copies(r)
  BY BoundsAssumption DEF BackedUp, Copied, On, IInv, Running, Sent, Types, ToRepo, Is,
     Copies
<1>2. /\ call[r].volume \in Volumes /\ call[r].name \in Names /\ call[r].name # NoName
      /\ call[r].driver \in {"restic", "kopia"}
      /\ \A q \in Requests : call[q].name # NoName
  BY <1>1, CallsAre DEF ToRepo, Drivers
<1>3. /\ repo' = repo \cup {b} /\ lastId' = lastId + 1
      /\ sid' = [sid EXCEPT ![r] = <<call[r].driver, lastId + 1>>]
      /\ buf' = [buf EXCEPT ![r] = NoFiles] /\ pc' = [pc EXCEPT ![r] = step]
      /\ call' = call /\ since' = since /\ UNCHANGED bounds
      /\ todo' = todo /\ dir' = dir /\ unnoticed' = unnoticed
  BY <1>0 DEF BackedUp, Go
<1>4. /\ b.driver = call[r].driver /\ b.id = lastId + 1 /\ b.original = lastId + 1
      /\ b.volume = call[r].volume /\ b.files = buf[r]
      /\ call[r].driver = "restic" => b.name = NoName
      /\ call[r].driver # "restic" => b.name = call[r].name
      /\ b.name \in Names \cup {NoName}
  BY <1>0, <1>2
<1>5. b \in Backups'
  <2>1. lastId + 1 \in 1..lastId' /\ writes' = writes
    BY <1>1, <1>3 DEF bounds
  <2>2. buf[r] \in UpTo(writes')
    BY <1>1, <2>1 DEF Types
  <2>3. QED
    BY <1>0, <1>2, <2>1, <2>2 DEF Backups, UpTo
<1>6. /\ pc' \in [Requests -> Steps] /\ pc'[r] = step /\ step \in {"tag", "reply"}
      /\ sid'[r] = <<call[r].driver, lastId + 1>> /\ sid' \in [Requests -> Ids']
      /\ todo' \in [Requests -> SUBSET Files] /\ buf' \in [Requests -> UpTo(writes)]
      /\ \A q \in Requests \ {r} :
            pc'[q] = pc[q] /\ todo'[q] = todo[q] /\ buf'[q] = buf[q] /\ sid'[q] = sid[q]
  <2>1. Ids \subseteq Ids' /\ <<call[r].driver, lastId + 1>> \in Ids'
    <3>1. 1..lastId \subseteq 1..lastId' /\ lastId + 1 \in 1..lastId'
      BY <1>1, <1>3
    <3>2. QED
      BY <1>2, <3>1 DEF Ids
  <2>2. sid' \in [Requests -> Ids'] /\ sid'[r] = <<call[r].driver, lastId + 1>>
    BY <1>1, <1>3, <2>1 DEF Types
  <2>3. buf' \in [Requests -> UpTo(writes)]
    BY <1>1, <1>3, NoFilesAreFiles DEF Types
  <2>4. QED
    BY <1>1, <1>3, <2>2, <2>3 DEF Types, Steps
<1>7. Changes({}, {b})
  BY <1>1, <1>3, <1>4, <1>5 DEF Changes
<1>8. /\ NothingLost /\ \A q \in Requests \ {r} : Untouched(q)
      /\ /\ BackupsHaveOwners' /\ BackupsAreDistinct' /\ TaggedBackupsAreComplete'
         /\ \A q \in Requests : RepoSnapshot(q)'
         /\ InItsPlace(r)' /\ DirSnapshot(r)' /\ DeletedIsGone(r)' /\ VolumeCopy(r)'
         => IInv'
  <2>1. lastId' \in Nat /\ lastId <= lastId' /\ pc'[r] \notin {"idle", "copy"}
    BY <1>1, <1>3, <1>6
  <2> HIDE DEF step
  <2>2. QED
    BY <1>1, <1>3, <1>6, <1>7, <2>1, RepoStep DEF NothingNew
<1>9. Matches(r) = {} /\ Includes(buf[r], since[r])
  BY <1>1 DEF Fine, RepoSnapshot, Includes
<1>10. \A s \in repo : s.id \in 1..lastId /\ s.original \in 1..lastId
  BY <1>1 DEF Types, Backups
<1>11. BackupsHaveOwners'
  <2>1. \A q \in Requests \ {r} : pc[q] = "tag" => sid'[q] # sid'[r]
    <3>1. SUFFICES ASSUME NEW q \in Requests \ {r}, pc[q] = "tag" PROVE sid'[q] # sid'[r]
      OBVIOUS
    <3>2. ToRepo(q)
      <4>1. call[q].method \in Methods /\ Fine(q)
        BY <1>1, CallsAre DEF IInv
      <4>2. QED
        BY <3>1, <4>1 DEF Fine, InItsPlace, Is, Methods, ToRepo
    <3>3. PICK s \in repo : sid[q] = <<"restic", s.id>>
      BY <3>1, <3>2 DEF IInv, Fine, RepoSnapshot, Untagged
    <3>4. QED
      BY <1>1, <1>6, <1>10, <3>3
  <2>2. QED
    BY <1>6, <2>1 DEF IInv, BackupsHaveOwners
<1>12. BackupsAreDistinct'
  <2>1. \A s \in repo : s.id # b.id /\ s.original # b.original
    BY <1>1, <1>4, <1>10
  <2>2. \A s \in repo :
           ~ (/\ b.name # NoName /\ s.name = b.name
              /\ s.driver = b.driver /\ s.volume = b.volume)
    BY <1>4, <1>9 DEF Matches
  <2>3. QED
    BY <1>3, <2>1, <2>2 DEF IInv, BackupsAreDistinct
<1>13. TaggedBackupsAreComplete'
  <2>1. Sent(r)'
    BY <1>6 DEF Sent
  <2>2. b.name # NoName =>
          /\ call[r].driver = b.driver /\ call[r].volume = b.volume /\ call[r].name = b.name
          /\ Includes(b.files, since[r])
    BY <1>4, <1>9
  <2>3. \A q \in Requests : Sent(q) => Sent(q)'
    BY <1>6, <2>1 DEF Sent
  <2>4. ASSUME NEW s \in repo', s.name # NoName
        PROVE  \E p \in Requests :
                  /\ Is(p, "CreateSnapshot") /\ Sent(p)'
                  /\ call[p].driver = s.driver /\ call[p].volume = s.volume
                  /\ call[p].name = s.name
                  /\ Includes(s.files, since[p])
    <3>1. CASE s = b
      BY <1>1, <2>1, <2>2, <2>4, <3>1
    <3>2. CASE s \in repo
      BY <2>3, <2>4, <3>2 DEF IInv, TaggedBackupsAreComplete
    <3>3. QED
      BY <1>3, <3>1, <3>2
  <2>5. QED
    BY <1>3, <2>4 DEF TaggedBackupsAreComplete, Is, Includes
<1>14. \A q \in Requests \ {r} : RepoSnapshot(q)'
  <2>1. SUFFICES ASSUME NEW q \in Requests \ {r}, ToRepo(q), pc[q] \notin {"idle", "pending"}
                 PROVE  RepoSnapshot(q)'
    BY <1>3, <1>6, NothingInRepo
  <2>2. ~ SameSnapshot(q, r)
    BY <1>1, <1>9, <2>1, NoneInRepo
  <2>3. ~ (/\ b.driver = call[q].driver /\ b.volume = call[q].volume
           /\ b.name = call[q].name)
    BY <1>1, <1>2, <1>4, <2>1, <2>2, SameTags
  <2>4. QED
    BY <1>7, <1>8, <2>3, RepoChanges
<1>15. RepoSnapshot(r)'
  <2>1. Matches(r)' = {s \in repo' : /\ s.driver = call[r].driver /\ s.volume = call[r].volume
                                      /\ s.name = call[r].name}
    BY <1>3 DEF Matches
  <2>2. InRepo(sid[r])' = {s \in repo' : s.driver = call[r].driver /\ s.id = lastId + 1}
    BY <1>6 DEF InRepo
  <2>3. CASE call[r].driver = "restic"
    <3>1. Matches(r)' = {}
      BY <1>2, <1>3, <1>4, <1>9, <2>1, <2>3 DEF Matches
    <3>2. Untagged(r, b)'
      BY <1>3, <1>4, <1>6, <1>9, <2>3 DEF Untagged, Includes
    <3>3. pc'[r] = "tag" /\ b \in repo'
      BY <1>3, <1>6, <2>3
    <3>4. QED
      BY <3>1, <3>2, <3>3 DEF RepoSnapshot
  <2>4. CASE call[r].driver # "restic"
    <3>1. Matches(r)' = {b}
      BY <1>3, <1>4, <1>9, <2>1, <2>4 DEF Matches
    <3>2. InRepo(sid[r])' = {b}
      BY <1>1, <1>3, <1>4, <1>10, <2>2
    <3>3. pc'[r] = "reply" /\ sid'[r][1] = call[r].driver
      BY <1>6, <2>4
    <3>4. QED
      BY <1>3, <3>1, <3>2, <3>3 DEF RepoSnapshot
  <2>5. QED
    BY <2>3, <2>4
<1>16. InItsPlace(r)' /\ DirSnapshot(r)' /\ DeletedIsGone(r)' /\ VolumeCopy(r)'
  <2>1. (ToRepo(r)' <=> ToRepo(r)) /\ \A m \in Methods : Is(r, m)' <=> Is(r, m)
    BY <1>3, CallStays
  <2>2. pc'[r] = "tag" => call[r].driver = "restic"
    BY <1>6
  <2>3. QED
    BY <1>1, <1>3, <1>6, <2>1, <2>2
       DEF InItsPlace, DirSnapshot, DeletedIsGone, VolumeCopy, Deletes, Is, Methods
<1>17. QED
  BY <1>8, <1>11, <1>12, <1>13, <1>14, <1>15, <1>16

\* A backup is tagged with the name of its snapshot.
LEMMA TagKeeps ==
  ASSUME IInv, NEW r \in Requests, Tag(r)
  PROVE  IInv'
<1>1. /\ pc[r] = "tag" /\ Types /\ Fine(r) /\ Running(r) /\ Sent(r) /\ call \in Plans
      /\ lastId \in Nat /\ writes \in Nat /\ call[r].method \in Methods
  BY BoundsAssumption, CallsAre DEF Tag, On, IInv, Running, Sent, Types
<1>2. /\ Is(r, "CreateSnapshot") /\ ~ Is(r, "CreateVolume") /\ ~ Is(r, "DeleteSnapshot")
      /\ ~ Is(r, "DeleteVolume") /\ call[r].driver = "restic" /\ ToRepo(r)
  BY <1>1 DEF Fine, InItsPlace, Is, Methods, ToRepo
<1>3. call[r].volume \in Volumes /\ call[r].name \in Names /\ call[r].name # NoName
  BY <1>1, CallsAre
<1>4. PICK s \in InRepo(sid[r]) :
         repo' = (repo \ {s}) \cup {[s EXCEPT !.id = lastId + 1, !.name = call[r].name]}
  BY DEF Tag
<1>5. Untagged(r, s) /\ s \in repo /\ s \in Backups /\ Matches(r) = {}
  <2>1. PICK t \in repo : Untagged(r, t)
    BY <1>1, <1>2 DEF Fine, RepoSnapshot
  <2>2. s \in repo /\ s.id = t.id
    BY <1>4, <2>1 DEF Untagged, InRepo
  <2>3. s = t
    BY <2>1, <2>2 DEF IInv, BackupsAreDistinct
  <2>4. QED
    BY <1>1, <1>2, <2>1, <2>2, <2>3 DEF Fine, RepoSnapshot, Types
<1>6. PICK b : b = [s EXCEPT !.id = lastId + 1, !.name = call[r].name]
  OBVIOUS
<1>7. /\ b.driver = "restic" /\ b.id = lastId + 1 /\ b.original = s.original
      /\ b.volume = call[r].volume /\ b.files = s.files /\ b.name = call[r].name
      /\ b.original = s.id /\ s.name = NoName /\ Includes(b.files, since[r])
      /\ sid[r] = <<"restic", s.id>> /\ s.original \in 1..lastId
  BY <1>5, <1>6 DEF Backups, Untagged
<1>8. /\ repo' = (repo \ {s}) \cup {b} /\ lastId' = lastId + 1
      /\ pc' = [pc EXCEPT ![r] = "lookup"]
      /\ call' = call /\ since' = since /\ UNCHANGED bounds
      /\ todo' = todo /\ buf' = buf /\ sid' = sid /\ dir' = dir /\ unnoticed' = unnoticed
  BY <1>4, <1>6 DEF Tag, Go, locals
<1>9. b \in Backups'
  <2>1. lastId + 1 \in 1..lastId' /\ s.original \in 1..lastId' /\ writes' = writes
    BY <1>1, <1>7, <1>8 DEF bounds
  <2>2. s.files \in UpTo(writes') /\ s.volume \in Volumes
    BY <1>5, <2>1 DEF Backups
  <2>3. b = [driver |-> "restic", id |-> lastId + 1, original |-> s.original,
             volume |-> s.volume, files |-> s.files, name |-> call[r].name]
    BY <1>5, <1>6 DEF Backups, Untagged
  <2>4. QED
    BY <1>3, <2>1, <2>2, <2>3 DEF Backups, UpTo
<1>10. /\ pc' \in [Requests -> Steps] /\ pc'[r] = "lookup" /\ sid' \in [Requests -> Ids']
       /\ todo' \in [Requests -> SUBSET Files] /\ buf' \in [Requests -> UpTo(writes)]
       /\ \A q \in Requests \ {r} :
             pc'[q] = pc[q] /\ todo'[q] = todo[q] /\ buf'[q] = buf[q] /\ sid'[q] = sid[q]
  <2>1. 1..lastId \subseteq 1..lastId'
    BY <1>1, <1>8
  <2>2. Ids \subseteq Ids'
    BY <2>1 DEF Ids
  <2>3. QED
    BY <1>1, <1>8, <2>2 DEF Types, Steps
<1>11. Changes({s}, {b})
  BY <1>1, <1>7, <1>8, <1>9 DEF Changes
<1>12. /\ NothingLost /\ \A q \in Requests \ {r} : Untouched(q)
       /\ /\ BackupsHaveOwners' /\ BackupsAreDistinct' /\ TaggedBackupsAreComplete'
          /\ \A q \in Requests : RepoSnapshot(q)'
          /\ InItsPlace(r)' /\ DirSnapshot(r)' /\ DeletedIsGone(r)' /\ VolumeCopy(r)'
          => IInv'
  <2>1. lastId' \in Nat /\ lastId <= lastId' /\ pc'[r] \notin {"idle", "copy"}
    BY <1>1, <1>8, <1>10
  <2>2. QED
    BY <1>1, <1>8, <1>10, <1>11, <2>1, RepoStep DEF NothingNew
<1>13. BackupsHaveOwners'
  BY <1>8, <1>10 DEF IInv, BackupsHaveOwners
<1>14. BackupsAreDistinct'
  <2>1. \A t \in repo : t.id \in 1..lastId
    BY <1>1 DEF Types, Backups
  <2>2. \A t \in repo : t.id # b.id
    BY <1>1, <1>7, <2>1
  <2>3. \A t \in repo \ {s} : t.original # b.original
    BY <1>5, <1>7 DEF IInv, BackupsAreDistinct
  <2>4. \A t \in repo : ~ (t.name = b.name /\ t.driver = b.driver /\ t.volume = b.volume)
    BY <1>2, <1>5, <1>7 DEF Matches
  <2>5. QED
    BY <1>8, <2>2, <2>3, <2>4 DEF IInv, BackupsAreDistinct
<1>15. TaggedBackupsAreComplete'
  <2>1. Sent(r)' /\ \A q \in Requests : Sent(q) => Sent(q)'
    BY <1>10 DEF Sent
  <2>2. ASSUME NEW t \in repo', t.name # NoName
        PROVE  \E p \in Requests :
                  /\ Is(p, "CreateSnapshot") /\ Sent(p)'
                  /\ call[p].driver = t.driver /\ call[p].volume = t.volume
                  /\ call[p].name = t.name
                  /\ Includes(t.files, since[p])
    <3>1. CASE t = b
      BY <1>2, <1>7, <2>1, <3>1
    <3>2. CASE t \in repo
      BY <2>1, <2>2, <3>2 DEF IInv, TaggedBackupsAreComplete
    <3>3. QED
      BY <1>8, <3>1, <3>2
  <2>3. QED
    BY <1>8, <2>2 DEF TaggedBackupsAreComplete, Is, Includes
<1>16. \A q \in Requests \ {r} : RepoSnapshot(q)'
  <2>1. SUFFICES ASSUME NEW q \in Requests \ {r}, ToRepo(q), pc[q] \notin {"idle", "pending"}
                 PROVE  RepoSnapshot(q)'
    BY <1>8, <1>10, NothingInRepo
  <2>2. ~ SameSnapshot(q, r)
    BY <1>1, <1>2, <1>5, <2>1, NoneInRepo
  <2>3. ~ (/\ b.driver = call[q].driver /\ b.volume = call[q].volume
           /\ b.name = call[q].name)
    BY <1>2, <1>7, <2>1, <2>2, SameTags
  <2>4. s.name # call[q].name
    BY <1>1, <1>7, CallsAre
  <2>5. pc[q] = "tag" => ~ Untagged(q, s)
    BY <1>1, <1>7 DEF IInv, BackupsHaveOwners, Untagged
  <2>6. QED
    BY <1>11, <1>12, <2>3, <2>4, <2>5, RepoChanges
<1>17. RepoSnapshot(r)'
  <2>1. b \in Matches(r)'
    BY <1>2, <1>7, <1>8 DEF Matches
  <2>2. sid'[r][1] = "restic" /\ b.original = sid'[r][2]
    BY <1>7, <1>8
  <2>3. QED
    BY <1>10, <2>1, <2>2 DEF RepoSnapshot
<1>18. InItsPlace(r)' /\ DirSnapshot(r)' /\ DeletedIsGone(r)' /\ VolumeCopy(r)'
  <2>1. (ToRepo(r)' <=> ToRepo(r)) /\ \A m \in Methods : Is(r, m)' <=> Is(r, m)
    BY <1>8, CallStays
  <2>2. QED
    BY <1>2, <1>8, <1>10, <2>1
       DEF InItsPlace, DirSnapshot, DeletedIsGone, VolumeCopy, Deletes, Is, Methods
<1>19. QED
  BY <1>12, <1>13, <1>14, <1>15, <1>16, <1>17, <1>18

\* DeleteSnapshot removes a snapshot from its repository.
LEMMA DeleteRepoSnapshotKeeps ==
  ASSUME IInv, NEW r \in Requests, DeleteSnapshot(r), NEW p \in Requests,
         call[r].source[2] = p, sid[p][1] # "filecopy"
  PROVE  IInv'
<1>1. pc[r] = "remove" /\ Is(r, "DeleteSnapshot") /\ Types /\ call \in Plans /\ lastId \in Nat
  BY DEF DeleteSnapshot, On, IInv, Types
<1>2. /\ Running(r) /\ Sent(r) /\ ~ Copies(r)
      /\ ~ Is(r, "CreateVolume") /\ ~ Is(r, "CreateSnapshot") /\ ~ Is(r, "DeleteVolume")
      /\ \A q \in Requests : Deletes(r, q) => q = p
      /\ Is(p, "CreateSnapshot") /\ Done(p)
      /\ \A q \in Requests : SameSnapshot(q, p) =>
            SnapshotUnwanted(q) /\ pc[q] \in {"idle", "done"}
  BY <1>1, DeletionIs
<1>3. /\ ToRepo(p) /\ Matches(p) = InRepo(sid[p]) /\ sid[p] \in Ids
  BY <1>1, <1>2, IdOfDone DEF Types
<1>4. PICK Gone : Gone = InRepo(sid[p])
  OBVIOUS
<1>5. /\ repo' = repo \ Gone /\ lastId' = lastId /\ pc' = [pc EXCEPT ![r] = "reply"]
      /\ call' = call /\ since' = since /\ UNCHANGED bounds
      /\ todo' = todo /\ buf' = buf /\ sid' = sid /\ dir' = dir /\ unnoticed' = unnoticed
  BY <1>4 DEF DeleteSnapshot, Go, locals
<1>6. /\ pc' \in [Requests -> Steps] /\ pc'[r] = "reply" /\ sid' \in [Requests -> Ids']
      /\ todo' \in [Requests -> SUBSET Files] /\ buf' \in [Requests -> UpTo(writes)]
      /\ \A q \in Requests \ {r} :
            pc'[q] = pc[q] /\ todo'[q] = todo[q] /\ buf'[q] = buf[q] /\ sid'[q] = sid[q]
  BY <1>1, <1>5 DEF Types, Steps, Ids
<1>7. Changes(Gone, {})
  BY <1>5 DEF Changes
<1>8. /\ NothingLost /\ \A q \in Requests \ {r} : Untouched(q)
      /\ /\ BackupsHaveOwners' /\ BackupsAreDistinct' /\ TaggedBackupsAreComplete'
         /\ \A q \in Requests : RepoSnapshot(q)'
         /\ InItsPlace(r)' /\ DirSnapshot(r)' /\ DeletedIsGone(r)' /\ VolumeCopy(r)'
         => IInv'
  <2>1. lastId' \in Nat /\ lastId <= lastId' /\ pc'[r] \notin {"idle", "copy"}
    BY <1>1, <1>5, <1>6
  <2>2. QED
    BY <1>2, <1>5, <1>6, <1>7, <2>1, RepoStep DEF NothingNew
<1>9. BackupsHaveOwners' /\ BackupsAreDistinct'
  BY <1>5, <1>6 DEF IInv, BackupsHaveOwners, BackupsAreDistinct
<1>10. TaggedBackupsAreComplete'
  <2>1. \A q \in Requests : Sent(q) => Sent(q)'
    BY <1>6 DEF Sent
  <2>2. QED
    BY <1>5, <2>1 DEF IInv, TaggedBackupsAreComplete, Is, Includes
<1>11. ASSUME NEW q \in Requests \ {r} PROVE RepoSnapshot(q)'
  <2>1. SUFFICES ASSUME ToRepo(q), pc[q] \notin {"idle", "pending"}
                 PROVE  RepoSnapshot(q)'
    BY <1>5, <1>6, NothingInRepo
  <2>2. CASE SameSnapshot(q, p)
    <3>1. Done(q) /\ SnapshotUnwanted(q)
      BY <1>2, <2>1, <2>2 DEF Done
    <3>2. Is(q, "CreateSnapshot") /\ sid[q][1] = call[q].driver /\ Matches(q) = InRepo(sid[q])
      BY <2>2, <3>1, <2>1, IdOfDone DEF SameSnapshot
    <3>3. Matches(q) = Gone
      BY <1>3, <1>4, <2>2 DEF SameSnapshot, Matches
    <3>4. Matches(q)' = Matches(q) \ Gone /\ InRepo(sid[q])' = InRepo(sid[q]) \ Gone
      BY <1>5 DEF Matches, InRepo
    <3>5. SnapshotUnwanted(q)' /\ pc'[q] = "done" /\ sid'[q] = sid[q]
      BY <1>5, <1>6, <1>8, <3>1, WishesStay DEF Done
    <3>6. QED
      BY <1>5, <3>2, <3>3, <3>4, <3>5 DEF RepoSnapshot
  <2>3. CASE ~ SameSnapshot(q, p)
    <3>1. \A s \in Gone :
             /\ s.driver = call[p].driver /\ s.volume = call[p].volume /\ s.name = call[p].name
             /\ s.name # NoName
      BY <1>1, <1>3, <1>4, CallsAre DEF Matches
    <3>2. ~ (/\ call[p].driver = call[q].driver /\ call[p].volume = call[q].volume
             /\ call[p].name = call[q].name)
      BY <1>3, <2>1, <2>3, SameTags
    <3>3. \A s \in Gone : ~ Untagged(q, s)
      BY <3>1 DEF Untagged
    <3>4. QED
      BY <1>7, <1>8, <3>1, <3>2, <3>3, RepoChanges
  <2>4. QED
    BY <2>2, <2>3
<1>12. /\ \A m \in Methods : Is(r, m)' <=> Is(r, m)
       /\ \A q \in Requests : Deletes(r, q)' <=> Deletes(r, q)
  BY <1>5, CallStays
<1>13. InItsPlace(r)' /\ RepoSnapshot(r)' /\ DirSnapshot(r)' /\ VolumeCopy(r)'
  BY <1>1, <1>2, <1>6, <1>12
     DEF InItsPlace, RepoSnapshot, ToRepo, DirSnapshot, VolumeCopy, Is, Methods
<1>14. DeletedIsGone(r)'
  <2>1. InRepo(sid[p])' = {}
    BY <1>4, <1>5 DEF InRepo
  <2>2. ~ SnapshotExists(sid[p])'
    BY <1>5, <2>1 DEF SnapshotExists
  <2>3. QED
    BY <1>2, <1>12, <2>2 DEF DeletedIsGone
<1>15. QED
  BY <1>8, <1>9, <1>10, <1>11, <1>13, <1>14

----------------------------------------------------------------------------
(* The theorems.                                                           *)

\* The invariant holds at first.
LEMMA InitIInv == Init => IInv
<1>1. SUFFICES ASSUME Init PROVE IInv
  OBVIOUS
<1>2. Types
  <2>1. NoFiles \in UpTo(0)
    BY NoFilesAreFiles
  <2>3. 0 \in 0..MaxWrites /\ 0 \in 0..MaxFaults /\ writes = 0
    BY <1>1, BoundsAssumption DEF Init
  <2>4. buf \in [Requests -> UpTo(writes)] /\ since \in [Requests -> UpTo(writes)]
    BY <1>1, <2>1, <2>3 DEF Init
  <2>5. sid \in [Requests -> Ids] /\ pc \in [Requests -> Steps]
    BY <1>1 DEF Init, Ids, Steps
  <2>6. dir = [p \in DOMAIN dir |-> dir[p]] /\ DOMAIN dir = {}
    BY <1>1 DEF Init
  <2>7. QED
    BY <1>1, <2>3, <2>4, <2>5, <2>6 DEF Init, Types
<1>3. /\ \A r \in Requests : pc[r] = "idle" /\ since[r] = NoFiles
      /\ repo = {}
  BY <1>1 DEF Init
<1>4. OneAtATime /\ BackupsHaveOwners /\ BackupsAreDistinct /\ TaggedBackupsAreComplete
  BY <1>3 DEF OneAtATime, BackupsHaveOwners, BackupsAreDistinct, TaggedBackupsAreComplete,
     Running
<1>5. ASSUME NEW r \in Requests PROVE Fine(r)
  BY <1>3 DEF Fine, InItsPlace, SourceWasMade, UnwantedIsSettled, RepoSnapshot, DirSnapshot,
     DeletedIsGone, SourceLasts, VolumeCopy, Sent
<1>6. QED
  BY <1>2, <1>4, <1>5 DEF IInv

\* Every step of a handler keeps it.
LEMMA HandleKeeps ==
  ASSUME IInv, NEW r \in Requests, Handle(r)
  PROVE  IInv'
<1>1. CASE MakeDir(r)
  BY <1>1, MakeDirKeeps
<1>2. CASE CopyFile(r)
  BY <1>2, BackupReadsKeeps, CommandCopiesKeeps
<1>3. CASE SourceVanishes(r)
  BY <1>3, SourceVanishesKeeps
<1>4. CASE VolumeCopied(r)
  BY <1>4, VolumeCopiedKeeps
<1>5. CASE SearchDir(r)
  BY <1>5, SearchDirKeeps
<1>6. CASE DirCut(r)
  BY <1>6, DirCutKeeps
<1>7. CASE SearchRepo(r)
  BY <1>7, SearchRepoKeeps
<1>8. CASE BackedUp(r)
  BY <1>8, BackedUpKeeps
<1>9. CASE Tag(r)
  BY <1>9, TagKeeps
<1>10. CASE Lookup(r)
  BY <1>10, LookupKeeps
<1>11. CASE DeleteVolume(r)
  BY <1>11, DeleteVolumeKeeps
<1>12. CASE DeleteSnapshot(r)
  <2>1. pc[r] = "remove" /\ Is(r, "DeleteSnapshot")
    BY <1>12 DEF DeleteSnapshot, On
  <2>2. PICK p \in Requests : call[r].source[2] = p
    BY <2>1, DeletionIs
  <2>3. QED
    BY <1>12, <2>2, DeleteDirSnapshotKeeps, DeleteRepoSnapshotKeeps
<1>13. CASE Reply(r)
  BY <1>13, ReplyKeeps
<1>14. QED
  BY <1>1, <1>2, <1>3, <1>4, <1>5, <1>6, <1>7, <1>8, <1>9, <1>10, <1>11, <1>12, <1>13
     DEF Handle

\* So does every step.
LEMMA NextIInv == IInv /\ [Next]_vars => IInv'
<1>1. SUFFICES ASSUME IInv, [Next]_vars PROVE IInv'
  OBVIOUS
<1>2. Types /\ faults \in Nat /\ MaxFaults \in Nat
  BY <1>1, BoundsAssumption DEF IInv, Types
<1>3. ASSUME NEW r \in Requests, Start(r) PROVE IInv'
  BY <1>1, <1>3, StartKeeps
<1>4. ASSUME NEW r \in Requests, Handle(r) PROVE IInv'
  BY <1>1, <1>4, HandleKeeps
<1>5. ASSUME NEW r \in Requests, Unnoticed(r) PROVE IInv'
  BY <1>1, <1>5, UnnoticedKeeps
<1>6. ASSUME NEW rs \in SUBSET Requests, \A r \in rs : Running(r), Throws(rs),
             faults < MaxFaults, faults' = faults + 1,
             UNCHANGED <<call, storage, since, unnoticed, writes>>
      PROVE  IInv'
  <2>1. faults' \in 0..MaxFaults
    BY <1>2, <1>6
  <2>2. UNCHANGED <<call, since, storage, unnoticed, writes>>
    BY <1>6
  <2>3. QED
    BY <1>1, <1>6, <2>1, <2>2, ThrowsKeeps
<1>7. ASSUME NEW r \in Requests, Fail(r) PROVE IInv'
  <2>1. {r} \in SUBSET Requests /\ \A q \in {r} : Running(q)
    BY <1>7 DEF Fail
  <2>2. QED
    BY <1>6, <1>7, <2>1 DEF Fail
<1>8. CASE Restart
  <2>1. {r \in Requests : Running(r)} \in SUBSET Requests
          /\ \A q \in {r \in Requests : Running(r)} : Running(q)
    OBVIOUS
  <2>2. QED
    BY <1>6, <1>8, <2>1 DEF Restart
<1>9. ASSUME NEW v \in Writable, NEW f \in Files, Write(v, f) PROVE IInv'
  BY <1>1, <1>9, WriteKeeps, WritableAssumption
<1>10. CASE UNCHANGED vars
  <2>1. /\ call' = call /\ pc' = pc /\ todo' = todo /\ buf' = buf /\ sid' = sid /\ dir' = dir
        /\ repo' = repo /\ lastId' = lastId /\ since' = since /\ unnoticed' = unnoticed
        /\ writes' = writes /\ faults' = faults
    BY <1>10 DEF vars, locals, storage, bounds
  <2>2. Types' /\ NothingNew /\ NothingLost /\ \A q \in Requests : Untouched(q)
    BY <1>2, <2>1 DEF Types, Ids, Backups, UpTo, NothingNew, NothingLost, Done, Untouched
  <2>3. \A q \in Requests : UnwantedIsSettled(q)'
    BY <1>1, <2>1, <2>2, PlaceStays
  <2>4. \A q \in Requests : Fine(q)'
    BY <1>1, <2>1, <2>2, <2>3, FineWhereNothingIsStored
  <2>5. OneAtATime' /\ BackupsHaveOwners' /\ BackupsAreDistinct' /\ TaggedBackupsAreComplete'
    BY <1>1, <2>1, OneAtATimeStays, BackupsStay DEF Running, Sent
  <2>6. QED
    BY <2>2, <2>4, <2>5 DEF IInv
<1>11. QED
  BY <1>1, <1>3, <1>4, <1>5, <1>7, <1>8, <1>9, <1>10 DEF Next, Quiet

\* In every behaviour, whatever fails: at a snapshot's name one call is at work, a
\* repository holds at most one complete snapshot for it, and what was asked to be deleted
\* is not made again.
THEOREM Inductive == Spec => []IInv
<1>1. Init => IInv
  BY InitIInv
<1>2. IInv /\ [Next]_vars => IInv'
  BY NextIInv
<1>3. QED
  BY <1>1, <1>2, PTL DEF Spec

\* Every variable has its type.
THEOREM TypeCorrect == Spec => []TypeOK
<1>1. IInv => TypeOK
  <2>1. SUFFICES ASSUME IInv PROVE TypeOK
    OBVIOUS
  <2>2. Types /\ writes \in Nat /\ MaxWrites \in Nat /\ writes <= MaxWrites
    BY <2>1, BoundsAssumption DEF IInv, Types
  <2>3. \A g \in UpTo(writes) : g \in Contents
    <3>1. \A g \in UpTo(writes) : g \in UpTo(MaxWrites)
      BY <2>2, UpToMore
    <3>2. Contents = UpTo(MaxWrites)
      BY DEF Contents, UpTo
    <3>3. QED
      BY <3>1, <3>2
  <2>4. buf \in [Requests -> Contents] /\ since \in [Requests -> Contents]
    BY <2>2, <2>3 DEF Types
  <2>5. ASSUME NEW r \in Requests
        PROVE  \/ sid[r] = NoId
               \/ sid[r][1] = "filecopy" /\ sid[r][2] \in Paths
               \/ sid[r][1] \in {"restic", "kopia"} /\ sid[r][2] \in 1..lastId
    <3>1. sid[r] \in Ids
      BY <2>2 DEF Types
    <3>2. QED
      BY <3>1 DEF Ids
  <2>6. \A p \in DOMAIN dir : dir[p] \in Contents
    BY <2>2, <2>3 DEF Types
  <2>7. repo \subseteq [driver : Drivers, id : 1..lastId, original : 1..lastId,
                        volume : Volumes, name : Names \cup {NoName}, files : Contents]
    BY <2>2, <2>3 DEF Types, Backups, Drivers
  <2>8. QED
    BY <2>2, <2>4, <2>5, <2>6, <2>7 DEF TypeOK, Types, Steps
<1>2. QED
  BY <1>1, Inductive, PTL

\* A volume that was answered OK has every file that its source had when it was asked for,
\* in however many attempts CreateVolume has copied it.
THEOREM VolumesAreComplete == Spec => []AckedVolumesAreComplete
<1>1. IInv => AckedVolumesAreComplete
  <2>1. SUFFICES ASSUME IInv, NEW r \in Requests, Is(r, "CreateVolume"), Done(r),
                        OwnsVolume(call[r].volume)
                 PROVE  /\ Dest(r) \in DOMAIN dir
                        /\ r \in unnoticed \/ Includes(dir[Dest(r)], since[r])
    BY DEF AckedVolumesAreComplete
  <2>2. call[r].volume \in Volumes /\ Fine(r)
    BY <2>1, CallsAre DEF IInv, Types
  <2>3. ~ VolumeUnwanted(call[r].volume)
    BY <2>1, <2>2, OwnedIsThere
  <2>4. QED
    BY <2>1, <2>2, <2>3 DEF Fine, VolumeCopy, Done
<1>2. QED
  BY <1>1, Inductive, PTL

\* The id that CreateSnapshot has answered with names a complete restic or kopia snapshot,
\* until the deletion of a snapshot of that name is asked for.
THEOREM SnapshotsAreKept == Spec => []AckedSnapshotsAreKept
<1>1. IInv => AckedSnapshotsAreKept
  <2>1. SUFFICES ASSUME IInv, NEW q \in Requests, OwnsSnapshot(q), sid[q][1] # "filecopy"
                 PROVE  IsKept(q)
    BY DEF AckedSnapshotsAreKept
  <2>2. Is(q, "CreateSnapshot") /\ Done(q) /\ SnapshotExists(sid[q])
    BY <2>1, OwnedIsThere
  <2>3. ToRepo(q) /\ Matches(q) = InRepo(sid[q])
    BY <2>1, <2>2, IdOfDone
  <2>4. PICK s \in InRepo(sid[q]) : SnapshotFiles(sid[q]) = s.files
    BY <2>1, <2>2 DEF SnapshotExists, SnapshotFiles
  <2>5. /\ s \in repo /\ s.driver = call[q].driver /\ s.volume = call[q].volume
        /\ s.name = call[q].name /\ s.name # NoName
    BY <2>1, <2>3, <2>4, CallsAre DEF Matches, IInv, Types
  <2>6. PICK p \in Requests :
           /\ Is(p, "CreateSnapshot") /\ Sent(p)
           /\ call[p].driver = s.driver /\ call[p].volume = s.volume
           /\ call[p].name = s.name
           /\ Includes(s.files, since[p])
    BY <2>1, <2>5 DEF IInv, TaggedBackupsAreComplete
  <2>7. SameSnapshot(p, q)
    BY <2>1, <2>2, <2>5, <2>6, CallsAreWellFormed DEF IInv, Types
  <2>8. QED
    BY <2>2, <2>4, <2>6, <2>7 DEF IsKept
<1>2. QED
  BY <1>1, Inductive, PTL

\* A snapshot's name has one id while it is kept, and nothing once DeleteSnapshot has
\* answered for it.
THEOREM OnePerName == Spec => []OneSnapshotPerName
<1>1. ASSUME IInv, NEW q \in Requests, NEW r \in Requests, SameSnapshot(q, r), OwnsSnapshot(q),
             OwnsSnapshot(r)
      PROVE  sid[q] = sid[r]
  <2>1. /\ Is(q, "CreateSnapshot") /\ Done(q) /\ SnapshotExists(sid[q])
        /\ Is(r, "CreateSnapshot") /\ Done(r)
    BY <1>1, OwnedIsThere
  <2>2. CASE ToRepo(q)
    <3>1. ToRepo(r) /\ Matches(q) = Matches(r)
      BY <1>1, <2>1, <2>2 DEF SameSnapshot, ToRepo, Matches
    <3>2. InRepo(sid[q]) = InRepo(sid[r]) /\ sid[q][1] # "filecopy"
      BY <1>1, <2>1, <2>2, <3>1, IdOfDone
    <3>3. PICK s \in InRepo(sid[q]) : TRUE
      BY <2>1, <3>2 DEF SnapshotExists
    <3>4. sid[q] = <<s.driver, s.id>> /\ sid[r] = <<s.driver, s.id>>
      BY <3>2, <3>3 DEF InRepo
    <3>5. QED
      BY <3>4
  <2>3. CASE ~ ToRepo(q)
    <3>1. ~ ToRepo(r) /\ Dest(q) = Dest(r)
      BY <1>1, <2>1, <2>3 DEF SameSnapshot, ToRepo, Dest, Is
    <3>2. QED
      BY <1>1, <2>1, <2>3, <3>1, IdOfDone
  <2>4. QED
    BY <2>2, <2>3
<1>2. ASSUME IInv, NEW r \in Requests, Is(r, "DeleteSnapshot"), Done(r),
             NEW q, q = call[r].source[2]
      PROVE  /\ ~ SnapshotExists(sid[q])
             /\ \A s \in repo : s.driver = call[q].driver /\ s.volume = call[q].volume
                                  => s.name # call[q].name
  <2>1. Types /\ call \in Plans /\ Fine(r) /\ Sent(r)
    BY <1>2 DEF IInv, Types, Sent, Done
  <2>2. PICK p \in Requests : Deletes(r, p)
    BY <1>2, <2>1, SourcesAre
  <2>3. p = q
    BY <1>2, <2>2 DEF Deletes
  <2>4. Is(q, "CreateSnapshot") /\ Done(q) /\ ~ SnapshotExists(sid[q])
    BY <1>2, <2>1, <2>2, <2>3 DEF Fine, SourceWasMade, DeletedIsGone, Done
  <2>5. CASE ToRepo(q)
    <3>1. Matches(q) = InRepo(sid[q]) /\ sid[q][1] # "filecopy"
      BY <1>2, <2>2, <2>3, <2>4, <2>5, IdOfDone
    <3>2. Matches(q) = {}
      BY <2>4, <3>1 DEF SnapshotExists
    <3>3. QED
      BY <2>4, <3>2 DEF Matches
  <2>6. CASE ~ ToRepo(q)
    <3>1. call[q].driver = "filecopy"
      BY <2>4, <2>6 DEF ToRepo
    <3>2. \A s \in repo : s.driver \in {"restic", "kopia"}
      BY <2>1 DEF Types, Backups
    <3>3. QED
      BY <2>4, <3>1, <3>2
  <2>7. QED
    BY <2>5, <2>6
<1>3. IInv => OneSnapshotPerName
  BY <1>1, <1>2 DEF OneSnapshotPerName
<1>4. QED
  BY <1>3, Inductive, PTL
=============================================================================
