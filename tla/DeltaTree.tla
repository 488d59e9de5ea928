----------------------------- MODULE DeltaTree ------------------------------
(***************************************************************************)
(* The package action and the tree part of the rootfs action               *)
(* (br2/pkg_action.py): how per-package trees travel between actions.      *)
(*                                                                         *)
(* make leaves a complete tree per package, and an action ships only its   *)
(* delta: what is not inherited from a direct dependency.  The next action *)
(* unpacks the deltas of its closure, overlays them in topological order   *)
(* to have the complete tree of each direct dependency again, indexes      *)
(* these, lets make merge them into the package's own tree and change it,  *)
(* and packs the new delta by comparing inodes and symlink targets with    *)
(* the index.                                                              *)
(*                                                                         *)
(* A tree maps paths to entries.  The files of one work directory are      *)
(* inodes: <<q, f>> is the file that q's delta brought for path f, or that *)
(* the running package q has created there.  Left out: directories (always *)
(* in the delta), stamps, hard links between paths, sources and views,     *)
(* and files that differ with the same size and mtime.                     *)
(***************************************************************************)
EXTENDS Naturals, Sequences, SequencesExt

CONSTANTS
  Pkg,         \* packages
  Path,
  Data,        \* what files hold, with their size and mtime; targets of symlinks
  Deps,        \* package -> its direct dependencies (spec["direct"]), by name: that is the
               \* order of its rule, and of make's merge
  Below,       \* package -> its closure without itself, dependencies first (the provider's topo)
  ByName,      \* all packages, by name: per-package/*/host in the rootfs action
  Ops,         \* what install commands do to a tree: "write", "inplace", "remove"
  MaxOps,      \* bound: install commands per package
  Absent,      \* no entry
  Rootfs,      \* the rootfs action, as the owner of a work directory
  Nothing      \* no output; no running action

\* A closure holds the dependencies and their closures and nothing else, each package
\* once and after its own closure.
Closures(packages, direct, below) ==
  /\ direct \in [packages -> Seq(packages)]
  /\ below \in [packages -> Seq(packages)]
  /\ \A p \in packages :
       /\ ToSet(below[p]) = UNION {ToSet(below[d]) \cup {d} : d \in ToSet(direct[p])}
       /\ \A i, j \in DOMAIN below[p] : below[p][i] = below[p][j] => i = j
       /\ \A i \in DOMAIN below[p] :
            \A q \in ToSet(below[below[p][i]]) : \E j \in 1..i-1 : below[p][j] = q

\* What the analysis provides.
ASSUME ClosuresAssumption ==
  /\ Closures(Pkg, Deps, Below)
  /\ ByName \in Seq(Pkg) /\ ToSet(ByName) = Pkg

Inode == Pkg \X Path

\* An entry as a tar holds it, and as a work directory does.
Content == [kind : {"file", "link"}, data : Data]
Entry   == [kind : {"file"}, ino : Inode] \cup [kind : {"link"}, data : Data]

ASSUME ValuesAssumption ==
  /\ Ops \subseteq {"write", "inplace", "remove"}
  /\ MaxOps \in Nat
  /\ Rootfs \notin Pkg
  /\ Nothing \notin Pkg \cup {Rootfs}
  /\ Absent \notin Data \cup Content \cup Entry

Phases == {"idle", "unpacked", "overlaid", "indexed", "making", "made", "hosted"}

VARIABLES
  built,   \* package -> [delta, tree, given, did], or Nothing: its artifact, with as
           \* history the complete tree make left, what its merge had given and what
           \* the package's commands did
  actor,   \* the package whose action runs, Rootfs, or Nothing
  phase,
  per,     \* package -> its tree in the work directory (per-package/<p>)
  disk,    \* inode -> data of the file
  stage,   \* package -> its complete tree under construction (.complete/<p>)
  index,   \* path -> [files: inodes, links: targets] that the direct dependencies provide
  host,    \* out/host of the rootfs action
  given,   \* history: what make's merge gave the running package
  did      \* history: what its install commands did, a sequence of [op, path]

treesVars == <<built, actor, phase, per, disk, stage, index, host, given, did>>

Bare == [f \in Path |-> Absent]

DirectOf(a) == IF a = Rootfs THEN Pkg ELSE ToSet(Deps[a])

ClosureOf(a) == IF a = Rootfs THEN Pkg ELSE ToSet(Below[a])

\* What a work directory's tree holds, inodes looked through.
Holds(tree) ==
  [f \in Path |-> IF tree[f] = Absent THEN Absent
                  ELSE IF tree[f].kind = "file" THEN [kind |-> "file", data |-> disk[tree[f].ino]]
                  ELSE tree[f]]

\* rsync -a --link-dest=src src/ dst/ : hard links, nothing deleted, what is
\* already the same stays.
Rsync(src, dst) ==
  LET same == {f \in Path : Holds(src)[f] = Holds(dst)[f]}
  IN  [f \in Path |-> IF src[f] = Absent \/ f \in same THEN dst[f] ELSE src[f]]

\* The trees t[order[1]], t[order[2]], ... one over the other.
OverlayOf(t, order) ==
  LET upTo[n \in 0..Len(order)] == IF n = 0 THEN Bare ELSE Rsync(t[order[n]], upTo[n - 1])
  IN  upTo[Len(order)]

Overlay(order) == OverlayOf(per, order)

------------------------------------------------------------------------------
TreesInit ==
  /\ built = [p \in Pkg |-> Nothing]
  /\ actor = Nothing
  /\ phase = "idle"
  /\ per = [p \in Pkg |-> Bare]
  /\ disk = [i \in Inode |-> Absent]
  /\ stage = [p \in Pkg |-> Absent]
  /\ index = [f \in Path |-> [files |-> {}, links |-> {}]]
  /\ host = Bare
  /\ given = Bare
  /\ did = <<>>

Unpacked(q) ==
  [f \in Path |-> LET d == built[q].delta[f] IN
     IF d = Absent THEN Absent ELSE IF d.kind = "file" THEN [kind |-> "file", ino |-> <<q, f>>] ELSE d]

\* seed_config_and_stamps: a fresh work directory with the deltas of the closure.
Seed(a) ==
  /\ actor = Nothing
  /\ a \in Pkg => built[a] = Nothing
  /\ \A q \in ClosureOf(a) : built[q] # Nothing
  /\ actor' = a
  /\ phase' = "unpacked"
  /\ per' = [q \in Pkg |-> IF q \in ClosureOf(a) THEN Unpacked(q) ELSE Bare]
  /\ disk' = [i \in Inode |->
                IF i[1] \in ClosureOf(a) /\ built[i[1]].delta[i[2]] # Absent
                  THEN built[i[1]].delta[i[2]].data ELSE Absent]
  /\ stage' = [p \in Pkg |-> Absent]
  /\ did' = <<>>
  /\ UNCHANGED <<built, index, given, host>>

\* Mutant: the package's own delta first.
StageOwnFirst(x) ==
  /\ phase = "unpacked"
  /\ x \in DirectOf(actor)
  /\ stage[x] = Absent
  /\ stage' = [stage EXCEPT ![x] = Overlay(<<x>> \o Below[x])]
  /\ UNCHANGED <<built, actor, phase, per, disk, index, given, did, host>>

\* overlay_complete, first loop: one complete tree.
StageTree(x) ==
  /\ phase = "unpacked"
  /\ x \in DirectOf(actor)
  /\ stage[x] = Absent
  /\ stage' = [stage EXCEPT ![x] = Overlay(Append(Below[x], x))]
  /\ UNCHANGED <<built, actor, phase, per, disk, index, given, did, host>>

\* overlay_complete, second loop, "only after every complete tree has been
\* computed".
SwapTrees ==
  /\ phase = "unpacked"
  /\ \A x \in DirectOf(actor) : stage[x] # Absent
  /\ per' = [x \in Pkg |-> IF x \in DirectOf(actor) THEN stage[x] ELSE per[x]]
  /\ phase' = "overlaid"
  /\ UNCHANGED <<built, actor, disk, stage, index, given, did, host>>

\* Mutant: stat for lstat: a link, here dangling, counts as a file.
IndexStat ==
  /\ phase = "overlaid"
  /\ actor \in Pkg
  /\ index' = [f \in Path |->
       LET found == {per[d][f] : d \in DirectOf(actor)} \ {Absent}
       IN  [files |-> {IF e.kind = "file" THEN e.ino ELSE Absent : e \in found}, links |-> {}]]
  /\ phase' = "indexed"
  /\ UNCHANGED <<built, actor, per, disk, stage, given, did, host>>

\* Mutant: the index knows what the dependencies' deltas brought only.
IndexDeltas ==
  /\ phase = "overlaid"
  /\ actor \in Pkg
  /\ index' = [f \in Path |->
       [files |-> {<<d, f>> : d \in {q \in DirectOf(actor) : built[q].delta[f] # Absent}},
        links |-> {}]]
  /\ phase' = "indexed"
  /\ UNCHANGED <<built, actor, per, disk, stage, given, did, host>>

\* index_seeded.
Index ==
  /\ phase = "overlaid"
  /\ actor \in Pkg
  /\ index' = [f \in Path |->
       LET found == {per[d][f] : d \in DirectOf(actor)} \ {Absent}
       IN  [files |-> {e.ino : e \in {g \in found : g.kind = "file"}},
            links |-> {e.data : e \in {g \in found : g.kind = "link"}}]]
  /\ phase' = "indexed"
  /\ UNCHANGED <<built, actor, per, disk, stage, given, did, host>>

\* make's configure step merges the direct dependencies' trees.
Merge ==
  /\ phase = "indexed"
  /\ LET tree == Overlay(Deps[actor])
     IN  /\ per' = [per EXCEPT ![actor] = tree]
         /\ given' = Holds(tree)
  /\ phase' = "making"
  /\ UNCHANGED <<built, actor, disk, stage, index, did, host>>

Installs(op, f) ==
  /\ phase = "making"
  /\ op \in Ops
  /\ Len(did) < MaxOps
  /\ did' = Append(did, [op |-> op, path |-> f])

\* An install command creates the path anew (install, sed -i, ln -sf).
Write(f, c) ==
  /\ Installs("write", f)
  /\ per' = [per EXCEPT ![actor][f] =
               IF c.kind = "file" THEN [kind |-> "file", ino |-> <<actor, f>>] ELSE c]
  /\ disk' = IF c.kind = "file" THEN [disk EXCEPT ![<<actor, f>>] = c.data] ELSE disk
  /\ UNCHANGED <<built, actor, phase, stage, index, given, host>>

\* It writes into the file that is there (cp over it, >>, patchelf).
WriteInPlace(f, d) ==
  /\ Installs("inplace", f)
  /\ per[actor][f] # Absent
  /\ per[actor][f].kind = "file"
  /\ disk' = [disk EXCEPT ![per[actor][f].ino] = d]
  /\ UNCHANGED <<built, actor, phase, per, stage, index, given, host>>

Delete(f) ==
  /\ Installs("remove", f)
  /\ per[actor][f] # Absent
  /\ per' = [per EXCEPT ![actor][f] = Absent]
  /\ UNCHANGED <<built, actor, phase, disk, stage, index, given, host>>

\* Mutant: any link where a dependency has a link.
InheritedAnyLink(f, e) ==
  IF e.kind = "file" THEN e.ino \in index[f].files ELSE index[f].links # {}

\* own_entries, for one path.
Inherited(f, e) ==
  IF e.kind = "file" THEN e.ino \in index[f].files ELSE e.data \in index[f].links

\* pack_delta: the artifact is the delta; the complete tree is history.
Pack ==
  /\ phase = "making"
  /\ LET tree == per[actor]
         own  == {f \in Path : tree[f] # Absent /\ ~Inherited(f, tree[f])}
     IN  built' = [built EXCEPT ![actor] =
           [tree  |-> Holds(tree),
            given |-> given,
            did   |-> did,
            delta |-> [f \in Path |-> IF f \in own THEN Holds(tree)[f] ELSE Absent]]]
  /\ phase' = "made"
  /\ UNCHANGED <<actor, per, disk, stage, index, given, did, host>>

\* Mutant: as host-finalize does, only the packages no other depends on.
MergeHostListed ==
  /\ phase = "overlaid"
  /\ actor = Rootfs
  /\ host' = OverlayOf([y \in Pkg |-> Unpacked(y)],
                       SelectSeq(ByName, LAMBDA y : \A x \in Pkg : y \notin ToSet(Deps[x])))
  /\ phase' = "hosted"
  /\ UNCHANGED <<built, actor, per, disk, stage, index, given, did>>

\* cmd_rootfs: complete trees for target/ only; the host trees stay the deltas
\* they were unpacked as, and all go into out/host.
MergeHost ==
  /\ phase = "overlaid"
  /\ actor = Rootfs
  /\ host' = OverlayOf([y \in Pkg |-> Unpacked(y)], ByName)
  /\ phase' = "hosted"
  /\ UNCHANGED <<built, actor, per, disk, stage, index, given, did>>

\* The work directory is removed: after the artifact, after a failure, or on
\* SIGTERM (work_dir).
Leave ==
  /\ actor # Nothing
  /\ actor' = Nothing
  /\ phase' = "idle"
  /\ per' = [p \in Pkg |-> Bare]
  /\ disk' = [i \in Inode |-> Absent]
  /\ stage' = [p \in Pkg |-> Absent]
  /\ index' = [f \in Path |-> [files |-> {}, links |-> {}]]
  /\ host' = Bare
  /\ given' = Bare
  /\ did' = <<>>
  /\ UNCHANGED built

TreesNext ==
  \/ \E a \in Pkg \cup {Rootfs} : Seed(a)
  \/ \E x \in Pkg : StageTree(x)
  \/ SwapTrees
  \/ Index
  \/ Merge
  \/ \E f \in Path, c \in Content : Write(f, c)
  \/ \E f \in Path, d \in Data : WriteInPlace(f, d)
  \/ \E f \in Path : Delete(f)
  \/ Pack
  \/ MergeHost
  \/ Leave

TreesSpec == TreesInit /\ [][TreesNext]_treesVars

------------------------------------------------------------------------------
Tree == [Path -> Content \cup {Absent}]
Command == [op : Ops, path : Path]
WorkTree == [Path -> Entry \cup {Absent}]

TreesTypeOK ==
  /\ built \in [Pkg -> [tree : Tree, given : Tree, delta : Tree, did : Seq(Command)] \cup {Nothing}]
  /\ actor \in Pkg \cup {Rootfs, Nothing}
  /\ phase \in Phases
  /\ per \in [Pkg -> WorkTree]
  /\ disk \in [Inode -> Data \cup {Absent}]
  /\ stage \in [Pkg -> WorkTree \cup {Absent}]
  /\ index \in [Path -> [files : SUBSET Inode, links : SUBSET Data]]
  /\ host \in WorkTree
  /\ given \in Tree
  /\ did \in Seq(Command) /\ Len(did) <= MaxOps

\* x inherits different entries for f and keeps one of them.
Disputed(x, f) ==
  /\ built[x].delta[f] = Absent
  /\ \E d, e \in ToSet(Deps[x]) :
       /\ Absent \notin {built[d].tree[f], built[e].tree[f]}
       /\ built[d].tree[f] # built[e].tree[f]

\* x changed f, and its delta does not say so.
Lost(x, f) == built[x].delta[f] = Absent /\ built[x].tree[f] # built[x].given[f]

Closed(x) == ToSet(Below[x]) \cup {x}

\* "Replace each per-package/X/<sub> by the COMPLETE tree" (overlay_complete):
\* what an action rebuilds for a dependency is what make had left when that
\* dependency was built, at every path that no package of its closure has lost
\* or has had to choose.
RebuiltWherePossible ==
  phase = "overlaid" =>
    \A x \in DirectOf(actor), f \in Path :
      \/ Holds(per[x])[f] = built[x].tree[f]
      \/ \E y \in Closed(x) : Disputed(y, f) \/ Lost(y, f)

\* Two packages bring different entries for f.
Contested(f) ==
  \E x, y \in Pkg :
    /\ Absent \notin {built[x].delta[f], built[y].delta[f]}
    /\ built[x].delta[f] # built[y].delta[f]

\* "Their union is the same host tools" (cmd_rootfs): the host tree of the
\* rootfs action has what each package's own complete tree had, at every path
\* that is no package's but one's; name order decides the others.
HostToolsKept ==
  phase = "hosted" =>
    \A x \in Pkg, f \in Path :
      \/ built[x].tree[f] = Absent
      \/ Holds(host)[f] = built[x].tree[f]
      \/ Contested(f)
      \/ \E y \in Closed(x) : Lost(y, f)

\* "Complete TARGET trees are needed exactly" (cmd_rootfs), by every action that
\* overlays: where no change is lost, the tree is the one make had put together
\* in its own order, also where it had to choose.
RebuiltComplete ==
  phase = "overlaid" =>
    \A x \in DirectOf(actor), f \in Path :
      Holds(per[x])[f] = built[x].tree[f] \/ \E y \in Closed(x) : Lost(y, f)

\* "Host trees stay as deltas (their union is the same host tools)"
\* (cmd_rootfs): where no change is lost, what a package has that no package
\* above it changes is in the host tree, whichever order they are merged in.
HostToolsSame ==
  phase = "hosted" =>
    \A x \in Pkg, f \in Path :
      \/ Holds(host)[f] = built[x].tree[f]
      \/ built[x].tree[f] = Absent
      \/ \E y \in Pkg : Lost(y, f) \/ (x \in ToSet(Below[y]) /\ built[y].tree[f] # built[x].tree[f])

\* Both kinds of trees that an action starts from.
Rebuilt == RebuiltWherePossible /\ HostToolsKept

\* Where all commands of a closure create what they install and no package of
\* it had to choose, no change is lost: own_entries can do without dates and
\* contents.
LostOnlyIfDisputed ==
  \A p \in Pkg, f \in Path :
    built[p] # Nothing /\ Lost(p, f) =>
      \E y \in Closed(p) :
        Disputed(y, f) \/ \E c \in ToSet(built[y].did) : c.path = f /\ c.op # "write"

\* A package's tar holds what the package has made and nothing it inherits
\* (own_entries, "not inherited from a seeded dependency").
OnlyOwnWork ==
  phase = "made" =>
    \A f \in Path : built[actor].delta[f] # Absent =>
      IF per[actor][f].kind = "file" THEN per[actor][f].ino = <<actor, f>>
                                     ELSE built[actor].delta[f] # given[f]
=============================================================================
