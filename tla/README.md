# A verification model of buckroot

buckroot builds a Buildroot image with Buck2: every Buildroot package becomes one Buck2
action, cached and run remotely through Buildbarn, and the image must stay the one plain
`make` builds. Most of what can go wrong here goes wrong silently: an image that is not the
one a clean build makes, a package rebuilt for nothing, a delta that loses a file, a worker
that stops under a running action. This directory holds TLA+ modules of those parts, the TLC
runs that check them, and machine-checked proofs.

Paths below are relative to `src/toolkit/` unless they start with `charts/`, `docs/` or
`terraform/`.

## 1. Inventory

| Part | Source | State it keeps | Operations | What makes it correct |
|---|---|---|---|---|
| Target graph analysis | `br2/rules.bzl`, labels of `scripts/br2buck.py` | one `Br2Pkg` provider per target | run a rule: merge the dependencies' closures, directories, links | ordered, minimal closures; one target per package; views match closures |
| Action keys and cache | `br2/rules.bzl`, `br2/platform.bzl`, `br2/slicing.py`, `scripts/br2` | last output per action, shared action cache | build (four modes, dev or strict), edit, clean, abort, evict | a strict image is one a clean build could make; narrow rebuilds |
| Package and rootfs actions | `br2/pkg_action.py` | work directory: per-package trees; deltas | unpack, overlay, index, make, pack | what the deltas rebuild is what `make` had |
| Config slicing | `br2/slicing.py` | none (pure) | owners, slice | a package sees every symbol it reads, and few others |
| Views and namespace | `br2/pkg_action.py`, `scripts/br2-ns.sh` | mounts | build the view, enter it | what is visible is what is declared |
| Native recipes | `br2/native_pkg.py`, `br2/native_config.py`, `br2/native/` | none | lay out a package without make | the same tar as the wrapped package |
| Extraction and rendering | `scripts/br2buck.py`, `bin/br2-new` | `golden/model.json`, BUCK files in the trees | extract, render, check | one render is enough, leftovers go, a variant has its own graph |
| Source vendoring | `scripts/br2buck.py` (`fetch`) | `dl/`, `sources/`, lock file | download, verify, link, pin | what is pinned is what was verified, and stays |
| Setup | `scripts/fetch-buildroot.sh` | fetched trees, pins, patch marks | clone, check out, pin, patch | success means complete and patched |
| Fetching Buck2 | `scripts/fetch-buck2.sh` | a shared binary, a copy | download, unpack, copy | present means complete |
| Build matrix | `scripts/br2` (`build_once`, `cmd_matrix`) | results file, cache generations (salts) | cold and warm cells, in threads | cold is cold, verdicts and results are the cell's own |
| Golden Job | `scripts/br2` (`golden_job`) | a Kubernetes Job, results in its log | apply, poll, collect, delete | a result belongs to what was asked for; retries succeed |
| Local golden | `scripts/br2`, `scripts/build-rootfs-golden.sh` | a kept output directory | plain `make`, scan | the manifest is of the present tree |
| Worker pods | `charts/buckroot-buildbarn` | pods, drains, running actions | preStop hook, SIGTERM, SIGKILL | a pod that goes away loses no action |
| Autoscaling | `charts/buckroot-buildbarn` (KEDA) | replica count | scale on queued work | queued work gets a worker |
| Buildbarn configuration | `charts/.../files/config` | storage, schedulers | serve | completeness, bounded storage |
| Cluster | `terraform/` | cloud resources | apply | declarative |
| Tools | `scripts/fs-manifest.py`, `check-narrow.py`, `preflight.py`, ... | none | compare, print | read-only |

### How the parts interact

`br2 setup` makes the trees; `br2 extract` reads them through `make show-info` and writes
the model, from which BUCK files are rendered **into** the same trees; `br2 fetch` downloads
into these trees, fills `sources/` with links to the files and pins their digests.
`br2 check-narrow` compares what a package sees of the trees and of the configuration with
the whole, and writes to `project.json`, which the next render reads. A build reads BUCK
files, runs the analysis (rules call each other's providers), and executes actions:
`config` and `owners` feed the slices, slices and the deltas of the closure feed each
package action, all of them feed the rootfs action. Actions run on the user's machine or
on worker pods, and share results through a cache keyed by declared inputs. `br2 matrix`
runs such builds in threads and compares the image with the golden manifest, which `br2
golden` has made with plain `make`, on the machine or as a Job.

### The hard behaviours

- *Staleness*: keys leave things out on purpose (dev mode: the scripts; always: the host
  tools), slices cut rebuilds off, renderers read the trees they write to.
- *Sharing*: several checkouts and CI use one cache and one cluster; results of builds that
  are not reproducible differ, and are replaced or evicted at any time.
- *Order*: closures are merged from lists in any order; deltas are overlaid in an order that
  is not `make`'s.
- *Two readings of one list*: what an action is shown (mounts) and what its key is made of
  (sources) are written by one renderer at one time, and read later, apart from each other.
- *Partial failure*: `--keep-going`, interrupted commands, scripts under `set -e` whose
  commands leave something behind, in-place writes.
- *Races with a scheduler*: three hooks of a pod, several clients of one Job, threads.

## 2. Modules

| Module | Models | Extends or instantiates |
|---|---|---|
| `Analysis` | closures, directories, links, labels | |
| `CleanBuild` | the promise to a user of the toolkit (abstract) | |
| `ActionCache` | keys, daemons, shared cache | instantiates `CleanBuild` (refinement) |
| `DeltaTree` | per-package trees as inodes, deltas, the rootfs action's host tree | |
| `Views` | what an action is shown and sent of a tree | |
| `Slicing` | what an action knows of the configuration; `check-narrow.py` | |
| `SetupTree` | `fetch-buildroot.sh` command by command | |
| `Vendoring` | `br2 fetch`, the lock, `sources/`, composed with setup | extends `SetupTree` |
| `Generate` | extract, render, check, variants | |
| `WorkerDrain` | preStop hooks, scheduler, kubelet | |
| `GoldenJob` | clients of a Kubernetes Job | |
| `Matrix` | cells, threads, results file | |
| `ActionCacheProofs`, `SlicingProofs`, `VendoringProofs`, `GenerateProofs`, `MatrixProofs`, `ViewsProofs` | theorems about the module they are named for | that module, TLAPS |
| `ClosureProofs` | theorems about the closures that the analysis makes and the trees that are rebuilt of them | `Analysis`, `DeltaTree`, TLAPS |
| `ClusterProofs` | theorems about what runs in the cluster | `WorkerDrain`, `GoldenJob`, TLAPS |

`MC*` modules give the constants their values. Every definition that models code is in
`PROJECT.json` under "map" with its lines (identifiers of `DeltaTree` and `GoldenJob` that
another module has too begin with `Trees` and `Job`, so that one module can extend both); definitions whose comment starts with "Mutant:"
are plausible bugs, each of which a run's property catches, and play no other part.

### Analysis (`br2/rules.bzl`)

A step is one entry of `_merge_topo` or one dependency's `dirs` and `links`; `Begin`, the
`MergeEntry`/`MergeDep` loop and `Finish` are one run of `_br2_package_impl` or
`_br2_native_package_impl`. `Label`, `Br2Dep` and `DepLabel` are the three places that
choose between a wrapped and a native target, and they look at different moments: a rendered
label asks which native BUCK files were there at the last render (`rendered`), a target exists
if its BUCK file is there now (`written`), and `Br2Dep` asks neither. `Reconfigure` is another
command with another `br2.native`, `Sync` brings and takes native rules, `Render` is what a
render makes of them. `inputs` and `symlinks` are merged by the same code as `dirs` and left out, and
so are the specs the rules write.

### ActionCache and CleanBuild (`br2/rules.bzl`, `br2/platform.bzl`, `scripts/br2`)

An output is the set of facts that went into it (file versions, slice contents, the marks of
runs that are not reproducible); equal outputs have equal digests. `Key` is the declared
inputs of each of the four kinds of action, with what dev mode leaves out. `Start`, `Reuse`,
`Hit`, `Miss`, `Execute` and `Abort` are a build of one daemon; running actions of several
clients overlap. `CleanBuild` says what a user may rely on; `RefinesCleanBuild` is
`Promise!Spec` under the mapping that shows a client's rootfs while its strict build is
finished.

### DeltaTree (`br2/pkg_action.py`)

Trees map a path to an inode or a symlink, because `own_entries` compares inodes. `Seed`,
`StageTree`, `SwapTrees` are `untar` and `overlay_complete` (all trees staged, then put in
place), `Index` is `index_seeded`, `Merge` the merge `make` does with rsync, `Write`,
`WriteInPlace` and `Delete` what a package's makefile may do, `Pack` is `pack_delta`, `Leave`
the end of `work_dir`. `MergeHost` is what the rootfs action does with the host parts of all
deltas, which are merged in the order they are listed. What the module assumes of closures,
`Closures`, is what `ActionsGetClosures` proves of those that `Analysis` makes.

### Views (`scripts/br2buck.py`, `br2/pkg_action.py`, `scripts/br2-ns.sh`)

A tree maps paths, which are sequences of names, to what is there. `Rendered` is what a
render writes into the BUCK files of a package and of the infrastructure (`InputEntries`,
`OutwardLinks`, `DanglingLinks`); from then on the tree, the model and `extra_view` change,
and the BUCK files do not. `Sources` is what the rule passes to Buck2, `ViewEntries` what
`br2-ns.sh` mounts; `LocalView` and `RemoteView` are what an action then finds on the user's
machine, which has the whole tree to mount from, and on a worker, which has the sources.
`Accepted` says which packages Buck2 takes at all: it follows no source that is gone. Assumed
are paths that form trees, links that lead to no other link, and `MakeFilesStay`: every
package directory has a make file, which no edit removes, because without it Buildroot has
no such package.

### Slicing (`br2/slicing.py`, `scripts/check-narrow.py`)

A make file is the variables it defines; what a variable's value is made of replaces the
text. `Kept` is `make_keep` with `scope_dirs`, `own_refs` and `infra_refs`, `SliceOf` is
`slice_config`. `Value` is what make would make of a variable in a given view and slice:
that of the action, that of the check (which are not the same: section 5), or the whole.
`Problems`, `Suggested` and `CheckNarrow` are one run of the check, with and without
`--apply`.

### SetupTree (`scripts/fetch-buildroot.sh`)

One action per command, with bash's own rules: `set -e` ends the script at a failing command
except inside `apply_patches && touch`. A run starts whenever the last one ended; what a
failure or an interruption leaves on disk is what the next run finds. The module is checked as
part of `Vendoring`.

### Vendoring (`scripts/br2buck.py`)

Extends `SetupTree`: `br2 setup`, then `br2 fetch`, which runs `make source` (`Download`,
`MakeEnds`), reads the lock, and for each source verifies (`Refuse`), unlinks, links, and at
the end writes the lock. Each of these may be the last before an interruption (`StopFetch`).
In between the user extracts another model, upstream publishes another content under the same
name, files are supplied by hand, the lock is committed or restored, and a golden Job's
results replace it (`TakeResults`).

### WorkerDrain (`charts/.../files/drain.sh`, `templates/workers.yaml`)

Each container's hook asks for a drain, polls the scheduler's page, and falls back to a
sleep. `faults` of the scenario says whether requests may fail. Ticks order the hook's
deadline, the grace period and SIGKILL.

### Generate (`scripts/br2buck.py`, `bin/br2-new`)

`Extract` writes the model, `Load`, `Unlink`, `List`, `Write` are `render`: read the model,
remove stale files, list the trees, write the texts one by one. A text depends on the model,
the rest of the project, and, for a directory with a dangling link, on the BUCK files listed
below it. `shared` says which BUCK files are still one inode with the original's.

### GoldenJob (`scripts/br2`)

`Apply`, `Get`, `Logs`, `DeleteJob` are the four kubectl calls of `golden_job`; between them
other clients make theirs. `Clone`, `Build` and `Expire` are the Job, `Stop` an interrupted
or impatient client. What holds them together is a name, and `Name` is what the code computes:
"golden-", the project's letters with what Kubernetes does not allow replaced, and eight
digits of the commit, cut to 60 characters. A client wants a project's commit in a variety
(`Template`); several such wishes may have one name. Names that end in "-" are left out: the
API server refuses them.

### Matrix (`scripts/br2`)

`Start` to `DiffWarm` are `build_once` for a cell, `Record` and `Write` the locked section of
`run`, `Cancel` what `list(pool.map(...))` does when a cell raises. A cell is `busy` in a
thread; an isolation directory holds one image and one scan file.

## 3. Runs

`tlc -workers 2 -config X.cfg M` for each pair, where M is the `MC*` module whose name the
config's begins with; all of them end in minutes. The properties are stated, with the behaviour
they are about, above their definitions.

| Run | Config | Distinct states | Properties |
|---|---|---|---|
| `analysis` | `MCAnalysis.cfg` | 186,704 | `TypeOK`, `TopoOrdered`, `NoDoublePackage`, `ClosureMinimal`, `ViewMatchesClosure`, `WrappedLinksShown` |
| `cache` | `MCActionCache.cfg` | 1,150,225 | `TypeOK`, `RefinesCleanBuild`, `NarrowRebuild` |
| `delta` | `MCDeltaTree.cfg` | 453,854 | `TreesTypeOK`, `Rebuilt`, `LostOnlyIfDisputed`, `OnlyOwnWork` |
| `views` | `MCViews.cfg` | 19,680 | `TypeOK`, `UndeclaredIsHidden`, `EntriesAreDeclared`, `LinksLeadSomewhere` |
| `slicing` | `MCSlicing.cfg` | 19,296 | `TypeOK`, `PassedMeansSame`, `OnlyItsConcerns`, `HiddenReferencesFound` |
| `vendoring` | `MCVendoring.cfg` | 430,584 | `VendoringTypeOK`, `SuccessMeansComplete`, `FetchedMeansPinned`, `PinsHold`, `CheckedOut` |
| `generate` | `MCGenerate.cfg` | 159,672 | `TypeOK`, `Settles`, `Mended` |
| `drain` | `MCWorkerDrain.cfg` | 58,272 | `TypeOK`, `NoneStopsIfAnswered`, `HookEndsBeforeKill` |
| `golden_job` | `MCGoldenJob.cfg` | 218,454 | `JobTypeOK`, `OwnResults`, `ResultsOfTheName`, `Collected` |
| `matrix` | `MCMatrix.cfg` | 258,423 | `TypeOK`, `ColdIsCold`, `OwnVerdict`, `ResultsKept` |

The next table is of configurations that each check one property, which states what a comment
or a document says of the code; TLC finds it violated. The first two are runs of
`PROJECT.json` with findings of their own. The others are kept because the properties of the
passing runs except just these cases: each shows that an exception is needed, and how the code
gets there. Section 5 has the lines and the traces.

| Config | Violated | What it has that the passing run has not |
|---|---|---|
| `MCVendoringPatched.cfg` (run `setup_patched`) | `SuccessMeansPatched` | a patch that does not apply |
| `MCGenerateVariant.cfg` (run `generate_variant`) | `OwnGraph` | a variant of hard links |
| `MCAnalysisStale.cfg` | `ClosureNeverMixed` | renders that are not current |
| `MCAnalysisLinks.cfg` | `OthersUnchanged` | native packages below |
| `MCDeltaTreeOrder.cfg` | `RebuiltComplete` | paths where a package had to choose |
| `MCDeltaTreeHost.cfg` | `HostToolsSame` | host files that two packages bring |
| `MCViewsUndeclared.cfg` | `UndeclaredIsEnoent` | the gaps that `UndeclaredIsHidden` names |
| `MCSlicingTree.cfg` | `WrittenEntriesExist` | definitions in the other tree |
| `MCVendoringFetch.cfg` | `SuccessMeansPinned` | a fetch that fails after `git init` |
| `MCWorkerDrainLost.cfg` | `NoneStopsBeforeTheAction` | a request that times out |
| `MCGoldenJobVariety.cfg` | `WrittenIsWanted` | two varieties of one commit |
| `MCGoldenJobCut.cfg` | `WrittenIsWanted` | a project with a name of 53 letters |
| `MCMatrixWrap.cfg` | `ColdIsCold` | a clock that has come round |

Where a property is a conjunction of named parts (`Rebuilt`, `CheckedOut`,
`SuccessMeansComplete`), the parts are stated one by one and checked together.

### Bounds, and why they are enough

- `analysis`: four packages. Merging by first occurrence can go wrong with a diamond and two
  orders of a list; a double package takes two packages that reach a third by different
  labels; a shared directory takes a host- twin; a stale label takes one native package that
  comes or goes between two renders. The instance has all of these, each list in every order,
  native lists that equal, drop or reverse the wrapped one, and native lists that close a
  cycle (Buck2 reports it, and the targets on it are never analysed).
- `cache`: two packages, the second a dependent; a foreign symbol one version of a makefile
  names; two versions of every file. Staleness needs one edit and one dependent; taking an
  edit back, where an earlier output is current again, needs two edits. Sharing needs two
  clients, an eviction and a run that is not reproducible. The two settings divide these
  (`Sharing`, `Editing`), because their product is too large; each keeps all actions.
- `delta`: a diamond and one package above it, one path. Every property is about one path at
  a time, except for hard links between paths, which are left out; a disputed path takes two
  branches and a join, and what a join leaves behind is read by the package above it. The
  rootfs action comes after every package has been built.
- `views`: thirty-two trees: each of five links there or not, among them an absolute one, one
  to a directory, one into another package, one below a group directory. Three models in
  which that group is no package, one with a package in it, or one without; two edits of the
  tree, the model or `extra_view`, before and after any render. A stale list takes one edit
  after a render; the second edit makes the list of a third state out of date.
- `slicing`: four packages (one in a group directory, one in the other tree), six symbols in
  every configuration, four sets of make files: names mentioned, named by a prefix, computed,
  and defined below another package, with a directory of the same name in the other tree or
  without. Two edits, and checks in between, because a suggestion
  that is applied changes the next check's view.
- `vendoring`: four projects after the repository's own and two sources, one with a hash in
  Buildroot's files and one git tarball without, two contents of each, two edits, two stops.
  A pin can be contradicted by one change upstream; the second undoes it. `stopAt` names
  the commands of setup that may fail, and leaves out those after which setup, run again, is
  known to go wrong (section 5).
- `generate`: three directories, one nested in another, one with a dangling link, three
  configurations in which the nested pair is both, outer only, inner only; two edits and two
  interruptions. Left-over files of two earlier models, both interrupted, are reached.
- `drain`: two pods so that an action has somewhere else to run, two containers so that
  hooks can disagree; three ticks separate the fallback, the hook's deadline and SIGKILL.
- `golden_job`: three clients: one waits, one deletes, one creates again with another
  template; two wishes at a time, of which two clients share one. Five wishes: the other variety
  of a commit, another commit of a project whose name differs in what is cleaned only, two
  commits of a project whose name is cut before the digits. One failure, one interruption.
- `matrix`: three cells over two threads, so that a third waits for a thread; two commands,
  each with any choice of cells. The salt's clock comes round after `Period` commands, more
  than the run has: `ColdIsCold` holds while salts differ (section 5).

Counters that the code does not bound (builds, edits, evictions, failures, interruptions,
commands) are bounded by constants whose names start with `Max`, or by a setting's fields.

### Fairness

- `vendoring`: a started script or fetch goes on (weak fairness of `Step` and `FetchStep`),
  and the user runs setup again while it has not succeeded. For fetch, strong fairness of
  starting it while it has not succeeded, because edits disable it for their time, and of
  `Restore`: whoever has a lock that was cut short takes back the committed one, as the error
  says. `CheckedOut` asks for fetch's success only of runs in which what is wanted can in the
  end be had as it is pinned (`Reproducible`).
- `generate`: a started command goes on; strong fairness of running `extract` while the
  checkout is not up to date, because a user may run the renderer alone for ever in between,
  and each such run disables `extract` for its time.
- `golden_job`: clients' calls, the Job and its controller go on; commits are pushed in the
  end; somebody who was refused or failed tries again. `Expire` is Kubernetes' TTL
  controller (`ttlSecondsAfterFinished`). No fairness of failures or interruptions.
- The other runs check safety and assume none.

## 4. Proofs

`tlapm <Module>Proofs.tla` checks each of the eight proof modules; none has an unproved leaf.
They hold for every value of the constants that satisfies the named assumptions of the
modules, which TLC evaluates in the runs.

### ClosureProofs: the analysis

| Theorem | States |
|---|---|
| `TypeCorrect` | `Spec => []TypeOK` |
| `ClosuresOrdered` | `Spec => []TopoOrdered` |
| `ClosuresHaveNoDoubles` | `Spec => []NoDoublePackage` |
| `ClosuresMinimal` | `Spec => []ClosureMinimal` |
| `ViewsMatchClosures` | `Spec => []ViewMatchesClosure` |
| `ViewsHaveNoDanglingLinks` | `Spec => []WrappedLinksShown` |
| `ActionsGetClosures` | `Spec => [](RenderIsCurrent => Closures(Chosen, DirectDeps, Before))` |

Assumed: `GraphAssumption` (every package has a directory and every directory its links),
`GraphsAssumption` (lists are sequences of packages, in any order, cyclic or not) and
`NoneAssumption`.

The properties speak of finished providers, so none is inductive: `Finish` makes a provider
of the accumulator of a half-run rule. `OrderInv` adds what the merge loop knows half way:

- `CurOK`: the rule that runs exists and has no provider yet, its cursor is inside its lists, and
  the dependencies that it reads have providers;
- `AccTopo`: the accumulator is itself ordered, holds only finished targets, and no package
  twice;
- `AccRead`: what the cursor has passed is in the accumulator. This is the part that makes
  the closure *complete* when the loop ends, and without it `Finish` cannot establish
  that the target's own dependencies come before it;
- `InfoOK`: what all of this says of a provider, stronger than `TopoOrdered`: it also exists,
  and what it lists has providers.

`ClosuresHaveNoDoubles` needs more than this, because rendered and hand-written labels agree
only while the last render saw the native rules that are there (`RenderIsCurrent`): `SelectInv`
says that, while it is so, a selected target's closure names by the targets the
configuration selects. A step that makes it so or not so (`Sync`, `Reconfigure`, `Render`) also
takes all providers away.

`DirsInv` (with `AccDirs`) and `MinInv` (with `AccMinimalBy`) are proved on top of it in the
same way. Minimality is stated with closed sets (whatever is closed under dependencies and
holds the target holds the closure), which needs no recursion. `LinksInv` is about any
list, whole or half merged: `Brought` asks that what is wrapped in it has its links beside
it, whatever native targets the list has too; they bring no links of their own.

`ActionsGetClosures` joins the two modules: `Closures` is the predicate that `DeltaTree`
assumes of its constants, here of the providers of the targets that are selected and
analysed (`Chosen`), with the lists of their rules and of their providers. What the package
actions rely on, dependencies first, nothing missing, nothing more and no package twice, is
therefore no assumption about the system.

### ClosureProofs: the trees

| Theorem | States |
|---|---|
| `TreesTypeCorrect` | `TreesSpec => []TreesTypeOK` |
| `TreesRebuilt` | `TreesSpec => []Rebuilt` |
| `ChangesAreKept` | `TreesSpec => []LostOnlyIfDisputed` |
| `DeltasAreOwn` | `TreesSpec => []OnlyOwnWork` |

Assumed: `ClosuresAssumption` (see above; and that the names' order lists every package) and
`ValuesAssumption`. The inductive invariant is `Known`. Besides the properties it says

- of artifacts (`Past`): a delta is of its tree; what the merge had given a package comes from
  a delta below it, and is there where a direct dependency had something and nothing below
  has lost or disputed the path;
- of the action that runs, phase by phase: whose turn it is (`Turn`), which deltas
  it has unpacked (`Seeded`), that a staged or rebuilt tree is the layers of its closure
  (`Staging`, `Overlaid`), that the index has every inode and link target of the rebuilt
  trees (`IndexComplete`) and no inode but those of dependencies (`IndexKnows`);
- of the make that runs (`Making`): a path that no command has touched is as it was given;
  one that was only created anew has an inode of the package's own, or is a link.

The heart is what an overlay leaves at a path: the newest delta of the closure that has it.
`NewestIsTree` says that at a clean path this is what `make` had left. It is not an induction
along the closure, because the order of one closure need not be a part of that of another
that holds it; a least counterexample in the order of the one that is overlaid does (with
the well-foundedness of `<` and no induction rule), as it does for what `Overlay`, a
recursive function, leaves (`OverlayLaid`). `Pack` then reads off the rest: in a closure with
nothing lost or disputed, a change is seen because its inode is not in the index.

### ActionCacheProofs

| Theorem | States |
|---|---|
| `CacheType` | `Spec => []TypeOK` |
| `BuildsAreClean` | `Spec => RefinesCleanBuild` |
| `OnlyForReason` | `Spec => NarrowRebuild` |

Assumed: `ClosureAssumption` (closures hold their package, are transitive and acyclic),
`ValuesAssumption`, `SettingsAssumption` and `NoneAssumption`.

The refinement says that the image of a finished strict build is one that a build from
nothing could make of the checkout as it is. The inductive invariant `IInv` has, besides
types, three parts:

- `SoundAll`: an output under any key, in a daemon or in the cache, is what some run of its
  action makes of the files that the key names, *if the key names the script*. A dev build's
  key does not, and no strict build ever has that key: this is where dev and strict results
  are kept apart, and `ReadsDeclared` is where the proof needs that an action reads no file
  outside its strict key;
- `Fresh`: in a build, an action that is up to date has the key that its dependencies'
  present outputs give it. A build's own outputs do not change behind it because a client
  takes a dependency's output from its daemon, never from the cache a second time;
- `OneRun`: the outputs that are up to date are of one run of each action, so that an image
  cannot embed two runs of one that is not reproducible. It holds of `done` at any time, and
  what a closure contains is gathered while the build goes up it: each action adds its own
  run to what its dependencies have. No induction over the closure is needed, and `Whole`
  reads the image off when everything is done.

`OnlyForReason` is about a client's history: a package runs again only if, since the last
strict build that ended, a checkout that the client built (a dev build or a clean ends
the history) differs from the present one in what the package depends on. `Remembers` is
the invariant: where all of them agree on it, the package's output is of a key that stands
for each of them (`StandsFor`), and the package is not running. It survives builds for other
reasons and aborts because they leave the outputs of the package's closure alone.

### SlicingProofs

| Theorem | States |
|---|---|
| `SlicingType` | `Spec => []TypeOK` |
| `VerdictHolds` | `Spec => []PassedMeansSame` |
| `ConfigNarrow` | `Spec => OnlyItsConcerns` |
| `ApplyFindsAll` | `Spec => HiddenReferencesFound` |

Assumed: `SlicingAssumption`. `check-narrow.py` compares values in a view and a slice that
are smaller than the action's (it follows `extra_view` for the package only, the action for
its closure). The verdict carries over because a value can only lose by narrowing: the
action's view and slice lie between the check's and the whole, so where these two agree the
action's agrees with both (`ValueBetween`). `ConfigNarrow` is by cases of what `make_keep`
keeps. `ApplyFindsAll` is about one run of the check with `--apply`, from any well-typed
state; that a directory of the same name in a package's own tree hides a proposal for the
other tree was found by this proof (section 5).

### VendoringProofs

| Theorem | States |
|---|---|
| `FetchPins` | `VendoringSpec => []FetchedMeansPinned` |
| `PinsAreKept` | `VendoringSpec => PinsHold` |
| `TypeCorrect` | `VendoringSpec => []VendoringTypeOK` |
| `SetupIsComplete` | `VendoringSpec => [](SoundProject => SuccessMeansComplete)` |

Assumed: `VendoringAssumption`. `FetchedMeansPinned` speaks of the end of a fetch; `Looped` says
what its loop knows half way: what it has passed is provided as it is in `dl`, and neither
the hash nor the pin that it has read refuses it. It is stable because nobody else writes to
`dl` while the loop runs. The proof takes setup as whatever it is: it needs only that setup
leaves fetch's variables alone.

`SetupIsComplete` says which projects the promise holds for: `SoundProject` has patches that
apply and does not stop at the commands after which a second run goes wrong (a fetch, a
checkout or a pin of the Buildroot tree, the copy of an external tree, the checkout of a whole
one). What is left out are the cases of section 5, `setup_patched` among them, and the pin
that is cut off from its checkout; the proof shows that there are no others. Stops at any other command, and the interruption of patching at any
patch, are covered: `TreePlace`, `ExtPlace` and `PatchPlace` say for each command what is
there of the trees, the pins and the patches when it is about to run.

### GenerateProofs

| Theorem | States |
|---|---|
| `GenerateType` | `Spec => []TypeOK` |
| `OneRenderIsEnough` | `Origin = None` implies `Spec => []Settles` |
| `OnlyLinksAreWritten` | `Spec`, from the origin's configuration `c`, implies that a command in one experiment changes another's BUCK file only in `shared \cap (PackagesOf[c] \cup {Top})`, and only if there is an origin |

`Origin = None` says that no experiment is a variant made of hard links. `OwnGraph` is not to
be had with one: `generate_variant` refutes it. `OnlyLinksAreWritten` says how far the damage
goes for variants and originals of any configurations: to the BUCK files that `br2-new` linked,
those of the root and of what the origin had for packages at that moment, as long as neither
experiment has removed them. `shared` only shrinks, and that it starts inside this set is
`Linked`. `Settles` says that a second render would change nothing. `Underway` says of a command
that is rendering what it has read and that the texts it has put and those it has left make the
whole; the step that matters is that a render lists only directories that are no packages, while
it writes only to those that are, so no file that it writes is one whose presence decides a text.

### ClusterProofs

| Theorem | States |
|---|---|
| `DrainTypeCorrect` | `Spec => []TypeOK` |
| `NoneStopsHolds` | `Spec => []NoneStopsIfAnswered` |
| `HooksEndHolds` | `Spec => []HookEndsBeforeKill` |
| `JobType` | `JobSpec => []JobTypeOK` |
| `ResultsAreOfTheName` | `JobSpec => []ResultsOfTheName` |
| `ResultsAreOwn` | `JobSpec => []OwnResults` |

Assumed: `DrainAssumption` and `GoldenJobAssumption` (hashes have at least eight digits). The first says that the fallback delay is no longer than the drain's
time (60 s and 3600 s in `values.yaml`; a user may change both), and that the grace
period adds something to it (a minute, in the template).

`NoneStopsIfAnswered` is not inductive: a hook that finds the pod idle stops, and nothing in
the property forbids the scheduler to assign an action afterwards. `Agreed` adds why it
cannot: a hook waits only under a drain, which is for the pod and not for the container, and
a drain is never taken back; so whoever sees the pod idle sees it idle for good.
`HookEndsBeforeKill` needs `InTime`: a pod that is up has age 0, a deleted pod's
containers all run the script, and (from `Tick` and `Due`) time does not pass a
command that is due.

`Logs` unpacks whatever the Job's template says. `Named` ties the Job to those who look for
it by name: its template is what one of the clients with that name wants. That is all
`ResultsAreOfTheName` needs, for names written in any way. `ResultsAreOwn` needs that names tell
wishes apart, which they do not always: `NamesApart` is about `Name` as the code computes it, and
says that wishes with `Apart` projects or commits have different names. A project's name of up to
44 letters leaves all eight digits in the sixty characters, and names of one length differ
where their cleaned letters or digits do.

### MatrixProofs

| Theorem | States |
|---|---|
| `VerdictsAreOwn` | `Spec => []OwnVerdict` |
| `NoResultIsLost` | `Spec => ResultsKept` |
| `TypeCorrect` | `Spec => []TypeOK` |
| `ColdAndWarm` | `Spec => [](command <= Period => ColdIsCold)` |

Assumed: `MatrixAssumption` and `NoneAssumption`. The first two speak of the file, which is written last. `Looks`
says what a cell knows between building, scanning and comparing; it is stable because cells
that run at once have isolation directories of their own (`Exclusive`). `Bookkeeping` is
what the lock protects: the list and the text made of it are one until the text is written.

`ColdAndWarm` has the condition without which the property is false: until the salt's time
comes round. `Saltings` says that every salt in use is of a command that has begun, and that
what a cell has yet to build cold is in no cache and no directory; `Warmth` that a caching
cell past its cold build finds its salt in the cache.

### ViewsProofs

| Theorem | States |
|---|---|
| `TypeCorrect` | `Spec => []TypeOK` |
| `DeclaredEntries` | `Spec => []EntriesAreDeclared` |
| `UndeclaredHidden` | `Spec => []UndeclaredIsHidden` |
| `LinksLead` | `Spec => []LinksLeadSomewhere` |

Assumed: `ViewsAssumption`, `MakeFilesStay`. The invariant `IInv` is short: the tree is one that edits
make of a first one (`Sane`), and what is drawn was rendered of some such state
(`HasDrawn`). The rest is about two trees, the one the lists were made of and the one an action
meets, and anything may have happened in between. `Drawing` says what a render writes, and
`Covered` is why the lists suffice: of a directory without packages, whatever is listed for
it is found from the top, at the shallowest directory that holds no package. View and
sources both have this directory, and differ only where one goes by its files, which is
where a link dangles below it. What remains are the four gaps that `UndeclaredIsHidden`
names; the theorem is that there are no others.

### What is only model-checked

Liveness under fairness (`Mended`, `CheckedOut`, `Collected`), which is out of the prover's
reach. Every other property of a passing run is a theorem, three of them in the cases that their
theorem's condition names: `Settles` where no experiment is a variant, `ColdIsCold` until the
salt's time comes round, `SuccessMeansComplete` in sound projects. The runs check these three in
instances that meet the conditions. `OwnGraph`, which `generate_variant` refutes, has
`OnlyLinksAreWritten` beside it, which holds with variants too.

## 5. What was found

### With a run and a finding

1. **A patch that fails is marked as applied** (`setup_patched`;
   `scripts/fetch-buildroot.sh:69`). errexit is off inside `apply_patches && touch`.
2. **A variant writes its original's BUCK files** (`generate_variant`;
   `scripts/br2buck.py:692`). `br2-new` makes hard links, `render` writes in place.

### With a configuration

TLC refutes each of these in a few seconds, under the configuration named. The properties of the
passing runs hold beside them; the comments there say where the exception is.

- *Two readers of the native list* (`MCAnalysisStale.cfg`; `br2/rules.bzl:471`). `br2_dep` asks
  the list alone, a rendered BUCK file has asked at the last render whether a native BUCK was
  there (`scripts/br2buck.py:276`), and nothing renders before a build. With a native rule
  that came since, hand-written rules name the native target and rendered ones the wrapped
  one; Buck2 builds both, and `_merge_topo` keeps the first it meets. The comment (469-470)
  says "so a closure never contains the same package twice (once wrapped, once native)".
  `NoDoublePackage` speaks of renders that are current.
- *A native package drops its directory's links* (`MCAnalysisLinks.cfg`; `br2/rules.bzl:525`).
  It reports its Buildroot directory, but only its dependencies' links; the comment (339-341)
  says "the rootfs action and every other package are unchanged". No directory with a native
  recipe has links today. `WrappedLinksShown` stops at natives.
- *Deltas in topological order, trees in `make`'s* (`MCDeltaTreeOrder.cfg`;
  `br2/pkg_action.py:140`). Where one dependency replaces a file that another has only
  inherited, make may give the dependent the inherited one, the overlay gives the replacement;
  the comment (365-366) says the trees "are needed exactly". `Rebuilt` excludes such
  disputed paths.
- *Host deltas in the order of names* (`MCDeltaTreeHost.cfg`; `br2/pkg_action.py:371`). Where a
  package replaces another's host file, the later name wins and not the later build:
  `host-gcc-initial` comes after `host-gcc-final`. The comment (366) says "their union is the
  same host tools". `HostToolsKept` excludes paths that two packages change (`Contested`).
- *Shown and not declared* (`MCViewsUndeclared.cfg`; `br2/pkg_action.py:245`). A local action
  reads four things that are no input of it, so an edit of them is not noticed, where the header
  (24-25) says "an undeclared read is ENOENT, not a silently stale cache hit":
  a package's directory inside one that is shown whole (the trace); links to directories, which
  `file_list` leaves out; files that have come since the render; and, in another package's
  directory that a link leads to, links that are data. `UndeclaredIsHidden` names these
  four, and the theorem says there are no others. The attempts to prove it and
  `LinksLeadSomewhere` have made three exceptions exact (`NotListedYet`, `InLinkedPackage`,
  `InnerGap`), which the run's trees do not tell apart.
- *`extra_view` has no trees* (`MCSlicingTree.cfg`; `scripts/check-narrow.py:217`). An entry's
  directory is looked for in the package's own tree. What the check proposes for a definition
  in the other tree names a directory that is not there, and once it is applied every later
  check and action of that package fails, where the guide
  (`docs/guides/adding-a-project.md:129`) says that `--apply` "writes the entries it can
  prove"; or it names another directory of the package's own tree, the check passes, and the
  reference stays hidden, which `HiddenReferencesFound` excepts. The second case was found by
  the attempt to prove that property.
- *A failed fetch is taken for the tree* (`MCVendoringFetch.cfg`;
  `scripts/fetch-buildroot.sh:16`). With `buildroot.commit`, `git init` leaves `.git` when the
  fetch fails; the next run says "already present", records nothing and succeeds, where the
  header (2-3) says "record what was fetched. Idempotent." The same holds of an external tree
  whose checkout fails after its clone, or whose copy is interrupted (line 42).
  `SuccessMeansComplete` is checked without these stops.
- *A lost request ends the drain* (`MCWorkerDrainLost.cfg`; `charts/.../files/drain.sh:20`). A
  time-out is taken for a 404 if the next request is answered, and the hook returns while the pod
  executes an action; the comment (7) says "none stops before the last action ends".
  `NoneStopsIfAnswered` is about pages that answer.
- *Varieties share a Job* (`MCGoldenJobVariety.cfg`; `scripts/br2:263`). `--vanilla` is not in
  the Job's name. One client polls, a second of the same wish collects the Job and deletes
  it, a third applies the other variety: the first unpacks that one, and is told
  "results written:" with the names of its own files (line 327). `OwnResults` speaks of wishes
  that the name tells apart. A client may also delete a Job another has just created.
- *A long name cuts the commit off* (`MCGoldenJobCut.cfg`; `scripts/br2:263`). From 45
  letters of the project's name on, the name loses digits of the commit, from 52 on all of
  them. Two clients at different commits then meet one Job, and one unpacks the other's manifest,
  where `docs/reference/cli.md:16` says "the Job clones the current commit". The longest
  name in `experiments/` has 17 letters.
- *The salt's clock comes round* (`MCMatrixWrap.cfg`; `scripts/br2:204`). The salt is a time
  without month, year or machine: the same second of another month, or of another machine, is
  warm, where ADR-0010 says "cold means cold, provably". `ColdIsCold` is checked with `Period`
  above `MaxCommands` and proved of the first `Period` commands.

### Without one

Seen while modelling; the models state their properties so that they hold beside these.

- A write in place to an inherited file keeps the inode and is lost from the delta, where the
  docstring (`br2/pkg_action.py:176-177`) says it holds the paths a package "added or
  changed". `LostOnlyIfDisputed` holds of commands that create what they install.
- `check-narrow.py` promises that "every variable of the package itself (`<PKG>_*`) must
  survive" (lines 10-12). It compares variables that are left in the narrowed run; for one
  that is gone it prints a proposal if the package's make files mention it, and returns 0
  all the same. `PassedMeansSame` is about the variables that the view has.
- The check's slice and view are not the action's: they do not follow the closure's links.
  The proof in section 4 is what makes its verdict hold for the action. It also takes
  `.config` from the golden build, which may be of an older configuration.
- Make files of a group directory are shown to the packages below it, and the symbols of
  other packages that they name are not kept in the slices.
- `*.patch` are applied before `*.sh` (`scripts/fetch-buildroot.sh:61`), where the comment
  says "in name order".
- `render --check` compares BUCK files with the model, not the model with the configuration:
  a stale model passes (against ADR-0001 and ADR-0012, which rely on the check).
- A golden Job's results include the lock file and are unpacked over the working tree
  (`scripts/br2:326`), so pins that were not committed are lost and others come in their
  place. `PinsHold` has the exception; the next fetch refuses what contradicts them.

Smaller hazards of the same kind that are not in `PROJECT.json`: the host tools are in no key;
a local action reads the checkout as it is when it runs; dev mode makes actions local-only,
also where the mode is remote; rsync skips files of equal size and time; a SIGKILL leaves the
work directory; a `git clone` that is interrupted leaves its directory without the record;
`project.json` edited after the fetch changes nothing; `sources/` and `dl` share an inode, so
a download in place would change both; two `br2 fetch` or two `br2 matrix` at once; a
scheduler that restarts has forgotten its drains; the idle reporter may annotate a pod that
has just become busy; a client's deadline ends its wait while the Job goes on; a cell that
raises cancels the cells that wait; `matrix.json` is written in place; the golden output
directory is kept between builds; `fetch-buck2.sh` unpacks the shared binary in place and
copies it without a rename, and an interruption of either stands in the way later; the load
that scales a pool is a difference of two sums, one of which may have no series yet; symbols
that a package reads by built names.

## 6. What is not modelled, and why

- *Native recipes*, the *inspection tools*, *experiments*: pure functions or data. What
  matters of native recipes elsewhere, their closures, is in `Analysis`.
- *Golden build on the own machine*: what `make` rebuilds in a kept directory is Buildroot's.
- *`fetch-buck2.sh`*, *`br2-sync`* and the templates of *`br2-new`*: downloads and copies
  without state that others read half way; what an interruption leaves is named above.
- *Buildbarn configuration*, *Terraform*: declarations to servers that are not here; what
  the toolkit relies on is in `ActionCache` and `WorkerDrain`.
- *Autoscaling*: the behaviour is KEDA's and Prometheus'; the chart has a query and numbers.
- Inside modelled parts: the texts of specs and BUCK files, logs, the names Kubernetes and
  Buck2 give things, restarts of the scheduler, two fetches at a time, hard links between
  paths of a package, native packages and infrastructure files in `ActionCache`, `common/`
  and the order of mounts in `Views`, the variables that `check-narrow.py` ignores by name.

## 7. What is left

1. `Views` and `Slicing` in `ActionCache`: its abstract slices and closures are stated there
   as the two modules justify them, but the modules are not composed.
2. Proofs: more joints between modules, as `ActionsGetClosures` is one: `ActionCache`'s
   `ClosureAssumption` from `Analysis`, its slices from `Slicing`, its inputs from `Views`.
3. Scheduler restarts in `WorkerDrain`; hard links between paths in `DeltaTree`.
4. The native recipes as a second implementation of a package action, against the tree that
   the wrapped one makes.
