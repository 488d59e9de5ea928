---------------------------- MODULE ActionCache -----------------------------
(***************************************************************************)
(* Incremental builds of several checkouts that share one action cache.    *)
(*                                                                         *)
(* The image is made by four kinds of action: config (the whole .config,   *)
(* from every file of the tree), one slice per package (the symbols that   *)
(* package can read), one package action per package, and rootfs.  The key *)
(* of an action is its declared inputs: source files, and the outputs of   *)
(* other actions by digest.  A client keeps its last output per action,    *)
(* asks the shared cache on a change, runs the action on a miss, and may   *)
(* store the result.                                                       *)
(*                                                                         *)
(* An output is the set of facts that went into it, whichever action read  *)
(* them first: <<file, version>>, <<slice, symbols it kept>>, and          *)
(* <<action, n>> for the run n of an action that is not reproducible.  Two *)
(* outputs have one digest exactly when they are equal, so an action whose *)
(* output does not show a change cuts the rebuild off there.               *)
(*                                                                         *)
(* Left out: the infrastructure files every package reads (they behave     *)
(* like Driver, and dev mode does not hide them), source archives (fetched *)
(* by hash), the owners action (its answer, which directory declares a     *)
(* symbol, is the constant pairing of Sym with Dir), native packages, the  *)
(* cache salt, and the host tools, which no key covers.  br2-ns.sh is one  *)
(* file with pkg_action.py here.                                           *)
(***************************************************************************)
EXTENDS Naturals

CONSTANTS
  Package,     \* packages of the image
  Closure,     \* package -> its dependency closure, itself included
  Refs,        \* package -> version of its directory -> packages whose symbols its .mk files name
  KeepAll,     \* versions of slicing.py that keep every symbol
  Version,     \* contents a file can have
  Initial,     \* the version every file starts with
  Nonce,       \* marks that tell the results of two runs apart
  Same,        \* the mark that every run of a reproducible action leaves
  Client,      \* checkouts, each with its own Buck2 daemon
  MaxBuilds,   \* bound: builds started, all clients together
  Settings,    \* bound: who builds and what may happen; see Setting
  None         \* no output, no build, no running action

Dir(p)  == <<"dir", p>>       \* the package directory
Sym(p)  == <<"sym", p>>       \* the defconfig's line for the symbol p's directory declares
Driver  == <<"script", "pkg_action">>
Slicer  == <<"script", "slicing">>

Dirs == {Dir(p) : p \in Package}
Syms == {Sym(p) : p \in Package}
Item == Dirs \cup Syms \cup {Driver, Slicer}

Config   == <<"config", "all">>
Slice(p) == <<"slice", p>>
Pkg(p)   == <<"package", p>>
Rootfs   == <<"rootfs", "all">>

\* A slice is written deterministically (write_slice_tar); the other outputs
\* hold what make built.
Slices == {Slice(p) : p \in Package}
Step   == {Config, Rootfs} \cup {Pkg(p) : p \in Package}
Action == Step \cup Slices

Fact == (Item \X Version) \cup (Step \X Nonce) \cup (Slices \X SUBSET (Syms \X Version))

ASSUME ClosureAssumption ==
  /\ Closure \in [Package -> SUBSET Package]
  /\ \A p \in Package : p \in Closure[p]
  /\ \A p \in Package : \A q \in Closure[p] : Closure[q] \subseteq Closure[p]
  /\ \A p \in Package : \A q \in Closure[p] \ {p} : p \notin Closure[q]

ASSUME ValuesAssumption ==
  /\ Refs \in [Package -> [Version -> SUBSET Package]]
  /\ Initial \in Version
  /\ Same \in Nonce
  /\ MaxBuilds \in Nat

VARIABLES
  setting,   \* one of Settings; never changes
  tree,      \* client -> file -> version: the checkout
  out,       \* client -> action -> its last output with the key it had, or None (the daemon, buck-out)
  flags,     \* client -> the flags of its running or finished build, or None
  done,      \* client -> the actions that build has brought up to date
  running,   \* client -> the action being executed, or None
  cache,     \* the shared action cache: key -> output
  edits, builds, evictions,   \* counters for the bounds
  built      \* history: client -> the checkouts built from since, and including, its last
             \* finished strict build; None before one, and after a dev build or a clean

vars == <<setting, tree, out, flags, done, running, cache, edits, builds, evictions, built>>

------------------------------------------------------------------------------
\* What an action declares.

ScriptOf(a) == IF a[1] = "slice" THEN Slicer ELSE Driver

\* config and rootfs depend on every file of the tree, a slice on its own
\* directory, a package on the directories of its closure.
TreeInputs(a) ==
  CASE a[1] = "slice"   -> {Dir(a[2])}
    [] a[1] = "package" -> {Dir(q) : q \in Closure[a[2]]}
    [] OTHER            -> Dirs \cup Syms

\* Mutant: the scripts are never inputs.
DeclaredNoScripts(a, dev) == TreeInputs(a)

\* _tool: in dev mode a script is a path in the project and no input.
Declared(a, dev) == IF dev THEN TreeInputs(a) ELSE TreeInputs(a) \cup {ScriptOf(a)}

\* Mutant: a package consumes the whole configuration.
NeedsConfig(a) ==
  CASE a[1] = "config"  -> {}
    [] a[1] = "slice"   -> {Config}
    [] a[1] = "package" -> {Config, Slice(a[2])} \cup {Pkg(q) : q \in Closure[a[2]] \ {a[2]}}
    [] a[1] = "rootfs"  -> {Config} \cup {Pkg(q) : q \in Package}

Needs(a) ==
  CASE a[1] = "config"  -> {}
    [] a[1] = "slice"   -> {Config}
    [] a[1] = "package" -> {Slice(a[2])} \cup {Pkg(q) : q \in Closure[a[2]] \ {a[2]}}
    [] a[1] = "rootfs"  -> {Config} \cup {Pkg(q) : q \in Package}

\* A slice consumes dot_config, the plain .config, which shows symbols and
\* nothing else; other consumers take the output as it is.
Seen(a, facts) == IF a[1] = "slice" THEN {f \in facts : f[1] \in Syms} ELSE facts

At(files, items) == {<<i, files[i]>> : i \in items}

Key(c, a) ==
  [action |-> a,
   src    |-> At(tree[c], Declared(a, flags[c].dev)),
   ins    |-> [b \in Needs(a) |-> Seen(a, out[c][b].facts)]]

\* What a daemon keeps of an action.
KeySet == UNION {[action : {a}, src : SUBSET Fact, ins : [Needs(a) -> SUBSET Fact]] : a \in Action}

Entry == [key : KeySet, facts : SUBSET Fact]

ASSUME NoneAssumption == None \notin Entry /\ None \notin Action

\* What running an action makes of its inputs.

\* make_keep: the symbols of the closure's directories, and those the
\* package's own .mk files name.
Kept(p, dirVersion, slicer) ==
  IF slicer \in KeepAll THEN Syms ELSE {Sym(q) : q \in Closure[p] \cup Refs[p][dirVersion]}

CleanSlice(files, p) == At(files, Kept(p, files[Dir(p)], files[Slicer]))

\* A slice reads .config; the rest of what it needs is in the checkout.
Produce(files, k, n) ==
  IF k.action[1] = "slice"
    THEN LET p == k.action[2]
         IN  {<<k.action, {f \in k.ins[Config] : f[1] \in Kept(p, files[Dir(p)], files[Slicer])}>>}
    ELSE k.src \cup At(files, {ScriptOf(k.action)}) \cup {<<k.action, n>>}
           \cup UNION {k.ins[b] : b \in DOMAIN k.ins}

------------------------------------------------------------------------------
\* The modes of config_flags, as lookups in the cache and results stored
\* there: local does neither, the cache modes do both, and remote does not ask
\* while the worker stores what it ran.  Dev mode makes every action
\* local_only, which leaves it local and local-cache.
Modes ==
  [dev : BOOLEAN, lookup : {TRUE}, store : {TRUE}]
    \cup [dev : BOOLEAN, lookup : {FALSE}, store : {FALSE}]
    \cup [dev : {FALSE}, lookup : {FALSE}, store : {TRUE}]

Setting ==
  [clients   : SUBSET Client,   \* they build
   editable  : SUBSET Item,     \* the files that get edited
   varying   : SUBSET Step,     \* the actions whose results differ from run to run
   modes     : SUBSET Modes,    \* builds use these
   edits     : Nat,             \* so many edits, all clients together
   evictions : Nat]             \* so many entries the storage forgets

ASSUME SettingsAssumption == Settings \subseteq Setting

Init ==
  /\ setting \in Settings
  /\ tree = [c \in Client |-> [i \in Item |-> Initial]]
  /\ out = [c \in Client |-> [a \in Action |-> None]]
  /\ flags = [c \in Client |-> None]
  /\ done = [c \in Client |-> {}]
  /\ running = [c \in Client |-> None]
  /\ cache = [k \in {} |-> {}]
  /\ edits = 0
  /\ builds = 0
  /\ evictions = 0
  /\ built = [c \in Client |-> None]

Finished(c) == done[c] = Action

Building(c) == flags[c] # None /\ ~Finished(c)

Strict(c) == flags[c] # None /\ ~flags[c].dev

\* An edit while no build runs: a local action reads the checkout as it is
\* when it runs, and nothing in the toolkit freezes it.
Edit(c, i, v) ==
  /\ ~Building(c)
  /\ edits < setting.edits
  /\ i \in setting.editable
  /\ v # tree[c][i]
  /\ tree' = [tree EXCEPT ![c][i] = v]
  /\ flags' = [flags EXCEPT ![c] = None]
  /\ done' = [done EXCEPT ![c] = {}]
  /\ edits' = edits + 1
  /\ UNCHANGED <<setting, out, running, cache, builds, evictions, built>>

\* Mutant: the cache modes look up and do not upload.
StartReadOnly(c, m) ==
  /\ ~Building(c)
  /\ builds < MaxBuilds
  /\ flags' = [flags EXCEPT ![c] = [m EXCEPT !.store = FALSE]]
  /\ done' = [done EXCEPT ![c] = {}]
  /\ built' = [built EXCEPT ![c] = IF @ = None \/ m.dev THEN None ELSE @ \cup {tree[c]}]
  /\ builds' = builds + 1
  /\ UNCHANGED <<setting, tree, out, running, cache, edits, evictions>>

\* buck_build, cmd_dev.
Start(c, m) ==
  /\ ~Building(c)
  /\ builds < MaxBuilds
  /\ flags' = [flags EXCEPT ![c] = m]
  /\ done' = [done EXCEPT ![c] = {}]
  /\ built' = [built EXCEPT ![c] = IF @ = None \/ m.dev THEN None ELSE @ \cup {tree[c]}]
  /\ builds' = builds + 1
  /\ UNCHANGED <<setting, tree, out, running, cache, edits, evictions>>

\* `buck2 kill` and `buck2 clean`, before a cold and before a warm run.
Clean(c) ==
  /\ ~Building(c)
  /\ out' = [out EXCEPT ![c] = [a \in Action |-> None]]
  /\ flags' = [flags EXCEPT ![c] = None]
  /\ done' = [done EXCEPT ![c] = {}]
  /\ built' = [built EXCEPT ![c] = None]
  /\ UNCHANGED <<setting, tree, running, cache, edits, builds, evictions>>

Ready(c, a) ==
  /\ flags[c] # None
  /\ running[c] = None
  /\ a \notin done[c]
  /\ Needs(a) \subseteq done[c]

UpToDate(c, a) == out[c][a] # None /\ out[c][a].key = Key(c, a)

Cached(c, a) == flags[c].lookup /\ Key(c, a) \in DOMAIN cache

\* One more action is up to date; with the last one the build ends.
Advance(c, a) ==
  /\ done' = [done EXCEPT ![c] = @ \cup {a}]
  /\ built' = [built EXCEPT ![c] =
                 IF done[c] \cup {a} = Action /\ Strict(c) THEN {tree[c]} ELSE @]

Reuse(c, a) ==
  /\ Ready(c, a)
  /\ UpToDate(c, a)
  /\ Advance(c, a)
  /\ UNCHANGED <<setting, tree, out, running, flags, cache, edits, builds, evictions>>

Hit(c, a) ==
  /\ Ready(c, a)
  /\ ~UpToDate(c, a)
  /\ Cached(c, a)
  /\ out' = [out EXCEPT ![c][a] = [key |-> Key(c, a), facts |-> cache[Key(c, a)]]]
  /\ Advance(c, a)
  /\ UNCHANGED <<setting, tree, running, flags, cache, edits, builds, evictions>>

Miss(c, a) ==
  /\ Ready(c, a)
  /\ ~UpToDate(c, a)
  /\ ~Cached(c, a)
  /\ running' = [running EXCEPT ![c] = a]
  /\ UNCHANGED <<setting, tree, out, done, flags, cache, edits, builds, evictions, built>>

\* The action ends.  Another client may have stored the same key meanwhile:
\* the later result replaces the earlier one.
Execute(c, n) ==
  /\ running[c] # None
  /\ running[c] \notin setting.varying => n = Same
  /\ LET a     == running[c]
         k     == Key(c, a)
         facts == Produce(tree[c], k, n)
     IN  /\ out' = [out EXCEPT ![c][a] = [key |-> k, facts |-> facts]]
         /\ cache' = IF flags[c].store
                       THEN [x \in DOMAIN cache \cup {k} |-> IF x = k THEN facts ELSE cache[x]]
                       ELSE cache
         /\ Advance(c, a)
  /\ running' = [running EXCEPT ![c] = None]
  /\ UNCHANGED <<setting, tree, flags, edits, builds, evictions>>

\* make fails, the runner dies, the user interrupts: the command ends and the
\* daemon keeps what was done.
Abort(c) ==
  /\ Building(c)
  /\ running' = [running EXCEPT ![c] = None]
  /\ done' = [done EXCEPT ![c] = {}]
  /\ flags' = [flags EXCEPT ![c] = None]
  /\ UNCHANGED <<setting, tree, out, cache, edits, builds, evictions, built>>

\* The storage forgets an entry or a blob it references (completenessChecking
\* turns the second into the first).
Evict(k) ==
  /\ evictions < setting.evictions
  /\ cache' = [x \in DOMAIN cache \ {k} |-> cache[x]]
  /\ evictions' = evictions + 1
  /\ UNCHANGED <<setting, tree, out, done, running, flags, edits, builds, built>>

Next ==
  \/ \E c \in setting.clients :
       \/ \E i \in setting.editable, v \in Version : Edit(c, i, v)
       \/ \E m \in setting.modes : Start(c, m)
       \/ Clean(c)
       \/ \E a \in Action : Reuse(c, a) \/ Hit(c, a) \/ Miss(c, a)
       \/ \E n \in Nonce : Execute(c, n)
       \/ Abort(c)
  \/ \E k \in DOMAIN cache : Evict(k)

Spec == Init /\ [][Next]_vars

------------------------------------------------------------------------------
TypeOK ==
  /\ setting \in Settings
  /\ tree \in [Client -> [Item -> Version]]
  /\ \A c \in Client, a \in Action :
       out[c][a] # None => /\ out[c][a].key.action = a
                           /\ DOMAIN out[c][a].key.ins = Needs(a)
                           /\ out[c][a].facts \subseteq Fact
  /\ flags \in [Client -> Modes \cup {None}]
  /\ done \in [Client -> SUBSET Action]
  /\ running \in [Client -> Action \cup {None}]
  /\ \A k \in DOMAIN cache : k.action \in Action /\ cache[k] \subseteq Fact
  /\ edits \in 0..setting.edits
  /\ builds \in 0..MaxBuilds
  /\ evictions \in 0..setting.evictions

\* What a build from nothing can make of a checkout: every file at its present
\* version (slicing.py shows in the slices it makes), each package with its
\* own slice, and one run of each action.
CleanImages(files) ==
  {At(files, Item \ {Slicer}) \cup {<<Slice(p), CleanSlice(files, p)>> : p \in Package}
     \cup {<<a, run[a]>> : a \in Step} : run \in [Step -> Nonce]}

\* Whatever was edited, built in dev mode, abandoned, shared or forgotten
\* before, the image of a strict build is one that a clean build of the same
\* checkout could have made; in particular two packages never embed two
\* different runs of a dependency.
Promise == INSTANCE CleanBuild WITH
  image <- [c \in Client |-> IF Finished(c) /\ Strict(c) THEN out[c][Rootfs].facts ELSE None]

RefinesCleanBuild == Promise!Spec

\* What a package's result depends on in a checkout: the directories of its
\* closure, the slices of its closure, and the scripts.
Narrow(files, p) ==
  <<At(files, {Dir(q) : q \in Closure[p]} \cup {Driver}), [q \in Closure[p] |-> CleanSlice(files, q)]>>

\* "Narrow inputs": a package is built again only if, since the last finished
\* strict build, some checkout that was built differs from the present one in
\* what the package depends on.  An edit anywhere else, a configuration that
\* changed elsewhere, a config action that ran again, an abandoned build or a
\* forgotten cache entry never rebuild it.
NarrowRebuild ==
  \A c \in Client, p \in Package :
    running[c] = Pkg(p) /\ built[c] # None =>
      \E t \in built[c] : Narrow(t, p) # Narrow(tree[c], p)
=============================================================================
