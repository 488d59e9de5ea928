------------------------------ MODULE Analysis ------------------------------
(***************************************************************************)
(* Buck2 analysis of the package graph: the Starlark of br2/rules.bzl that *)
(* turns one target per Buildroot package into Br2Pkg providers.           *)
(*                                                                         *)
(* A provider carries the target's closure in build order (topo), and what *)
(* the closure's makefiles may read: package directories (dirs) and extra  *)
(* view entries (links).  The package action unpacks the tars of topo in   *)
(* that order, rebuilds every dependency's tree from it, and shows make    *)
(* nothing outside dirs and links, so a closure that is incomplete, badly  *)
(* ordered or that holds one package twice breaks the build of a package   *)
(* far from the mistake.                                                   *)
(*                                                                         *)
(* A package has a wrapped target (`make <pkg>` in an action) and may have *)
(* a native one (hand-written Buck2 rules); the configuration's native     *)
(* list says which one a dependency label means.  Two readers ask whether  *)
(* the native one is there: the renderer when it last ran, and Buck2 when  *)
(* it analyses; br2-sync and the user's own edits bring and take native    *)
(* rules without rendering again.                                          *)
(***************************************************************************)
EXTENDS Naturals, Sequences

CONSTANTS
  Package,     \* Buildroot package names, host-* variants included
  Dir,         \* package directories; foo and host-foo share one
  Link,        \* view entries a directory's symlinks and makefiles reach elsewhere
  DirOf,       \* [Package -> Dir]
  LinksOf,     \* [Dir -> SUBSET Link], computed by outward_links at render time
  Replaceable, \* packages that native rules may be written for
  Graphs,      \* the dependency lists the BUCK files may hold
  None         \* a target without a provider yet; no target under analysis

ASSUME GraphAssumption ==
  /\ DirOf \in [Package -> Dir]
  /\ LinksOf \in [Dir -> SUBSET Link]
  /\ Replaceable \subseteq Package

Target == [name : Package, kind : {"wrapped", "native"}]

ASSUME GraphsAssumption == Graphs \subseteq [Target -> Seq(Package)]

Provider == [topo : Seq(Target), dirs : SUBSET Dir, links : SUBSET Link]

ASSUME NoneAssumption == None \notin Target /\ None \notin Provider

VARIABLES
  deps,     \* target -> the names its rule lists, in order
  native,   \* the configuration's [br2] native list
  written,  \* packages whose native BUCK (br2/native/ or native/) is there now
  rendered, \* packages whose native BUCK was there at the last render
  info,     \* target -> its provider, or None
  cur,      \* the target whose rule is running, or None
  dep,      \* the dependency _merge_topo is reading (index into deps[cur])
  entry,    \* the entry of that dependency's topo it reads next
  acc       \* the provider under construction

graph == <<deps, native, written, rendered>>

vars == <<graph, info, cur, dep, entry, acc>>

Empty == [topo |-> <<>>, dirs |-> {}, links |-> {}]

(***************************************************************************)
(* Labels.  A rendered BUCK file resolves a name to the native target when *)
(* the list names it and a native BUCK was there at render time; br2_dep,  *)
(* which the hand-written native files use, trusts the list alone; and the *)
(* target that a label names exists when its BUCK is there at analysis.    *)
(***************************************************************************)
Label(n, isNative) == [name |-> n, kind |-> IF isNative THEN "native" ELSE "wrapped"]

DepLabel(n) == Label(n, n \in native /\ n \in rendered)

\* Mutant: a native BUCK file that names the wrapped target directly.
Br2DepWrapped(n) == Label(n, FALSE)

Br2Dep(n) == Label(n, n \in native)

DepOf(t, n) == IF t.kind = "native" THEN Br2Dep(n) ELSE DepLabel(n)

\* The k-th dependency of t, as a target.
DepTarget(t, k) == DepOf(t, deps[t][k])

Exists(t) == t.kind = "wrapped" \/ t.name \in written

Analysed(t) == info[t] # None

Names(s) == {s[k].name : k \in DOMAIN s}

Members(s) == {s[k] : k \in DOMAIN s}

------------------------------------------------------------------------------
Init ==
  /\ deps \in Graphs
  /\ native \in SUBSET Replaceable
  /\ written \in SUBSET Replaceable
  /\ rendered = written
  /\ info = [t \in Target |-> None]
  /\ cur = None
  /\ dep = 1
  /\ entry = 1
  /\ acc = Empty

\* Mutant: the accumulator of the previous rule survives.
BeginNoReset(t) ==
  /\ cur = None
  /\ Exists(t)
  /\ ~Analysed(t)
  /\ \A k \in DOMAIN deps[t] : Analysed(DepTarget(t, k))
  /\ cur' = t
  /\ dep' = 1
  /\ entry' = 1
  /\ UNCHANGED <<graph, info, acc>>

\* Buck2 runs a rule once every dependency's provider exists.
Begin(t) ==
  /\ cur = None
  /\ Exists(t)
  /\ ~Analysed(t)
  /\ \A k \in DOMAIN deps[t] : Analysed(DepTarget(t, k))
  /\ cur' = t
  /\ dep' = 1
  /\ entry' = 1
  /\ acc' = Empty
  /\ UNCHANGED <<graph, info>>

\* One turn of _merge_topo's inner loop: keep the first occurrence of a name.
MergeEntry ==
  /\ cur # None
  /\ dep \in DOMAIN deps[cur]
  /\ LET topo == info[DepTarget(cur, dep)].topo
     IN  /\ entry \in DOMAIN topo
         /\ acc' = IF topo[entry].name \in Names(acc.topo)
                     THEN acc
                     ELSE [acc EXCEPT !.topo = Append(acc.topo, topo[entry])]
  /\ entry' = entry + 1
  /\ UNCHANGED <<graph, info, cur, dep>>

\* Mutants: the inner loop restarts at 0; only the directories are merged.
MergeDepFromZero ==
  /\ cur # None
  /\ dep \in DOMAIN deps[cur]
  /\ LET i == info[DepTarget(cur, dep)]
     IN  /\ entry \notin DOMAIN i.topo
         /\ acc' = [acc EXCEPT !.dirs = @ \cup i.dirs, !.links = @ \cup i.links]
  /\ dep' = dep + 1
  /\ entry' = 0
  /\ UNCHANGED <<graph, info, cur>>

MergeDepNoLinks ==
  /\ cur # None
  /\ dep \in DOMAIN deps[cur]
  /\ LET i == info[DepTarget(cur, dep)]
     IN  /\ entry \notin DOMAIN i.topo
         /\ acc' = [acc EXCEPT !.dirs = @ \cup i.dirs]
  /\ dep' = dep + 1
  /\ entry' = 1
  /\ UNCHANGED <<graph, info, cur>>

\* The dependency is exhausted: _merge_dirs and _merge_links have taken its
\* directories and links too (a view sorts them, so they are kept as sets).
MergeDep ==
  /\ cur # None
  /\ dep \in DOMAIN deps[cur]
  /\ LET i == info[DepTarget(cur, dep)]
     IN  /\ entry \notin DOMAIN i.topo
         /\ acc' = [acc EXCEPT !.dirs = @ \cup i.dirs, !.links = @ \cup i.links]
  /\ dep' = dep + 1
  /\ entry' = 1
  /\ UNCHANGED <<graph, info, cur>>

\* Mutant: a native target does not report the directory it stands in for.
OwnWrappedOnly(t) ==
  IF t.kind = "wrapped"
    THEN [dirs |-> {DirOf[t.name]}, links |-> LinksOf[DirOf[t.name]]]
    ELSE [dirs |-> {}, links |-> {}]

\* What the rule adds for the target itself.  A wrapped package contributes
\* its directory's links; a native one reports the Buildroot directory it
\* stands in for (bdir) and only its dependencies' links.
Own(t) ==
  [dirs  |-> {DirOf[t.name]},
   links |-> IF t.kind = "wrapped" THEN LinksOf[DirOf[t.name]] ELSE {}]

\* Mutant: the target first, its closure after it.
FinishTargetFirst ==
  /\ cur # None
  /\ dep \notin DOMAIN deps[cur]
  /\ info' = [info EXCEPT ![cur] =
                [topo  |-> <<cur>> \o acc.topo,
                 dirs  |-> acc.dirs \cup Own(cur).dirs,
                 links |-> acc.links \cup Own(cur).links]]
  /\ cur' = None
  /\ UNCHANGED <<graph, dep, entry, acc>>

Finish ==
  /\ cur # None
  /\ dep \notin DOMAIN deps[cur]
  /\ info' = [info EXCEPT ![cur] =
                [topo  |-> Append(acc.topo, cur),
                 dirs  |-> acc.dirs \cup Own(cur).dirs,
                 links |-> acc.links \cup Own(cur).links]]
  /\ cur' = None
  /\ UNCHANGED <<graph, dep, entry, acc>>

\* Whatever the labels depend on has changed: the rules are analysed again.
Reanalyse ==
  /\ info' = [t \in Target |-> None]
  /\ cur' = None
  /\ UNCHANGED <<dep, entry, acc>>

\* Another command with another native list (--config br2.native=...).
Reconfigure(n) ==
  /\ native' = n
  /\ Reanalyse
  /\ UNCHANGED <<deps, written, rendered>>

\* br2-sync, or the user, brings and takes native rules.
Sync(w) ==
  /\ written' = w
  /\ Reanalyse
  /\ UNCHANGED <<deps, native, rendered>>

\* br2 render asks native_label of every dependency.
Render ==
  /\ rendered' = written
  /\ Reanalyse
  /\ UNCHANGED <<deps, native, written>>

Analyse == (\E t \in Target : Begin(t)) \/ MergeEntry \/ MergeDep \/ Finish

Next ==
  \/ Analyse
  \/ \E n \in SUBSET Replaceable : Reconfigure(n) \/ Sync(n)
  \/ Render

Spec == Init /\ [][Next]_vars

------------------------------------------------------------------------------
TypeOK ==
  /\ deps \in Graphs
  /\ native \in SUBSET Replaceable
  /\ written \in SUBSET Replaceable
  /\ rendered \in SUBSET Replaceable
  /\ info \in [Target -> Provider \cup {None}]
  /\ cur \in Target \cup {None}
  /\ dep \in Nat \ {0}
  /\ entry \in Nat \ {0}
  /\ acc \in Provider

\* The dependencies of the k-th entry of s come before it.
DepsBefore(s, k) ==
  \A m \in DOMAIN deps[s[k]] :
    \E l \in DOMAIN s : l < k /\ s[l].name = deps[s[k]][m]

Ordered(s) == \A k \in DOMAIN s : DepsBefore(s, k)

\* Every provider's topo ends with the target and puts the packages that an
\* entry lists before the entry, whichever order the merged closures came in
\* and whichever target each of them names the package by: the package action
\* unpacks and overlays the tars in that order, and the rootfs merges trees
\* built from it (_merge_topo: "topological union").
TopoOrdered ==
  \A t \in Target : Analysed(t) =>
    LET topo == info[t].topo IN
      /\ Len(topo) > 0
      /\ topo[Len(topo)] = t
      /\ Ordered(topo)

UniqueNames(s) == \A k, l \in DOMAIN s : s[k].name = s[l].name => k = l

Selected(s) == \A k \in DOMAIN s : s[k] = DepLabel(s[k].name)

\* The last render saw the native rules that the list names and that are there.
RenderIsCurrent == native \cap written = native \cap rendered

\* While the render is current, the topo of a target that the configuration
\* selects names each package once, and by the target that the configuration
\* selects for it: rendered and hand-written labels agree.
NoDoublePackage ==
  \A t \in Target : RenderIsCurrent /\ Analysed(t) /\ t = DepLabel(t.name) =>
    UniqueNames(info[t].topo) /\ Selected(info[t].topo)

ClosedUnderDeps(S) ==
  \A t \in S : \A k \in DOMAIN deps[t] : DepTarget(t, k) \in S

\* A provider holds nothing but the transitive dependencies: every set that
\* holds t and is closed under dependencies covers its topo.  (TopoOrdered
\* says nothing is missing.)  This is what lets a new package invalidate only
\* itself and the rootfs (rules.bzl, "Narrow inputs").
ClosureMinimal ==
  \A t \in Target : Analysed(t) =>
    \A S \in SUBSET Target :
      t \in S /\ ClosedUnderDeps(S) => Members(info[t].topo) \subseteq S

DirsOf(s) == {DirOf[s[k].name] : k \in DOMAIN s}

\* The directories a target shows to make are exactly those of the packages
\* of its closure, natives included: make must find the .mk of a dependency
\* to know it at all, and an unrelated directory must not enter the key.
ViewMatchesClosure ==
  \A t \in Target : Analysed(t) => info[t].dirs = DirsOf(info[t].topo)

LinksShown(t) == \A d \in info[t].dirs : LinksOf[d] \subseteq info[t].links

\* A view never names a file of a shown directory without the file its link
\* leads to: as long as a closure is wrapped, whatever else is native, the
\* links of every directory shown are shown.  (A native package passes on the
\* links of its dependencies and not its directory's own.)
WrappedLinksShown ==
  \A t \in Target :
    Analysed(t) /\ (\A x \in Members(info[t].topo) : x.kind = "wrapped") => LinksShown(t)

\* "Every other package [is] unchanged" by a native one: the view of a wrapped
\* package shows the links of every directory that it shows, whatever is native.
OthersUnchanged ==
  \A t \in Target : Analysed(t) /\ t.kind = "wrapped" => LinksShown(t)

\* "So a closure never contains the same package twice (once wrapped, once
\* native)" (br2_dep), whenever the project was last rendered: the targets
\* that a selected target depends on, through any number of others, have
\* different names.  (_merge_topo would keep whichever came first.)
ClosureNeverMixed ==
  \A t \in Target : Analysed(t) /\ t = DepLabel(t.name) =>
    \E S \in SUBSET Target :
      /\ t \in S
      /\ ClosedUnderDeps(S)
      /\ \A x, y \in S : x.name = y.name => x = y
=============================================================================
