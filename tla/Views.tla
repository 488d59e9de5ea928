------------------------------- MODULE Views --------------------------------
(***************************************************************************)
(* What a package action may read of a source tree.  The renderer writes   *)
(* two things about it into the BUCK files: the sources, which Buck2       *)
(* follows and a remote worker gets, and the entries that the action's     *)
(* mount namespace shows.  A local action is shown the checkout itself, so *)
(* the entries alone decide what it reads, and the sources alone decide    *)
(* what its key is made of.                                                *)
(*                                                                         *)
(* One tree, buildroot-src; buildroot-external differs in the names that   *)
(* are skipped.  A path is the sequence of its names.  Both lists are made *)
(* of the tree as it was at the last render; afterwards files come and go. *)
(* Left out: BUCK files (see Generate), links to links, downloads and      *)
(* common/, which are inputs of their own.                                 *)
(***************************************************************************)
EXTENDS Naturals, Sequences, SequencesExt

CONSTANTS
  Path,        \* the paths there may be
  Target,      \* path -> what it points at where it is a link: a path, or Abs
  Abs,         \* an absolute target
  FirstTrees,  \* trees to begin with: path -> "none", "file", "dir", "link"
  MayBe,       \* path -> what an edit may make of it
  Models,      \* [dirs: package directories, closure: directory -> those of its dependencies]
  ExtraViews,  \* pairs <<package directory, directory>> that project.json may name
  RootSkip,    \* top-level names that are never inputs
  InfraSkip,   \* top-level names that no package action reads
  MaxEdits,    \* bound: edits of the tree, the model and project.json
  None         \* before the first render

Kind == {"none", "file", "dir", "link"}

Root == <<>>
Pkg == <<"package">>

\* The directories above a path.
Above == [x \in Path |-> {d \in Path \cup {Root} : IsStrictPrefix(d, x)}]

Below(d, x) == d \in Above[x]

In(d, x) == x = d \/ Below(d, x)

\* With a path there are those above it; what is there is in directories.  The
\* links' targets are not links, and links, like files, have nothing below.
ASSUME ViewsAssumption ==
  /\ \A x \in Path : x # <<>> /\ x \in Seq(Range(x)) /\ (Len(x) > 1 => Front(x) \in Path)
  /\ \A k \in FirstTrees, x \in Path : k[x] # "none" => \A d \in Above[x] \ {Root} : k[d] = "dir"
  /\ Target \in [Path -> Path \cup {Abs}]
  /\ FirstTrees \subseteq [Path -> Kind]
  /\ MayBe \in [Path -> SUBSET Kind]
  /\ \A k \in FirstTrees, x \in Path :
       "link" \in MayBe[x] \cup {k[x]} /\ Target[x] # Abs =>
         "link" \notin MayBe[Target[x]] \cup {k[Target[x]]}
  /\ \A m \in Models : m.dirs \subseteq Path /\ m.closure \in [m.dirs -> SUBSET m.dirs]
  /\ ExtraViews \subseteq Path \X Path
  /\ MaxEdits \in Nat

\* A package's directory is the one that make found its make file in
\* (package_dir in the model); the edits here let these files be.
ASSUME MakeFilesStay ==
  \A m \in Models : \A d \in m.dirs : \E x \in Path :
    /\ Below(d, x) /\ Len(x) = Len(d) + 1
    /\ MayBe[x] \subseteq {"file"}
    /\ \A f \in FirstTrees : f[x] = "file"

VARIABLES
  kind,    \* path -> what is there now
  model,   \* golden/model.json
  extra,   \* project.json's extra_view
  drawn,   \* what the last render has written, or None: see Rendered
  edits    \* so far

vars == <<kind, model, extra, drawn, edits>>

Now == [kind |-> kind, model |-> model, extra |-> extra]

------------------------------------------------------------------------------
(* The renderer.  k is a tree, C the package directories, s all it reads.  *)

Under(k, d) == {x \in Path : k[x] # "none" /\ Below(d, x)}

Listdir(k, d) == {x \in Under(k, d) : Len(x) = Len(d) + 1}

UnsafeLink(k, x) == k[x] = "link" /\ (Target[x] = Abs \/ k[Target[x]] = "none")

IsDir(k, x) == k[x] = "dir" \/ (k[x] = "link" /\ ~UnsafeLink(k, x) /\ k[Target[x]] = "dir")

DanglingLinks(k, d) == {x \in Under(k, d) : UnsafeLink(k, x)}

\* os.walk has a link to a directory among the directories.
FileList(k, d) == {x \in Under(k, d) : ~IsDir(k, x) /\ ~UnsafeLink(k, x)}

Holds(C, d) == \E c \in C : Below(d, c)

\* The entries of d: directories whole, but a directory that holds a package
\* by its own entries, and, with dangling, one that holds an unsafe link by
\* its files.
InputEntries(k, C, d, dangling) ==
  LET reached == {x \in Under(k, d) : /\ d = Root => x[1] \notin RootSkip
                                      /\ \A a \in Path : Below(d, a) /\ Below(a, x) => a \notin C /\ Holds(C, a)}
      listed == {x \in reached : k[x] = "dir" => x \notin C /\ ~Holds(C, x)}
      byFile == {x \in listed : dangling /\ k[x] = "dir" /\ DanglingLinks(k, x) # {}}
  IN  (listed \ byFile) \cup UNION {FileList(k, x) : x \in byFile}

\* What a group directory shares with the packages below it.
Shared(s, d) == {x \in Listdir(s.kind, d) : x \notin s.model.dirs /\ ~Holds(s.model.dirs, x)}

\* Where links inside p lead to in other packages' directories.
LinkTargets(s, p) ==
  {Target[x] : x \in {y \in Under(s.kind, p) : /\ s.kind[y] = "link"
                                               /\ Target[y] # Abs
                                               /\ Below(Pkg, Target[y])
                                               /\ ~In(p, Target[y])}}

\* Mutant: extra_view and the group directories only.
OutwardLinksNamed(s, p) ==
  (UNION {Shared(s, a) : a \in {d \in Path : Below(Pkg, d) /\ Below(d, p)}})
  \cup UNION {IF Holds(s.model.dirs, o) THEN Shared(s, o) ELSE {o} :
                o \in {d \in Path : <<p, d>> \in s.extra}}

OutwardLinks(s, p) ==
  LinkTargets(s, p)
  \cup (UNION {Shared(s, a) : a \in {d \in Path : Below(Pkg, d) /\ Below(d, p)}})
  \cup UNION {IF Holds(s.model.dirs, o) THEN Shared(s, o) ELSE {o} :
                o \in {d \in Path : <<p, d>> \in s.extra}}

\* render_links: a package directory is a target of its own, and so is what
\* lies directly in one.
Owners(C, l) == {c \in C : In(c, l)}

RenderExits(s) ==
  \E p \in s.model.dirs : \E l \in OutwardLinks(s, p) :
    LET owners == Owners(s.model.dirs, l)
    IN  owners # {} /\ \A c \in owners : Len(l) > Len(c) + 1

\* export_file, for what links in other directories lead to.
Exports(s) ==
  {x \in Path :
     \/ s.kind[x] = "file"
     \/ s.kind[x] = "dir" /\ x \notin s.model.dirs /\ ~Holds(s.model.dirs, x) /\ DanglingLinks(s.kind, x) = {}}

\* Mutant: anything directly in package/.
InfraKeepPackages(k, x) ==
  /\ x[1] \notin InfraSkip
  /\ x[1] = "package" => Len(x) = 2

InfraKeep(k, x) ==
  /\ x[1] \notin InfraSkip
  /\ x[1] = "package" => Len(x) = 2 /\ ~IsDir(k, x)

\* Packages that are infrastructure.
Outside(C) == {c \in C : c[1] # "package" /\ c[1] \notin InfraSkip}

InfraEntries(s) ==
  {x \in InputEntries(s.kind, s.model.dirs, Root, FALSE) : InfraKeep(s.kind, x)} \cup Outside(s.model.dirs)

\* Mutant: as if only package directories held them.
InfraSymlinksNone(s) == {}

InfraSymlinks(s) == UNION {DanglingLinks(s.kind, e) : e \in InfraEntries(s)}

\* The BUCK files.
Rendered(s) ==
  [closure  |-> s.model.closure,
   inputs   |-> [p \in s.model.dirs |-> InputEntries(s.kind, s.model.dirs, p, TRUE)],
   links    |-> [p \in s.model.dirs |-> OutwardLinks(s, p)],
   symlinks |-> [p \in s.model.dirs |-> DanglingLinks(s.kind, p)],
   exports  |-> Exports(s),
   infra    |-> [srcs     |-> {x \in InputEntries(s.kind, s.model.dirs, Root, TRUE) : InfraKeep(s.kind, x)},
                 entries  |-> InfraEntries(s),
                 symlinks |-> InfraSymlinks(s)],
   was      |-> s.kind]      \* the tree, for the properties

------------------------------------------------------------------------------
(* p's action: the rule, view_entries, write_views and br2-ns.  r is what  *)
(* is rendered.                                                            *)

Packages(r) == DOMAIN r.closure

Dirs(r, p) == r.closure[p] \cup {p}

\* The package directories whose `inputs` p's own depend on, p's included.
Reach(r, p) ==
  {x \in Packages(r) :
     \A S \in SUBSET Packages(r) :
       p \in S /\ (\A y \in S : r.links[y] \cap Packages(r) \subseteq S) => x \in S}

\* The package directories whose inputs are the action's.
InputDirs(r, p) == UNION {Reach(r, d) : d \in Dirs(r, p) \cup Outside(Packages(r))}

\* Mutant: export_file copies, so that the file is not where the view expects it.
SourcesCopied(r, p) ==
  r.infra.srcs \cup
  UNION {r.inputs[d] \cup {l \in r.links[d] : Owners(Packages(r), l) = {}} : d \in InputDirs(r, p)}

Sources(r, p) ==
  r.infra.srcs \cup UNION {r.inputs[d] \cup (r.links[d] \ Packages(r)) : d \in InputDirs(r, p)}

Links(r, p) == UNION {r.links[d] : d \in Dirs(r, p)}

\* Links that are data, and made anew in an overlay.
Symlinks(r, p) == r.infra.symlinks \cup UNION {r.symlinks[d] : d \in Dirs(r, p)}

\* Entries below another are dropped.
ViewEntries(r, p) ==
  LET all == r.infra.entries \cup Dirs(r, p) \cup Links(r, p)
  IN  {e \in all : all \cap Above[e] = {}}

Shown(r, p) == LET entries == ViewEntries(r, p) IN {x \in Path : x \in entries \/ entries \cap Above[x] # {}}

Overlaid(r, p) == LET entries == ViewEntries(r, p) IN {x \in Symlinks(r, p) : entries \cap Above[x] # {}}

\* A worker's input root: the sources, with what is below and the way to them.
InputRoot(r, p, k) ==
  LET srcs == Sources(r, p)
      ways == UNION {Above[y] : y \in srcs}
  IN  {x \in Path : k[x] # "none" /\ (x \in srcs \cup ways \/ srcs \cap Above[x] # {})}

LocalView(r, p, k) == {x \in Shown(r, p) : k[x] # "none"} \cup Overlaid(r, p)

RemoteView(r, p, k) == (Shown(r, p) \cap InputRoot(r, p, k)) \cup Overlaid(r, p)

\* `br2 viewcheck --mode remote`, as far as br2-ns: every entry is there, or an
\* overlay is.
Viewcheck(r, p, k) ==
  ViewEntries(r, p) \subseteq InputRoot(r, p, k) \cup UNION {Above[x] : x \in Symlinks(r, p)}

\* Buck2 follows neither a source that is missing, nor an unsafe link, nor a
\* directory with one of these or with a package in it, and accepts no cycle
\* of targets.  What it does not accept it does not run.
Accepted(r, p, k) ==
  /\ \A x \in Sources(r, p) : /\ k[x] # "none"
                              /\ ~UnsafeLink(k, x)
                              /\ k[x] = "dir" => DanglingLinks(k, x) = {} /\ ~Holds(Packages(r), x)
  /\ \A d \in InputDirs(r, p) :
       /\ \A l \in r.links[d] \ Packages(r) : Owners(Packages(r), l) # {} => l \in r.exports
       /\ \A l \in r.links[d] \cap Packages(r) : d \notin Reach(r, l)

------------------------------------------------------------------------------
Init ==
  /\ kind \in FirstTrees
  /\ model \in {m \in Models : \A d \in m.dirs : kind[d] = "dir"}
  /\ extra = {}
  /\ drawn = None
  /\ edits = 0

Edit ==
  /\ edits < MaxEdits
  /\ edits' = edits + 1
  /\ UNCHANGED drawn

Create(x, to) ==
  /\ kind[x] = "none"
  /\ Len(x) > 1 => kind[Front(x)] = "dir"
  /\ kind' = [kind EXCEPT ![x] = to]
  /\ Edit
  /\ UNCHANGED <<model, extra>>

\* A file, a link or an empty directory goes.
Delete(x) ==
  /\ kind[x] # "none"
  /\ Under(kind, x) = {}
  /\ kind' = [kind EXCEPT ![x] = "none"]
  /\ Edit
  /\ UNCHANGED <<model, extra>>

\* `br2 extract` after a change of the configuration, before it renders.
Extract(m) ==
  /\ m # model
  /\ \A d \in m.dirs : kind[d] = "dir"
  /\ model' = m
  /\ Edit
  /\ UNCHANGED <<kind, extra>>

NameExtraView(v) ==
  /\ v \notin extra
  /\ extra' = extra \cup {v}
  /\ Edit
  /\ UNCHANGED <<kind, model>>

Render ==
  /\ ~RenderExits(Now)
  /\ drawn' = Rendered(Now)
  /\ UNCHANGED <<kind, model, extra, edits>>

Next ==
  \/ \E x \in Path : \E to \in MayBe[x] : IF to = "none" THEN Delete(x) ELSE Create(x, to)
  \/ \E m \in Models : Extract(m)
  \/ \E v \in ExtraViews : NameExtraView(v)
  \/ Render

Spec == Init /\ [][Next]_vars

------------------------------------------------------------------------------
TypeOK ==
  /\ kind \in [Path -> Kind]
  /\ model \in Models
  /\ extra \subseteq ExtraViews
  /\ drawn # None =>
       /\ Packages(drawn) \in {m.dirs : m \in Models}
       /\ \A p \in Packages(drawn) : drawn.inputs[p] \cup drawn.links[p] \cup drawn.symlinks[p] \subseteq Path
       /\ \A e \in drawn.infra.entries : e[1] = "package" => ~IsDir(drawn.was, e)
  /\ edits \in 0..MaxEdits

\* The packages that Buck2 can build now.
Buildable == IF drawn = None THEN {} ELSE {p \in Packages(drawn) : Accepted(drawn, p, kind)}

Names(X) == {x \in X : kind[x] \in {"file", "link"}}

(* What the code lets a local action see without declaring it.             *)

\* A package's directory inside one that is shown.
InNestedPackage(r, p, x) ==
  \E c \in Packages(r) \ InputDirs(r, p) : In(c, x) /\ ViewEntries(r, p) \cap Above[c] # {}

\* file_list leaves links to directories out.
LeftOutByFileList(r, x) ==
  /\ r.was[x] = "link" /\ IsDir(r.was, x)
  /\ \E d \in Above[x] : DanglingLinks(r.was, d) # {}

\* A file that has come since the render, where entries or files are listed.
NotListedYet(r, x) == r.was[x] \notin {"file", "link"}

\* A link that is data, in a package whose inputs are the action's by a link:
\* it is data for its own package only.
InLinkedPackage(r, p, x) ==
  /\ UnsafeLink(r.was, x)
  /\ \E c \in InputDirs(r, p) \ (Dirs(r, p) \cup Outside(Packages(r))) : Below(c, x)

\* The view makes the declared inputs true, "an undeclared read is ENOENT,
\* not a silently stale cache hit" (pkg_action.py): a local action is shown
\* nothing that is not declared, but for the four gaps above.
UndeclaredIsHidden ==
  \A p \in Buildable :
    \A x \in Names(LocalView(drawn, p, kind)) \ RemoteView(drawn, p, kind) :
      \/ InNestedPackage(drawn, p, x)
      \/ LeftOutByFileList(drawn, x)
      \/ NotListedYet(drawn, x)
      \/ InLinkedPackage(drawn, p, x)

\* As pkg_action.py has it, "an undeclared read is ENOENT", without the gaps:
\* what a local action is shown of the tree is what a worker is sent.
UndeclaredIsEnoent ==
  \A p \in Buildable : Names(LocalView(drawn, p, kind)) \subseteq RemoteView(drawn, p, kind)

\* "Every view entry is a declared input, and remote execution proves it"
\* (ADR-0014), for every package that Buck2 accepts.
EntriesAreDeclared == \A p \in Buildable : Viewcheck(drawn, p, kind)

InnerGap(r, d, t) ==
  \/ r.was[t] = "dir" /\ FileList(r.was, t) = {}
  \/ \E c \in Packages(r) : Below(d, c) /\ (In(c, t) \/ Below(t, c))

\* "A view that shows only the closure would leave such a link dangling"
\* (outward_links): a link in the directories of p's closure, which led into
\* another package's directory when the files were rendered, does so in the
\* view, on a worker too.  So does one within its own directory, but for those
\* to or around a package inside of it, and to a directory without a file,
\* which no list of sources keeps.
LinksLeadSomewhere ==
  \A p \in Buildable :
    LET view == RemoteView(drawn, p, kind)
    IN  \A d \in Dirs(drawn, p) : \A x \in {y \in view : kind[y] = "link"} :
          /\ Below(d, x)
          /\ drawn.was[x] = "link" /\ Target[x] # Abs /\ Below(Pkg, Target[x])
          /\ drawn.was[Target[x]] # "none"
          => \/ Target[x] \in view
             \/ In(d, Target[x]) /\ InnerGap(drawn, d, Target[x])
=============================================================================
