------------------------------ MODULE Slicing -------------------------------
(***************************************************************************)
(* What a package action knows of the configuration, and the check of it.  *)
(* The slice keeps the lines of .config whose symbols the package may      *)
(* read, by where the symbols are declared and which of them make files    *)
(* name.  scripts/check-narrow.py then compares the make variables of the  *)
(* whole tree and configuration with those of a package's view and slice,  *)
(* and proposes directories to add to the view (extra_view).               *)
(*                                                                         *)
(* A make file is the variables it defines.  A variable's value is what it *)
(* is made of: the variables it expands to, and the assigned symbols these *)
(* read.  Each variable is defined in one directory.  Left out: variables  *)
(* that the check ignores by name, and views beyond directories (Views).   *)
(* No package is in another's directory, and a group's directory holds     *)
(* nothing but packages and files.                                         *)
(***************************************************************************)
EXTENDS Naturals, Sequences, SequencesExt

CONSTANTS
  Dir,         \* directories with make files or Config.in, as sequences of names
  Packages,    \* those of the packages
  Closure,     \* package -> those of its dependencies
  Symbol,
  Declared,    \* symbol -> the directories that declare it
  Selectors,   \* BR2_PACKAGE_PROVIDES_*, BR2_PACKAGE_HAS_*
  Prefix,      \* names that end with _
  StartsWith,  \* prefix -> the symbols
  AnySymbol,   \* the prefixes BR2_ and BR2_PACKAGE_
  Var,
  Owner,       \* variable -> the package whose prefix its name has, or None
  MakeFiles,   \* texts there may be: see Text
  MaxEdits,    \* bound: edits of the configuration and of make files
  None

Text == [Var -> [dir : Dir, reads : SUBSET Symbol, names : SUBSET (Symbol \cup Prefix), uses : SUBSET Var]]

\* Of extra_view.
Entries == {<<Tail(p), Tail(d)>> : p \in Packages, d \in Dir}

ASSUME SlicingAssumption ==
  /\ Packages \subseteq Dir
  /\ \A d \in Dir : d # <<>> /\ d \in Seq(Range(d))
  /\ Closure \in [Packages -> SUBSET Packages]
  /\ Declared \in [Symbol -> SUBSET Dir]
  /\ Selectors \subseteq Symbol
  /\ AnySymbol \subseteq Prefix
  /\ StartsWith \in [Prefix -> SUBSET Symbol]
  /\ Owner \in [Var -> Packages \cup {None}]
  /\ MakeFiles \subseteq Text
  /\ MaxEdits \in Nat

VARIABLES
  config,   \* symbol -> "assigned", "unset" (a comment line), "absent" (not visible)
  make,     \* the make files
  extra,    \* extra_view, pairs of directories without their tree
  passed,   \* the packages that have passed the check on the present files
  edits     \* so far

vars == <<config, make, extra, passed, edits>>

Tree(d) == d[1]

\* In a tree's package directory: everything else is infrastructure.
Scoped(d) == Len(d) > 2 /\ d[2] = "package"

Groups(d) == IF Scoped(d) THEN {SubSeq(d, 1, i) : i \in 3..Len(d) - 1} ELSE {}

\* outward_links, as far as directories with make files go.  The names of
\* extra_view are those of p's own tree.
Linked(x, p) ==
  Groups(p) \cup {<<Tree(p)>> \o e[2] : e \in {y \in x : y[1] = Tail(p)}}

Dirs(p) == Closure[p] \cup {p}

Links(x, p) == UNION {Linked(x, c) : c \in Dirs(p)}

------------------------------------------------------------------------------
(* slicing.py.  t is the text of the make files, dirs what the action's    *)
(* spec names.                                                             *)

Assigned(c) == {s \in Symbol : c[s] = "assigned"}

OwnNames(t, p) == UNION {t[v].names : v \in {w \in Var : t[w].dir = p}}

InfraRefs(t) == Symbol \cap UNION {t[v].names : v \in {w \in Var : ~Scoped(t[w].dir)}}

ScopeDirs(dirs) == dirs \cup UNION {Groups(d) : d \in dirs}

\* Mutant: what the dependencies' make files name as well.
KeptByClosure(t, dirs, p) ==
  LET names == UNION {OwnNames(t, d) : d \in dirs}
  IN  {s \in Symbol :
         \/ s \in Selectors \cup names \cup InfraRefs(t)
         \/ Declared[s] = {} \/ \E d \in Declared[s] : ~Scoped(d) \/ d \in ScopeDirs(dirs)
         \/ names \cap AnySymbol # {} \/ \E x \in names \cap Prefix : s \in StartsWith[x]}

\* make_keep.
Kept(t, dirs, p) ==
  LET names == OwnNames(t, p)
  IN  {s \in Symbol :
         \/ names \cap AnySymbol # {}
         \/ s \in Selectors
         \/ Declared[s] = {}
         \/ \E d \in Declared[s] : ~Scoped(d) \/ d \in ScopeDirs(dirs \cup {p})
         \/ s \in names \cup InfraRefs(t)
         \/ \E x \in names \cap Prefix : s \in StartsWith[x]}

\* slice_config: assignments only.
SliceOf(c, t, dirs, p) == Assigned(c) \cap Kept(t, dirs, p)

\* The slice of p's action.
Slice(p) == SliceOf(config, make, Dirs(p) \cup Links(extra, p), p)

------------------------------------------------------------------------------
(* Make, in a view of some directories and all infrastructure.             *)

\* A directory is shown with what is in it, packages aside.
Shows(e, d) ==
  IsPrefix(e, d) /\ ~ \E q \in Packages : IsStrictPrefix(e, q) /\ IsPrefix(q, d)

Visible(t, view) ==
  {v \in Var : Scoped(t[v].dir) => \E e \in view : Shows(e, t[v].dir)}

\* The visible variables that v expands to, itself among them.
Expands(t, visible, v) ==
  LET closed == {S \in SUBSET visible : v \in S /\ \A x \in S : t[x].uses \cap visible \subseteq S}
  IN  {w \in visible : \A S \in closed : w \in S}

Value(t, visible, symbols, v) ==
  LET parts == Expands(t, visible, v)
  IN  [vars |-> parts, symbols |-> symbols \cap UNION {t[w].reads : w \in parts}]

FullValue(v) == Value(make, Var, Assigned(config), v)

\* In p's action.
ActionView(p) == Visible(make, Dirs(p) \cup Links(extra, p))

ActionValue(p, v) == Value(make, ActionView(p), Slice(p), v)

------------------------------------------------------------------------------
(* check-narrow.py.                                                        *)

\* Its view has p's own links, its slice none.  It reads the golden build's
\* .config, which is taken to be the actions'.
CheckView(p) == Visible(make, Dirs(p) \cup Linked(extra, p))

\* br2-ns.sh finds a directory of extra_view missing.
CheckFails(p) == ~(Linked(extra, p) \subseteq Dir)

CheckValue(p, v) == Value(make, CheckView(p), SliceOf(config, make, Dirs(p), p), v)

\* Mutant: the dependencies' variables, and not the package's.
ComparedOthers(p) ==
  {v \in CheckView(p) : Owner[v] = None \/ Owner[v] \in Closure[p]}

Compared(p) ==
  {v \in CheckView(p) : Owner[v] = None \/ Owner[v] \in Dirs(p)}

Problems(p) == {v \in Compared(p) : CheckValue(p, v) # FullValue(v)}

\* Variables that p's make files mention and its view has not.
Hidden(p) ==
  (UNION {make[v].uses : v \in {w \in Var : make[w].dir = p}}) \ CheckView(p)

\* Mutant: package/*/*.mk only.
SuggestedTop(p) ==
  IF CheckFails(p) THEN {}
  ELSE {<<Tail(p), Tail(d)>> : d \in {make[v].dir : v \in Hidden(p)} \cap {e \in Dir : Len(e) = 3}}

\* Mutant: the names with their tree.
SuggestedWhole(p) ==
  IF CheckFails(p) THEN {}
  ELSE {<<Tail(p), d>> : d \in {make[v].dir : v \in Hidden(p)} \ Dirs(p)}

\* Where these are defined.
Suggested(p) ==
  IF CheckFails(p) THEN {}
  ELSE {<<Tail(p), Tail(d)>> : d \in {make[v].dir : v \in Hidden(p)} \ Dirs(p)}

Passes(p) == ~CheckFails(p) /\ Problems(p) = {}

\* Over all packages; with --apply it writes what it suggests.
CheckNarrow(apply) ==
  /\ extra' = IF apply THEN extra \cup UNION {Suggested(p) : p \in Packages} ELSE extra
  /\ passed' = IF extra' = extra THEN {p \in Packages : Passes(p)} ELSE {}
  /\ UNCHANGED <<config, make, edits>>

------------------------------------------------------------------------------
Init ==
  /\ config \in [Symbol -> {"assigned", "absent"}]
  /\ make \in MakeFiles
  /\ extra = {}
  /\ passed = {}
  /\ edits = 0

\* A line of .config comes, goes or becomes a comment.
Configure(s, x) ==
  /\ edits < MaxEdits
  /\ config[s] # x
  /\ config' = [config EXCEPT ![s] = x]
  /\ edits' = edits + 1
  /\ passed' = {}
  /\ UNCHANGED <<make, extra>>

EditMakeFiles(t) ==
  /\ edits < MaxEdits
  /\ make # t
  /\ make' = t
  /\ edits' = edits + 1
  /\ passed' = {}
  /\ UNCHANGED <<config, extra>>

Next ==
  \/ \E s \in Symbol, x \in {"assigned", "unset", "absent"} : Configure(s, x)
  \/ \E t \in MakeFiles : EditMakeFiles(t)
  \/ \E apply \in BOOLEAN : CheckNarrow(apply)

Spec == Init /\ [][Next]_vars

------------------------------------------------------------------------------
TypeOK ==
  /\ config \in [Symbol -> {"assigned", "unset", "absent"}]
  /\ make \in MakeFiles
  /\ extra \subseteq Entries
  /\ passed \subseteq Packages
  /\ edits \in 0..MaxEdits

\* "All narrowed views and config slices give the same make variables as the
\* full tree" (check-narrow's last line): in the action of a package that has
\* passed on these very files, its variables and the global ones that the
\* check has seen have the values they have without a view and a slice.  The
\* action's view and slice are not the check's.
PassedMeansSame ==
  \A p \in passed : \A v \in CheckView(p) :
    Owner[v] \in {p, None} => ActionValue(p, v) = FullValue(v)

\* "A config change reruns about thirty tiny slice actions, but a package
\* rebuilds only if its slice changed" (views-and-slices.md): a line that
\* comes or goes changes p's slice only if it is an assignment of a symbol
\* that is not declared by packages alone, or by one p depends on, a group
\* or a package named for it, or that p's make files or the infrastructure's
\* name.
MayConcern(s, p) ==
  \/ s \in Selectors \/ Declared[s] = {}
  \/ \E d \in Declared[s] :
       \/ ~Scoped(d)
       \/ \E c \in Dirs(p) : \E l \in {c} \cup Linked(extra, c) : d \in {l} \cup Groups(l)
  \/ \E v \in Var : /\ make[v].dir = p \/ ~Scoped(make[v].dir)
                    /\ \/ s \in make[v].names
                       \/ \E x \in make[v].names \cap Prefix : s \in StartsWith[x] \/ x \in AnySymbol

OnlyItsConcerns ==
  [][\A s \in Symbol, p \in Packages :
       config'[s] # config[s] /\ Slice(p)' # Slice(p)
       => "assigned" \in {config[s], config'[s]} /\ MayConcern(s, p)]_vars

\* "check-narrow.py --apply suggests and writes the entries it can prove"
\* (adding-a-project.md): a directory that an entry of it names is there, and
\* no check fails because an earlier one has written what it suggests.
WrittenEntriesExist == \A p \in Packages : ~CheckFails(p)

\* What an entry for d names in p's tree.
Namesake(p, d) == <<Tree(p)>> \o Tail(d)

\* check-narrow "suggests and writes the entries it can prove"
\* (adding-a-project.md): one run with --apply leaves no variable that a
\* package's make files mention out of its view, however deep in another
\* package's directory it is defined.  The exception: an entry has no tree,
\* so a definition in the other tree is looked for in the package's own.
\* Where that has no such directory the check of the package fails at every
\* run, it does not pass; where it has one (a group directory of the same
\* name, say), the entry shows another directory than the one meant.
HiddenReferencesFound ==
  [][CheckNarrow(TRUE) =>
       \A p \in Packages, v \in Var :
         v \in Hidden(p)' => \/ CheckFails(p)
                            \/ /\ Tree(make[v].dir) # Tree(p)
                               /\ CheckFails(p)' \/ Namesake(p, make[v].dir) \in Dir]_vars
=============================================================================
