---------------------------- MODULE SlicingProofs -----------------------------
(***************************************************************************)
(* A proof about Slicing for every set of packages, symbols, variables and *)
(* make files: what the check compares in its own view and slice holds in  *)
(* the action's, which are other ones.  The action's view and slice lie    *)
(* between the check's and the whole, and so does a variable's value.      *)
(***************************************************************************)
EXTENDS Slicing, SequenceTheorems, TLAPS

Inv == TypeOK /\ \A p \in passed : Passes(p)

------------------------------------------------------------------------------
\* What a variable expands to grows with the view.
LEMMA ExpandsGrows ==
  ASSUME NEW t, NEW small, NEW large, small \subseteq large, NEW v \in small
  PROVE  Expands(t, small, v) \subseteq Expands(t, large, v)
<1> SUFFICES ASSUME NEW w \in Expands(t, small, v) PROVE w \in Expands(t, large, v)
  OBVIOUS
<1>1. w \in large
  BY DEF Expands
<1>2. ASSUME NEW S \in SUBSET large, v \in S,
             \A x \in S : t[x].uses \cap large \subseteq S
      PROVE  w \in S
  <2> DEFINE T == S \cap small
  <2>1. T \in SUBSET small /\ v \in T
    BY <1>2
  <2>2. \A x \in T : t[x].uses \cap small \subseteq T
    BY <1>2
  <2>3. w \in T
    BY <2>1, <2>2 DEF Expands
  <2> QED
    BY <2>3
<1> QED
  BY <1>1, <1>2 DEF Expands

\* The value in a view and a slice that lie between those of the check and
\* the whole, where these two agree.
LEMMA ValueBetween ==
  ASSUME NEW t, NEW small, NEW middle, small \subseteq middle, middle \subseteq Var,
         NEW few, NEW some, NEW all, few \subseteq some, some \subseteq all,
         NEW v \in small, Value(t, small, few, v) = Value(t, Var, all, v)
  PROVE  Value(t, middle, some, v) = Value(t, Var, all, v)
<1>1. Expands(t, small, v) \subseteq Expands(t, middle, v)
  BY ExpandsGrows
<1>2. Expands(t, middle, v) \subseteq Expands(t, Var, v)
  BY ExpandsGrows
<1>3. Expands(t, small, v) = Expands(t, Var, v)
  BY DEF Value
<1>4. Expands(t, middle, v) = Expands(t, Var, v)
  BY <1>1, <1>2, <1>3
<1> DEFINE X == UNION {t[w].reads : w \in Expands(t, Var, v)}
<1>5. few \cap X = all \cap X
  BY <1>3 DEF Value
<1>6. some \cap X = all \cap X
  BY <1>5
<1> QED
  BY <1>4, <1>6 DEF Value

------------------------------------------------------------------------------
\* The action's view has the links of the whole closure, the check's only the
\* package's own.
LEMMA ViewBetween ==
  ASSUME NEW p \in Packages
  PROVE  CheckView(p) \subseteq ActionView(p) /\ ActionView(p) \subseteq Var
<1>1. Linked(extra, p) \subseteq Links(extra, p)
  BY DEF Links, Dirs
<1> QED
  BY <1>1 DEF CheckView, ActionView, Visible

\* The action's slice has the symbols of the linked directories as well.
LEMMA SliceBetween ==
  ASSUME NEW p \in Packages
  PROVE  SliceOf(config, make, Dirs(p), p) \subseteq Slice(p) /\ Slice(p) \subseteq Assigned(config)
<1> DEFINE few == Dirs(p)  some == Dirs(p) \cup Links(extra, p)
<1>1. ScopeDirs(few \cup {p}) \subseteq ScopeDirs(some \cup {p})
  BY DEF ScopeDirs
<1>2. Kept(make, few, p) \subseteq Kept(make, some, p)
  BY <1>1 DEF Kept
<1> QED
  BY <1>2 DEF SliceOf, Slice

\* A package that passes has in its action the values of the whole tree.
LEMMA PassesMeansSame ==
  ASSUME NEW p \in Packages, Passes(p), NEW v \in CheckView(p), Owner[v] \in {p, None}
  PROVE  ActionValue(p, v) = FullValue(v)
<1>1. v \in Compared(p)
  BY DEF Compared, Dirs
<1>2. CheckValue(p, v) = FullValue(v)
  BY <1>1 DEF Passes, Problems
<1> QED
  BY <1>2, ViewBetween, SliceBetween, ValueBetween DEF CheckValue, FullValue, ActionValue

------------------------------------------------------------------------------
LEMMA EditsBounded == MaxEdits \in Nat
BY SlicingAssumption

LEMMA InitInv == Init => Inv
<1> SUFFICES ASSUME Init PROVE Inv
  OBVIOUS
<1>1. TypeOK
  BY EditsBounded DEF Init, TypeOK
<1>2. passed = {}
  BY DEF Init
<1> QED
  BY <1>1, <1>2, Zenon DEF Inv

\* Whether a package passes is a matter of the files that the check reads.
LEMMA PassesStays ==
  ASSUME UNCHANGED <<config, make, extra>>, NEW p
  PROVE  Passes(p) => Passes(p)'
BY DEF Passes, CheckFails, Problems, Compared, CheckView, CheckValue, FullValue

LEMMA SuggestedType ==
  ASSUME TypeOK, NEW p \in Packages
  PROVE  Suggested(p) \subseteq Entries
<1>1. \A w \in Var : make[w].uses \subseteq Var /\ make[w].dir \in Dir
  BY SlicingAssumption DEF TypeOK, Text
<1>2. \A v \in Hidden(p) : make[v].dir \in Dir
  BY <1>1 DEF Hidden
<1> QED
  BY <1>2 DEF Suggested, Entries

LEMMA NextInv == Inv /\ [Next]_vars => Inv'
<1> SUFFICES ASSUME Inv, [Next]_vars PROVE Inv'
  OBVIOUS
<1>1. ASSUME NEW s \in Symbol, NEW x \in {"assigned", "unset", "absent"}, Configure(s, x)
      PROVE  Inv'
  <2>1. TypeOK'
    BY <1>1, EditsBounded DEF Inv, TypeOK, Configure
  <2>2. passed' = {}
    BY <1>1 DEF Configure
  <2> QED
    BY <2>1, <2>2, Zenon DEF Inv
<1>2. ASSUME NEW t \in MakeFiles, EditMakeFiles(t) PROVE Inv'
  <2>1. TypeOK'
    BY <1>2, EditsBounded DEF Inv, TypeOK, EditMakeFiles
  <2>2. passed' = {}
    BY <1>2 DEF EditMakeFiles
  <2> QED
    BY <2>1, <2>2, Zenon DEF Inv
<1>3. ASSUME NEW apply \in BOOLEAN, CheckNarrow(apply) PROVE Inv'
  <2>1. extra' \subseteq Entries
    BY <1>3, SuggestedType DEF CheckNarrow, Inv, TypeOK
  <2>2. TypeOK'
    BY <1>3, <2>1 DEF CheckNarrow, Inv, TypeOK
  <2>3. ASSUME NEW p \in passed' PROVE Passes(p)'
    <3>1. extra' = extra /\ Passes(p) /\ UNCHANGED <<config, make>>
      BY <1>3, <2>3 DEF CheckNarrow
    <3> QED
      BY <3>1, PassesStays
  <2> QED
    BY <2>2, <2>3 DEF Inv
<1>4. CASE UNCHANGED vars
  <2>1. TypeOK'
    BY <1>4 DEF Inv, TypeOK, vars
  <2>2. ASSUME NEW p \in passed' PROVE Passes(p)'
    BY <1>4, <2>2, PassesStays DEF Inv, vars
  <2> QED
    BY <2>1, <2>2 DEF Inv
<1> QED
  BY <1>1, <1>2, <1>3, <1>4 DEF Next

------------------------------------------------------------------------------
LEMMA KeptConcerns ==
  ASSUME NEW p \in Packages, NEW s \in Kept(make, Dirs(p) \cup Links(extra, p), p)
  PROVE  MayConcern(s, p)
<1> DEFINE dirs == Dirs(p) \cup Links(extra, p)
           names == OwnNames(make, p)
<1>1. CASE s \in Selectors \/ Declared[s] = {}
  BY <1>1 DEF MayConcern
<1>2. ASSUME NEW d \in Declared[s], ~Scoped(d) \/ d \in ScopeDirs(dirs \cup {p})
      PROVE  MayConcern(s, p)
  <2>1. CASE ~Scoped(d)
    BY <2>1, <1>2 DEF MayConcern
  <2>2. CASE d \in ScopeDirs(dirs \cup {p})
    <3>1. PICK l \in dirs : d \in {l} \cup Groups(l)
      BY <2>2 DEF ScopeDirs, Dirs
    <3>2. \E c \in Dirs(p) : l \in {c} \cup Linked(extra, c)
      BY <3>1 DEF Links
    <3> QED
      BY <3>1, <3>2, <1>2 DEF MayConcern
  <2> QED
    BY <1>2, <2>1, <2>2
<1>3. CASE names \cap AnySymbol # {} \/ s \in names \/ \E x \in names \cap Prefix : s \in StartsWith[x]
  <2>1. PICK x \in names : s = x \/ x \in AnySymbol \/ (x \in Prefix /\ s \in StartsWith[x])
    BY <1>3
  <2>2. PICK v \in Var : make[v].dir = p /\ x \in make[v].names
    BY DEF OwnNames
  <2>3. x \in AnySymbol => x \in Prefix
    BY SlicingAssumption
  <2> QED
    BY <2>1, <2>2, <2>3 DEF MayConcern
<1>4. CASE s \in InfraRefs(make)
  BY <1>4 DEF InfraRefs, MayConcern
<1> QED
  BY <1>1, <1>2, <1>3, <1>4 DEF Kept

LEMMA ConfigureConcerns ==
  ASSUME TypeOK, NEW y \in Symbol, NEW x, Configure(y, x),
         NEW s \in Symbol, NEW p \in Packages, config'[s] # config[s], Slice(p)' # Slice(p)
  PROVE  "assigned" \in {config[s], config'[s]} /\ MayConcern(s, p)
<1> DEFINE kept == Kept(make, Dirs(p) \cup Links(extra, p), p)
<1>1. s = y /\ \A z \in Symbol \ {s} : config'[z] = config[z]
  BY DEF Configure, TypeOK
<1>2. Slice(p) = Assigned(config) \cap kept
  BY DEF Slice, SliceOf
<1>3. Slice(p)' = Assigned(config') \cap kept
  BY DEF Slice, SliceOf, Configure
<1>4. s \in kept /\ "assigned" \in {config[s], config'[s]}
  BY <1>1, <1>2, <1>3 DEF Assigned
<1> QED
  BY <1>4, KeptConcerns

------------------------------------------------------------------------------
(* What --apply leaves hidden.                                             *)

LEMMA DirNames ==
  ASSUME NEW d \in Dir
  PROVE  d \in Seq(Range(d)) /\ Len(d) \in Nat \ {0}
<1>1. d # <<>> /\ d \in Seq(Range(d))
  BY SlicingAssumption
<1> QED
  BY <1>1, LenProperties, EmptySeq

\* A directory in the view is shown, whatever packages there are.
LEMMA ShowsItself ==
  ASSUME NEW d \in Dir
  PROVE  Shows(d, d)
<1>1. SubSeq(d, 1, Len(d)) = d
  BY DirNames, SubSeqFull
<1>2. IsPrefix(d, d)
  BY <1>1, DirNames DEF IsPrefix
<1>3. ASSUME NEW q \in Packages, IsStrictPrefix(d, q), IsPrefix(q, d) PROVE FALSE
  <2>1. q \in Dir
    BY SlicingAssumption
  <2>2. Len(d) = Len(q)
    BY <1>3, <2>1, DirNames DEF IsStrictPrefix, IsPrefix
  <2>3. SubSeq(q, 1, Len(q)) = q
    BY <2>1, DirNames, SubSeqFull
  <2> QED
    BY <1>1, <1>3, <2>2, <2>3 DEF IsStrictPrefix, IsPrefix
<1> QED
  BY <1>2, <1>3 DEF Shows

\* In p's own tree an entry names the directory that was meant.
LEMMA NamesakeIsIt ==
  ASSUME NEW p, NEW d \in Dir, Tree(d) = Tree(p)
  PROVE  Namesake(p, d) = d
<1>1. Tail(d) = SubSeq(d, 2, Len(d))
  BY DirNames, TailIsSubSeq, EmptySeq
<1>2. SubSeq(d, 1, Len(d)) = <<d[1]>> \o SubSeq(d, 1 + 1, Len(d))
  BY DirNames, SubSeqRecursiveFirst
<1>3. SubSeq(d, 1, Len(d)) = d
  BY DirNames, SubSeqFull
<1> QED
  BY <1>1, <1>2, <1>3 DEF Namesake, Tree

LEMMA HiddenBefore ==
  ASSUME TypeOK, CheckNarrow(TRUE), NEW p \in Packages, NEW v \in Hidden(p)'
  PROVE  v \in Hidden(p) /\ v \in Var /\ make[v].dir \in Dir /\ v \notin CheckView(p)'
<1>1. extra \subseteq extra' /\ make' = make
  BY DEF CheckNarrow
<1>2. CheckView(p) \subseteq CheckView(p)'
  BY <1>1 DEF CheckView, Visible, Linked
<1>3. \A w \in Var : make[w].uses \subseteq Var /\ make[w].dir \in Dir
  BY SlicingAssumption DEF TypeOK, Text
<1> QED
  BY <1>1, <1>2, <1>3 DEF Hidden

LEMMA ApplyFinds ==
  ASSUME TypeOK, CheckNarrow(TRUE), NEW p \in Packages, NEW v \in Hidden(p)', ~CheckFails(p)
  PROVE  /\ Tree(make[v].dir) # Tree(p)
         /\ CheckFails(p)' \/ Namesake(p, make[v].dir) \in Dir
<1> DEFINE d == make[v].dir
<1>1. v \in Hidden(p) /\ v \in Var /\ d \in Dir /\ v \notin CheckView(p)' /\ make' = make
  BY HiddenBefore DEF CheckNarrow
<1>2. d \notin Dirs(p) \cup Linked(extra', p)
  BY <1>1, ShowsItself DEF CheckView, Visible
<1>3. <<Tail(p), Tail(d)>> \in Suggested(p)
  BY <1>1, <1>2 DEF Suggested
<1>4. <<Tail(p), Tail(d)>> \in extra'
  BY <1>3 DEF CheckNarrow
<1>5. Namesake(p, d) \in Linked(extra', p)
  <2> DEFINE e == <<Tail(p), Tail(d)>>
  <2>1. e \in {y \in extra' : y[1] = Tail(p)}
    BY <1>4
  <2>2. <<Tree(p)>> \o e[2] \in Linked(extra', p)
    BY <2>1 DEF Linked
  <2>3. e[2] = Tail(d)
    OBVIOUS
  <2> HIDE DEF e
  <2> QED
    BY <2>2, <2>3 DEF Namesake
<1>6. Tree(d) # Tree(p)
  BY <1>1, <1>2, <1>5, NamesakeIsIt
<1>7. CheckFails(p)' \/ Namesake(p, d) \in Dir
  BY <1>5 DEF CheckFails
<1> QED
  BY <1>6, <1>7

------------------------------------------------------------------------------
\* Slicing's type invariant: what --apply writes are pairs of a package's and
\* a directory's names.
THEOREM SlicingType == Spec => []TypeOK
<1>1. Inv => TypeOK
  BY DEF Inv
<1> QED
  BY InitInv, NextInv, <1>1, PTL DEF Spec

\* What check-narrow.py says of a package on the present files is true of its
\* action, whose view and slice it has not run make in.
THEOREM VerdictHolds == Spec => []PassedMeansSame
<1>1. Inv => PassedMeansSame
  BY PassesMeansSame DEF Inv, TypeOK, PassedMeansSame
<1> QED
  BY InitInv, NextInv, <1>1, PTL DEF Spec

\* "A config change reruns about thirty tiny slice actions, but a package
\* rebuilds only if its slice changed" (views-and-slices.md): which changes
\* may rebuild a package.
THEOREM ConfigNarrow == Spec => OnlyItsConcerns
<1>1. Inv /\ [Next]_vars
      => [\A s \in Symbol, p \in Packages :
            config'[s] # config[s] /\ Slice(p)' # Slice(p)
            => "assigned" \in {config[s], config'[s]} /\ MayConcern(s, p)]_vars
  <2> SUFFICES ASSUME TypeOK, Next, NEW s \in Symbol, NEW p \in Packages,
                      config'[s] # config[s], Slice(p)' # Slice(p)
               PROVE  "assigned" \in {config[s], config'[s]} /\ MayConcern(s, p)
    BY DEF Inv
  <2>1. PICK y \in Symbol, x \in {"assigned", "unset", "absent"} : Configure(y, x)
    BY DEF Next, EditMakeFiles, CheckNarrow
  <2> QED
    BY <2>1, ConfigureConcerns
<1> QED
  BY InitInv, NextInv, <1>1, PTL DEF Spec, OnlyItsConcerns

\* check-narrow "suggests and writes the entries it can prove"
\* (adding-a-project.md): what a run with --apply leaves hidden of what a
\* package's make files mention is in the other tree.
THEOREM ApplyFindsAll == Spec => HiddenReferencesFound
<1>1. Inv /\ [Next]_vars
      => [CheckNarrow(TRUE) =>
            \A p \in Packages, v \in Var :
              v \in Hidden(p)' => \/ CheckFails(p)
                                 \/ /\ Tree(make[v].dir) # Tree(p)
                                    /\ CheckFails(p)' \/ Namesake(p, make[v].dir) \in Dir]_vars
  BY ApplyFinds DEF Inv
<1> QED
  BY InitInv, NextInv, <1>1, PTL DEF Spec, HiddenReferencesFound
=============================================================================
