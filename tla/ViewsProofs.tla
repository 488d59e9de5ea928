---------------------------- MODULE ViewsProofs ------------------------------
(***************************************************************************)
(* Proofs about Views for every tree, every set of package directories and *)
(* any number of edits.                                                    *)
(*                                                                         *)
(* The invariant is about the two trees that a package action meets: the   *)
(* one there was at the last render, of which drawn is made, and the one   *)
(* there is now.  Both are trees that edits make of a first one (Sane),    *)
(* and that is all they have in common; the rest is a matter of what the   *)
(* renderer writes (Drawing) and what Buck2 accepts.                       *)
(*                                                                         *)
(* The lists of a directory are found from the top: what is below it and   *)
(* neither in nor around a package is below something listed (Covered),    *)
(* the shallowest directory on the way that holds no package.  So both     *)
(* lists have it, and they differ only where a directory goes by its files.*)
(***************************************************************************)
EXTENDS Views, SequenceTheorems, WellFoundedInduction, TLAPS

(* Paths.                                                                  *)

PathNames == UNION {Range(x) : x \in Path}

LEMMA PathSeqs ==
  /\ \A x \in Path : x \in Seq(PathNames) /\ Len(x) \in Nat \ {0} /\ x # Root
  /\ Root \in Seq(PathNames) /\ Len(Root) = 0 /\ Root \notin Path
<1>1. ASSUME NEW x \in Path PROVE x \in Seq(PathNames) /\ Len(x) \in Nat \ {0} /\ x # Root
  <2>1. x \in Seq(Range(x)) /\ x # <<>>
    BY ViewsAssumption
  <2>2. Range(x) \subseteq PathNames
    BY DEF PathNames
  <2>3. x \in Seq(PathNames)
    BY <2>1, <2>2, SeqMonotonic
  <2> QED
    BY <2>1, <2>3, EmptySeq DEF Root
<1>2. Root \in Seq(PathNames) /\ Len(Root) = 0
  BY EmptySeq DEF Root
<1> QED
  BY <1>1, <1>2

LEMMA PrefixIs ==
  ASSUME NEW S, NEW s \in Seq(S), NEW t \in Seq(S)
  PROVE  IsPrefix(s, t) <=> Len(s) <= Len(t) /\ \A i \in 1..Len(s) : s[i] = t[i]
<1>1. Len(s) \in Nat /\ Len(t) \in Nat
  BY LenProperties
<1>2. SubSeq(s, 1, Len(s)) = s
  BY SubSeqFull
<1> SUFFICES ASSUME Len(s) <= Len(t)
             PROVE  s = SubSeq(t, 1, Len(s)) <=> \A i \in 1..Len(s) : s[i] = t[i]
  BY <1>2 DEF IsPrefix
<1> DEFINE u == SubSeq(t, 1, Len(s))
<1>3. u \in Seq(S) /\ Len(u) = Len(s) /\ \A i \in 1..Len(s) : u[i] = t[i]
  BY <1>1, SubSeqProperties
<1> HIDE DEF u
<1>4. s = u <=> \A i \in 1..Len(s) : s[i] = u[i]
  BY <1>3, SeqEqual
<1> QED
  BY <1>3, <1>4 DEF u

LEMMA AboveIs ==
  ASSUME NEW x \in Path, NEW d
  PROVE  d \in Above[x] <=> /\ d \in Path \cup {Root}
                            /\ Len(d) < Len(x)
                            /\ \A i \in 1..Len(d) : d[i] = x[i]
<1>1. Above[x] = {e \in Path \cup {Root} : IsStrictPrefix(e, x)}
  BY DEF Above
<1>2. ASSUME NEW e \in Path \cup {Root}
      PROVE  IsStrictPrefix(e, x) <=> Len(e) < Len(x) /\ \A i \in 1..Len(e) : e[i] = x[i]
  <2>4. x \in Seq(PathNames) /\ Len(x) \in Nat
    BY PathSeqs
  <2>5. e \in Seq(PathNames) /\ Len(e) \in Nat
    <3>1. CASE e = Root
      BY <3>1, PathSeqs
    <3>2. CASE e \in Path
      BY <3>2, PathSeqs
    <3> QED
      BY <3>1, <3>2
  <2>1. e \in Seq(PathNames) /\ x \in Seq(PathNames) /\ Len(e) \in Nat /\ Len(x) \in Nat
    BY <2>4, <2>5
  <2>2. IsPrefix(e, x) <=> Len(e) <= Len(x) /\ \A i \in 1..Len(e) : e[i] = x[i]
    BY <2>1, PrefixIs
  <2>3. Len(e) = Len(x) /\ (\A i \in 1..Len(e) : e[i] = x[i]) => e = x
    BY <2>1, SeqEqual
  <2> QED
    BY <2>1, <2>2, <2>3 DEF IsStrictPrefix
<1> QED
  BY <1>1, <1>2

LEMMA AboveTrans ==
  ASSUME NEW x \in Path, NEW y \in Above[x], y # Root, NEW z \in Above[y]
  PROVE  z \in Above[x]
<1>1. y \in Path /\ Len(y) < Len(x) /\ \A i \in 1..Len(y) : y[i] = x[i]
  BY AboveIs
<1>2. z \in Path \cup {Root} /\ Len(z) < Len(y) /\ \A i \in 1..Len(z) : z[i] = y[i]
  BY <1>1, AboveIs
<1>3. Len(x) \in Nat /\ Len(y) \in Nat /\ Len(z) \in Nat
  BY <1>1, <1>2, PathSeqs
<1>4. Len(z) < Len(x) /\ \A i \in 1..Len(z) : z[i] = x[i]
  BY <1>1, <1>2, <1>3
<1> QED
  BY <1>2, <1>4, AboveIs

\* Two paths above a third, or it.
LEMMA Comparable ==
  ASSUME NEW x \in Path, NEW d \in Above[x] \cup {x}, NEW e \in Above[x] \cup {x}, d # Root, e # Root
  PROVE  d = e \/ d \in Above[e] \/ e \in Above[d]
<1>1. /\ d \in Path /\ Len(d) <= Len(x) /\ \A i \in 1..Len(d) : d[i] = x[i]
      /\ e \in Path /\ Len(e) <= Len(x) /\ \A i \in 1..Len(e) : e[i] = x[i]
  BY AboveIs, PathSeqs
<1>2. d \in Seq(PathNames) /\ e \in Seq(PathNames) /\ Len(d) \in Nat /\ Len(e) \in Nat
  BY <1>1, PathSeqs
<1>3. CASE Len(d) < Len(e)
  BY <1>1, <1>2, <1>3, AboveIs
<1>4. CASE Len(e) < Len(d)
  BY <1>1, <1>2, <1>4, AboveIs
<1>5. CASE Len(d) = Len(e)
  BY <1>1, <1>2, <1>5, SeqEqual
<1> QED
  BY <1>2, <1>3, <1>4, <1>5

LEMMA AboveFacts ==
  ASSUME NEW x \in Path, NEW d \in Above[x]
  PROVE  /\ d \in Path \cup {Root} /\ Len(d) < Len(x) /\ Len(d) \in Nat /\ Len(x) \in Nat /\ d # x
         /\ d # Root => d \in Path /\ d[1] = x[1]
<1>1. d \in Path \cup {Root} /\ Len(d) < Len(x) /\ \A i \in 1..Len(d) : d[i] = x[i]
  BY AboveIs
<1>2. Len(d) \in Nat /\ Len(x) \in Nat
  BY <1>1, PathSeqs
<1>3. d # Root => d \in Path /\ d[1] = x[1]
  BY <1>1, <1>2, PathSeqs
<1> QED
  BY <1>1, <1>2, <1>3

LEMMA FrontAbove ==
  ASSUME NEW x \in Path, Len(x) > 1
  PROVE  /\ Front(x) \in Path /\ Front(x) \in Above[x]
         /\ \A d \in Above[x] : d = Front(x) \/ d \in Above[Front(x)]
<1> DEFINE y == Front(x)
<1>1. y \in Path /\ x \in Seq(PathNames) /\ Len(x) \in Nat
  BY ViewsAssumption, PathSeqs
<1>2. y = SubSeq(x, 1, Len(x) - 1)
  BY DEF Front
<1>3. Len(y) = Len(x) - 1 /\ \A i \in 1..Len(x) - 1 : y[i] = x[i]
  BY <1>1, <1>2, SubSeqProperties
<1> HIDE DEF y
<1>4. y \in Above[x]
  BY <1>1, <1>3, AboveIs
<1>5. ASSUME NEW d \in Above[x], d # Root PROVE d = y \/ d \in Above[y]
  <2>1. d \in Path /\ Len(d) < Len(x)
    BY <1>5, AboveIs
  <2>2. d = y \/ d \in Above[y] \/ y \in Above[d]
    BY <1>1, <1>4, <1>5, PathSeqs, Comparable
  <2>3. y \notin Above[d]
    BY <1>1, <1>3, <2>1, PathSeqs, AboveIs
  <2> QED
    BY <2>2, <2>3
<1>6. Root \in Above[y]
  BY <1>1, PathSeqs, AboveIs
<1> QED
  BY <1>1, <1>4, <1>5, <1>6 DEF y

LEMMA RootAbove == \A x \in Path : Root \in Above[x]
BY PathSeqs, AboveIs

LEMMA LowestNat ==
  ASSUME NEW N, N \subseteq Nat, N # {}
  PROVE  \E n \in N : \A m \in N : n <= m
<1>1. IsWellFoundedOn(OpToRel(<, Nat), Nat)
  BY NatLessThanWellFounded
<1>2. PICK n \in N : \A m \in N : <<m, n>> \notin OpToRel(<, Nat)
  BY <1>1, WFMin
<1>3. \A m \in N : ~(m < n)
  BY <1>2 DEF OpToRel
<1> QED
  BY <1>3

\* Of some paths above a third one there is a shallowest and a deepest.
LEMMA Shallowest ==
  ASSUME NEW T \in SUBSET Path, T # {}
  PROVE  \E y \in T : \A z \in T : Len(y) <= Len(z)
<1> DEFINE N == {Len(y) : y \in T}
<1>1. N \subseteq Nat /\ N # {}
  BY PathSeqs
<1>2. PICK n \in N : \A m \in N : n <= m
  BY <1>1, LowestNat
<1> QED
  BY <1>2

LEMMA Deepest ==
  ASSUME NEW x \in Path, NEW T \in SUBSET (Path \cap (Above[x] \cup {x})), T # {}
  PROVE  \E y \in T : \A z \in T : Len(z) <= Len(y)
<1> DEFINE N == {Len(x) - Len(y) : y \in T}
<1>1. \A y \in T : Len(y) \in Nat /\ Len(y) <= Len(x) /\ Len(x) \in Nat
  BY AboveFacts, PathSeqs
<1>2. N \subseteq Nat /\ N # {}
  BY <1>1
<1>3. PICK n \in N : \A m \in N : n <= m
  BY <1>2, LowestNat
<1>4. PICK y \in T : n = Len(x) - Len(y)
  BY <1>3
<1>5. \A z \in T : Len(x) - Len(y) <= Len(x) - Len(z)
  BY <1>3, <1>4
<1> QED
  BY <1>1, <1>5

------------------------------------------------------------------------------
(* Trees.                                                                  *)

\* A tree that edits can make of a first one.
Sane(k) ==
  /\ k \in [Path -> Kind]
  /\ \A x \in Path : k[x] # "none" => \A d \in Above[x] \ {Root} : k[d] = "dir"
  /\ \E f \in FirstTrees : \A x \in Path : k[x] \in MayBe[x] \cup {f[x]}

MakeFileOf(d, x) ==
  /\ x \in Path /\ d \in Path /\ Below(d, x) /\ Len(x) = Len(d) + 1
  /\ \A k : Sane(k) => k[x] = "file" /\ k[d] = "dir"

LEMMA HasMakeFile ==
  ASSUME NEW m \in Models, NEW d \in m.dirs
  PROVE  \E x : MakeFileOf(d, x)
<1>1. PICK x \in Path : /\ Below(d, x) /\ Len(x) = Len(d) + 1
                        /\ MayBe[x] \subseteq {"file"}
                        /\ \A f \in FirstTrees : f[x] = "file"
  BY MakeFilesStay
<1>2. d \in Path /\ d # Root
  BY ViewsAssumption, PathSeqs
<1>3. ASSUME NEW k, Sane(k) PROVE k[x] = "file" /\ k[d] = "dir"
  <2>1. PICK f \in FirstTrees : \A y \in Path : k[y] \in MayBe[y] \cup {f[y]}
    BY <1>3 DEF Sane
  <2>2. k[x] = "file"
    BY <1>1, <2>1
  <2>3. k[x] # "none" /\ d \in Above[x] \ {Root}
    BY <1>1, <1>2, <2>2 DEF Below
  <2> QED
    BY <1>3, <2>2, <2>3 DEF Sane
<1> QED
  BY <1>1, <1>2, <1>3 DEF MakeFileOf

\* A link's target is no link.
LEMMA TargetNoLink ==
  ASSUME NEW k, Sane(k), NEW x \in Path, k[x] = "link", Target[x] # Abs
  PROVE  Target[x] \in Path /\ k[Target[x]] # "link"
<1>1. PICK f \in FirstTrees : \A y \in Path : k[y] \in MayBe[y] \cup {f[y]}
  BY DEF Sane
<1>2. Target[x] \in Path
  BY ViewsAssumption
<1>3. "link" \notin MayBe[Target[x]] \cup {f[Target[x]]}
  BY <1>1, ViewsAssumption
<1> QED
  BY <1>1, <1>2, <1>3

------------------------------------------------------------------------------
(* What is listed.                                                         *)

\* InputEntries, before directories with unsafe links become files.
Listed(k, C, d, x) ==
  /\ x \in Under(k, d)
  /\ d = Root => x[1] \notin RootSkip
  /\ \A a \in Path : Below(d, a) /\ Below(a, x) => a \notin C /\ Holds(C, a)
  /\ k[x] = "dir" => x \notin C /\ ~Holds(C, x)

ByFile(k, x) == k[x] = "dir" /\ DanglingLinks(k, x) # {}

LEMMA UnderPath ==
  ASSUME NEW k, NEW d
  PROVE  /\ Under(k, d) \subseteq Path
         /\ FileList(k, d) \subseteq Under(k, d)
         /\ DanglingLinks(k, d) \subseteq Under(k, d)
BY DEF Under, FileList, DanglingLinks

LEMMA EntriesWhole ==
  ASSUME NEW k, NEW C, NEW d
  PROVE  InputEntries(k, C, d, FALSE) = {x \in Path : Listed(k, C, d, x)}
<1>1. Under(k, d) \subseteq Path
  BY UnderPath
<1>2. InputEntries(k, C, d, FALSE) =
        {x \in {y \in Under(k, d) : /\ d = Root => y[1] \notin RootSkip
                                    /\ \A a \in Path : Below(d, a) /\ Below(a, y) => a \notin C /\ Holds(C, a)} :
           k[x] = "dir" => x \notin C /\ ~Holds(C, x)}
  BY DEF InputEntries
<1> QED
  BY <1>1, <1>2 DEF Listed

LEMMA EntriesByFile ==
  ASSUME NEW k, NEW C, NEW d
  PROVE  InputEntries(k, C, d, TRUE) =
           {x \in Path : Listed(k, C, d, x) /\ ~ByFile(k, x)}
             \cup UNION {FileList(k, x) : x \in {y \in Path : Listed(k, C, d, y) /\ ByFile(k, y)}}
<1>1. Under(k, d) \subseteq Path
  BY UnderPath
<1> DEFINE R == {y \in Under(k, d) : /\ d = Root => y[1] \notin RootSkip
                                     /\ \A a \in Path : Below(d, a) /\ Below(a, y) => a \notin C /\ Holds(C, a)}
           L == {x \in R : k[x] = "dir" => x \notin C /\ ~Holds(C, x)}
           B == {x \in L : k[x] = "dir" /\ DanglingLinks(k, x) # {}}
<1>2. InputEntries(k, C, d, TRUE) = (L \ B) \cup UNION {FileList(k, x) : x \in B}
  BY DEF InputEntries
<1>3. L = {x \in Path : Listed(k, C, d, x)}
  BY <1>1 DEF Listed
<1>4. B = {x \in Path : Listed(k, C, d, x) /\ ByFile(k, x)}
  BY <1>3 DEF ByFile
<1>5. L \ B = {x \in Path : Listed(k, C, d, x) /\ ~ByFile(k, x)}
  BY <1>3, <1>4
<1> HIDE DEF L, B
<1> QED
  BY <1>2, <1>4, <1>5

\* The make file is listed.
LEMMA MakeFileListed ==
  ASSUME NEW k, Sane(k), NEW C, NEW d, NEW x, MakeFileOf(d, x)
  PROVE  x \in InputEntries(k, C, d, TRUE) /\ d \in Above[x]
<1>1. x \in Path /\ d \in Path /\ d \in Above[x] /\ Len(x) = Len(d) + 1 /\ k[x] = "file" /\ d # Root
  BY PathSeqs DEF MakeFileOf, Below
<1>2. ASSUME NEW a \in Path, Below(d, a), Below(a, x) PROVE FALSE
  <2>1. Len(d) < Len(a) /\ Len(a) < Len(x) /\ Len(a) \in Nat /\ Len(d) \in Nat
    BY <1>1, <1>2, AboveFacts DEF Below
  <2> QED
    BY <1>1, <2>1
<1>3. Listed(k, C, d, x) /\ ~ByFile(k, x)
  BY <1>1, <1>2 DEF Listed, ByFile, Under, Below
<1> QED
  BY <1>1, <1>3, EntriesByFile

\* What is below d, and neither a package's nor around one, is below what is
\* listed of d.
LEMMA Covered ==
  ASSUME NEW k, Sane(k), NEW C, NEW d \in Path, NEW x \in Under(k, d),
         \A c \in C : Below(d, c) => ~In(c, x),
         ~Holds(C, x)
  PROVE  \E y \in Path : Listed(k, C, d, y) /\ In(y, x)
<1>1. x \in Path /\ k[x] # "none" /\ d \in Above[x] /\ d # Root
  BY PathSeqs DEF Under, Below
<1> DEFINE T == {y \in Path : Below(d, y) /\ In(y, x) /\ ~Holds(C, y)}
<1>2. x \in T
  BY <1>1 DEF Below, In
<1>3. PICK y \in T : \A z \in T : Len(y) <= Len(z)
  BY <1>2, Shallowest
<1>4. k[y] # "none"
  <2>1. CASE y = x
    BY <1>1, <2>1
  <2>2. CASE y \in Above[x]
    <3>1. y # Root
      BY <1>3, PathSeqs
    <3> QED
      BY <1>1, <2>2, <3>1 DEF Sane
  <2> QED
    BY <1>3, <2>1, <2>2 DEF In, Below
<1>5. ASSUME NEW a \in Path, Below(d, a), Below(a, y) PROVE a \notin C /\ Holds(C, a)
  <2>1. a \in Above[x]
    BY <1>1, <1>3, <1>5, AboveTrans, PathSeqs DEF In, Below
  <2>2. a \notin C
    BY <1>5, <2>1 DEF In, Below
  <2>3. Len(a) < Len(y) /\ Len(a) \in Nat /\ Len(y) \in Nat
    BY <1>3, <1>5, AboveFacts DEF Below
  <2>4. a \notin T
    BY <1>3, <2>3
  <2> QED
    BY <1>5, <2>1, <2>2, <2>4 DEF In, Below
<1>6. y \notin C
  BY <1>3
<1> QED
  BY <1>1, <1>3, <1>4, <1>5, <1>6 DEF Listed, Under

------------------------------------------------------------------------------
(* What is rendered, and what an action has of it.                         *)

State(s) == Sane(s.kind) /\ s.model \in Models /\ s.extra \subseteq ExtraViews

\* r is what a render of s has written.
Drawing(s, r) ==
  /\ Packages(r) = s.model.dirs /\ r.closure = s.model.closure /\ r.was = s.kind
  /\ \A d \in s.model.dirs : /\ r.inputs[d] = InputEntries(s.kind, s.model.dirs, d, TRUE)
                             /\ r.links[d] = OutwardLinks(s, d)
                             /\ r.symlinks[d] = DanglingLinks(s.kind, d)
  /\ r.infra.srcs = {x \in InputEntries(s.kind, s.model.dirs, Root, TRUE) : InfraKeep(s.kind, x)}
  /\ r.infra.entries = InfraEntries(s)
  /\ r.infra.symlinks = InfraSymlinks(s)

LEMMA ModelDirs ==
  ASSUME NEW m \in Models
  PROVE  m.dirs \subseteq Path /\ m.closure \in [m.dirs -> SUBSET m.dirs]
BY ViewsAssumption

LEMMA RenderedIs ==
  ASSUME NEW s, State(s)
  PROVE  Drawing(s, Rendered(s))
<1>1. DOMAIN s.model.closure = s.model.dirs
  BY ModelDirs DEF State
<1> QED
  BY <1>1 DEF Drawing, Rendered, Packages

LEMMA LinksPaths ==
  ASSUME NEW s, State(s), NEW p
  PROVE  OutwardLinks(s, p) \subseteq Path
<1>1. LinkTargets(s, p) \subseteq Path
  BY ViewsAssumption, UnderPath DEF LinkTargets
<1>2. \A a : Shared(s, a) \subseteq Path
  BY UnderPath DEF Shared, Listdir
<1>3. \A o \in {d \in Path : <<p, d>> \in s.extra} : (IF Holds(s.model.dirs, o) THEN Shared(s, o) ELSE {o}) \subseteq Path
  BY <1>2
<1> QED
  BY <1>1, <1>2, <1>3 DEF OutwardLinks

LEMMA EntriesPaths ==
  ASSUME NEW k, NEW C, NEW d
  PROVE  InputEntries(k, C, d, TRUE) \subseteq Path /\ InputEntries(k, C, d, FALSE) \subseteq Path
<1>1. InputEntries(k, C, d, FALSE) \subseteq Path
  BY EntriesWhole
<1> DEFINE L == {y \in Path : Listed(k, C, d, y) /\ ByFile(k, y)}
<1>2. \A x : FileList(k, x) \subseteq Path
  BY UnderPath
<1>3. UNION {FileList(k, x) : x \in L} \subseteq Path
  BY <1>2
<1>4. InputEntries(k, C, d, TRUE) = {x \in Path : Listed(k, C, d, x) /\ ~ByFile(k, x)} \cup UNION {FileList(k, x) : x \in L}
  BY EntriesByFile
<1> HIDE DEF L
<1>5. InputEntries(k, C, d, TRUE) \subseteq Path
  BY <1>3, <1>4
<1> QED
  BY <1>1, <1>5

LEMMA Reached ==
  ASSUME NEW s, State(s), NEW r, Drawing(s, r), NEW p \in Packages(r)
  PROVE  /\ p \in Dirs(r, p) /\ Dirs(r, p) \subseteq InputDirs(r, p)
         /\ Outside(Packages(r)) \subseteq InputDirs(r, p)
         /\ InputDirs(r, p) \subseteq Packages(r)
         /\ \A d \in InputDirs(r, p) : r.links[d] \cap Packages(r) \subseteq InputDirs(r, p)
<1>1. Dirs(r, p) \subseteq Packages(r) /\ p \in Dirs(r, p)
  BY ModelDirs DEF State, Drawing, Dirs
<1>2. \A d \in Packages(r) : d \in Reach(r, d) /\ Reach(r, d) \subseteq Packages(r)
  BY DEF Reach
<1>3. Outside(Packages(r)) \subseteq Packages(r)
  BY DEF Outside
<1>4. ASSUME NEW d \in InputDirs(r, p), NEW l \in r.links[d] \cap Packages(r)
      PROVE  l \in InputDirs(r, p)
  <2>1. PICK b \in Dirs(r, p) \cup Outside(Packages(r)) : d \in Reach(r, b)
    BY DEF InputDirs
  <2>2. l \in Reach(r, b)
    BY <2>1 DEF Reach
  <2> QED
    BY <2>1, <2>2 DEF InputDirs
<1> QED
  BY <1>1, <1>2, <1>3, <1>4 DEF InputDirs

LEMMA SourcesOf ==
  ASSUME NEW s, State(s), NEW r, Drawing(s, r), NEW p \in Packages(r)
  PROVE  /\ Sources(r, p) \subseteq Path
         /\ r.infra.srcs \subseteq Sources(r, p)
         /\ \A d \in InputDirs(r, p) : /\ r.inputs[d] \subseteq Sources(r, p)
                                       /\ r.links[d] \ Packages(r) \subseteq Sources(r, p)
<1>1. ASSUME NEW d \in InputDirs(r, p) PROVE r.inputs[d] \subseteq Path /\ r.links[d] \subseteq Path
  <2>1. d \in s.model.dirs
    BY Reached DEF Drawing
  <2>2. r.inputs[d] = InputEntries(s.kind, s.model.dirs, d, TRUE) /\ r.links[d] = OutwardLinks(s, d)
    BY <2>1 DEF Drawing
  <2> QED
    BY <2>2, LinksPaths, EntriesPaths
<1>2. r.infra.srcs \subseteq Path
  BY EntriesPaths DEF Drawing
<1> QED
  BY <1>1, <1>2 DEF Sources

\* What is, or is below, or is above a source, a worker gets.
LEMMA SourceInRoot ==
  ASSUME NEW s, State(s), NEW r, Drawing(s, r), NEW p \in Packages(r),
         NEW k, Sane(k), Accepted(r, p, k), NEW y \in Sources(r, p)
  PROVE  /\ y \in Path /\ k[y] # "none"
         /\ \A x \in Path : In(y, x) /\ k[x] # "none" => x \in InputRoot(r, p, k)
         /\ \A x \in Path : x \in Above[y] => x \in InputRoot(r, p, k) /\ k[x] = "dir"
<1>1. y \in Path /\ k[y] # "none"
  BY SourcesOf DEF Accepted
<1>2. ASSUME NEW x \in Path, In(y, x), k[x] # "none" PROVE x \in InputRoot(r, p, k)
  BY <1>2 DEF InputRoot, In, Below
<1>3. ASSUME NEW x \in Path, x \in Above[y] PROVE x \in InputRoot(r, p, k) /\ k[x] = "dir"
  <2>1. k[x] = "dir"
    BY <1>1, <1>3, PathSeqs DEF Sane
  <2> QED
    BY <1>3, <2>1 DEF InputRoot
<1> QED
  BY <1>1, <1>2, <1>3

\* So are the package directories whose inputs are the action's.
LEMMA PackageInRoot ==
  ASSUME NEW s, State(s), NEW r, Drawing(s, r), NEW p \in Packages(r),
         NEW k, Sane(k), Accepted(r, p, k), NEW d \in InputDirs(r, p)
  PROVE  d \in Path /\ d \in InputRoot(r, p, k) /\ k[d] = "dir"
<1>1. d \in s.model.dirs /\ s.model \in Models /\ Sane(s.kind)
  BY Reached DEF Drawing, State
<1>2. PICK x : MakeFileOf(d, x)
  BY <1>1, HasMakeFile
<1>3. x \in r.inputs[d] /\ d \in Above[x]
  <2>1. r.inputs[d] = InputEntries(s.kind, s.model.dirs, d, TRUE)
    BY <1>1 DEF Drawing
  <2>2. x \in InputEntries(s.kind, s.model.dirs, d, TRUE) /\ d \in Above[x]
    BY <1>1, <1>2, MakeFileListed
  <2> QED
    BY <2>1, <2>2
<1>4. x \in Sources(r, p)
  BY <1>3, SourcesOf
<1>5. d \in Path /\ k[d] = "dir"
  BY <1>2 DEF MakeFileOf
<1> QED
  BY <1>3, <1>4, <1>5, SourceInRoot

\* All entries, before those below others are dropped.
AllEntries(r, p) == r.infra.entries \cup Dirs(r, p) \cup Links(r, p)

LEMMA AllPaths ==
  ASSUME NEW s, State(s), NEW r, Drawing(s, r), NEW p \in Packages(r)
  PROVE  AllEntries(r, p) \subseteq Path
<1>1. Packages(r) \subseteq Path /\ Dirs(r, p) \subseteq Packages(r)
  BY ModelDirs, Reached DEF State, Drawing
<1>2. InfraEntries(s) \subseteq Path
  <2>1. s.model.dirs \subseteq Path
    BY ModelDirs DEF State
  <2>2. InputEntries(s.kind, s.model.dirs, Root, FALSE) \subseteq Path
    BY EntriesPaths
  <2> QED
    BY <2>1, <2>2 DEF InfraEntries, Outside
<1>3. ASSUME NEW d \in Dirs(r, p) PROVE r.links[d] \subseteq Path
  <2>1. d \in s.model.dirs
    BY <1>1 DEF Drawing
  <2>2. r.links[d] = OutwardLinks(s, d)
    BY <2>1 DEF Drawing
  <2> QED
    BY <2>2, LinksPaths
<1> QED
  BY <1>1, <1>2, <1>3 DEF AllEntries, Links, Drawing

\* What is dropped is shown with the entry above it.
LEMMA ShownBelow ==
  ASSUME NEW s, State(s), NEW r, Drawing(s, r), NEW p \in Packages(r),
         NEW e \in AllEntries(r, p), NEW x \in Path, In(e, x)
  PROVE  /\ \E v \in ViewEntries(r, p) : In(v, x) /\ In(v, e)
         /\ x \in Shown(r, p)
<1>1. e \in Path
  BY AllPaths
<1> DEFINE T == AllEntries(r, p) \cap (Above[e] \cup {e})
<1>2. T \in SUBSET Path /\ e \in T
  BY <1>1, AllPaths
<1>3. PICK v \in T : \A z \in T : Len(v) <= Len(z)
  BY <1>2, Shallowest
<1>4. AllEntries(r, p) \cap Above[v] = {}
  <2> SUFFICES ASSUME NEW z \in AllEntries(r, p), z \in Above[v] PROVE FALSE
    OBVIOUS
  <2>1. v \in Path /\ v # Root
    BY <1>2, <1>3, PathSeqs
  <2>2. z \in Above[e]
    BY <1>1, <1>3, <2>1, AboveTrans
  <2>3. Len(z) < Len(v) /\ Len(z) \in Nat /\ Len(v) \in Nat
    BY <2>1, AboveFacts
  <2>4. Len(v) <= Len(z)
    BY <1>3, <2>2
  <2> QED
    BY <2>3, <2>4
<1>5. v \in ViewEntries(r, p)
  BY <1>3, <1>4 DEF ViewEntries, AllEntries
<1>6. In(v, e) /\ In(v, x)
  <2>1. v \in Above[e] \cup {e} /\ e # Root
    BY <1>1, <1>3, PathSeqs
  <2>2. e \in Above[x] \cup {x}
    BY DEF In, Below
  <2>3. v \in Above[x] \cup {x}
    BY <2>1, <2>2, AboveTrans
  <2> QED
    BY <2>1, <2>3 DEF In, Below
<1>7. x \in Shown(r, p)
  BY <1>5, <1>6 DEF Shown, In, Below
<1> QED
  BY <1>5, <1>6, <1>7

LEMMA ViewEntriesOf ==
  ASSUME NEW r, NEW p
  PROVE  ViewEntries(r, p) \subseteq AllEntries(r, p)
BY DEF ViewEntries, AllEntries

\* p's action has r's render of s, and Buck2 accepts the tree k for it.
Runs(s, r, p, k) ==
  /\ State(s) /\ Drawing(s, r) /\ p \in Packages(r)
  /\ Sane(k) /\ Accepted(r, p, k)

\* An entry of the infrastructure by its list.
ListedForAll(s, e) ==
  /\ Listed(s.kind, s.model.dirs, Root, e) /\ InfraKeep(s.kind, e) /\ e \in InfraEntries(s)

LEMMA EntryKinds ==
  ASSUME NEW s, NEW r, NEW p, NEW k, Runs(s, r, p, k), NEW e \in AllEntries(r, p)
  PROVE  /\ e \in Path
         /\ e \in InputDirs(r, p) \/ e \in Sources(r, p) \/ ListedForAll(s, e)
<1> USE DEF Runs
<1>1. e \in Path
  BY AllPaths
<1>2. CASE e \in r.infra.entries
  <2>1. e \in InfraEntries(s)
    BY <1>2 DEF Drawing
  <2>2. CASE e \in Outside(s.model.dirs)
    BY <1>1, <2>2, Reached DEF Drawing
  <2>3. CASE e \in InputEntries(s.kind, s.model.dirs, Root, FALSE) /\ InfraKeep(s.kind, e)
    BY <1>1, <2>1, <2>3, EntriesWhole DEF ListedForAll
  <2> QED
    BY <2>1, <2>2, <2>3 DEF InfraEntries
<1>3. CASE e \in Dirs(r, p)
  BY <1>1, <1>3, Reached
<1>4. CASE e \in Links(r, p)
  <2>1. PICK d \in Dirs(r, p) : e \in r.links[d]
    BY <1>4 DEF Links
  <2>2. d \in InputDirs(r, p)
    BY Reached
  <2>3. CASE e \in Packages(r)
    BY <1>1, <2>1, <2>2, <2>3, Reached
  <2>4. CASE e \notin Packages(r)
    BY <1>1, <2>1, <2>2, <2>4, SourcesOf
  <2> QED
    BY <2>3, <2>4
<1> QED
  BY <1>2, <1>3, <1>4 DEF AllEntries

\* What the infrastructure's list has of an entry.
LEMMA InfraFiles ==
  ASSUME NEW s, NEW r, NEW p, NEW k, Runs(s, r, p, k), NEW e \in Path, ListedForAll(s, e)
  PROVE  /\ ~ByFile(s.kind, e) => e \in Sources(r, p)
         /\ ByFile(s.kind, e) => FileList(s.kind, e) \subseteq Sources(r, p)
         /\ DanglingLinks(s.kind, e) \subseteq Symlinks(r, p)
<1> USE DEF Runs
<1> DEFINE I == InputEntries(s.kind, s.model.dirs, Root, TRUE)
<1>1. \A x \in I : InfraKeep(s.kind, x) => x \in Sources(r, p)
  BY SourcesOf DEF Drawing
<1>2. ASSUME ~ByFile(s.kind, e) PROVE e \in Sources(r, p)
  <2>1. e \in I
    BY <1>2, EntriesByFile DEF ListedForAll
  <2> QED
    BY <1>1, <2>1 DEF ListedForAll
<1>3. ASSUME ByFile(s.kind, e), NEW x \in FileList(s.kind, e) PROVE x \in Sources(r, p)
  <2>1. x \in UNION {FileList(s.kind, y) : y \in {z \in Path : Listed(s.kind, s.model.dirs, Root, z) /\ ByFile(s.kind, z)}}
    BY <1>3 DEF ListedForAll
  <2>2. x \in I
    BY <2>1, EntriesByFile
  <2>3. x \in Path /\ e \in Above[x] /\ e # Root
    BY PathSeqs DEF FileList, Under, Below
  <2>4. x[1] = e[1]
    BY <2>3, AboveFacts
  <2>5. IsDir(s.kind, e)
    BY <1>3 DEF ByFile, IsDir
  <2>6. InfraKeep(s.kind, x)
    BY <2>4, <2>5 DEF ListedForAll, InfraKeep
  <2> QED
    BY <1>1, <2>2, <2>6
<1>4. DanglingLinks(s.kind, e) \subseteq InfraSymlinks(s)
  BY DEF InfraSymlinks, ListedForAll
<1> QED
  BY <1>2, <1>3, <1>4 DEF Symlinks, Drawing

\* Every entry is declared.
LEMMA EntryDeclared ==
  ASSUME NEW s, NEW r, NEW p, NEW k, Runs(s, r, p, k), NEW e \in AllEntries(r, p)
  PROVE  e \in InputRoot(r, p, k) \cup UNION {Above[x] : x \in Symlinks(r, p)}
<1> USE DEF Runs
<1>1. e \in Path
  BY EntryKinds
<1>2. CASE e \in InputDirs(r, p)
  BY <1>2, PackageInRoot
<1>3. CASE e \in Sources(r, p)
  BY <1>3, SourceInRoot DEF In
<1>4. CASE ListedForAll(s, e)
  <2>1. CASE ~ByFile(s.kind, e)
    <3>1. e \in Sources(r, p)
      BY <1>1, <1>4, <2>1, InfraFiles
    <3> QED
      BY <3>1, SourceInRoot DEF In
  <2>2. CASE ByFile(s.kind, e)
    <3>1. PICK x \in DanglingLinks(s.kind, e) : TRUE
      BY <2>2 DEF ByFile
    <3>2. x \in Symlinks(r, p) /\ e \in Above[x]
      BY <1>1, <1>4, <3>1, InfraFiles DEF DanglingLinks, Under, Below
    <3> QED
      BY <3>2
  <2> QED
    BY <2>1, <2>2
<1> QED
  BY <1>2, <1>3, <1>4, EntryKinds

LEMMA ViewIsDeclared ==
  ASSUME NEW s, NEW r, NEW p, NEW k, Runs(s, r, p, k)
  PROVE  Viewcheck(r, p, k)
BY EntryDeclared, ViewEntriesOf DEF Viewcheck

------------------------------------------------------------------------------
(* What is shown without being declared.                                   *)

Undeclared(r, p, k, x) ==
  /\ x \in Path /\ k[x] \in {"file", "link"} /\ r.was[x] \in {"file", "link"}
  /\ x \notin InputRoot(r, p, k) /\ x \notin Overlaid(r, p)

\* It is neither a source nor below one.
LEMMA NotASource ==
  ASSUME NEW s, NEW r, NEW p, NEW k, Runs(s, r, p, k), NEW x, Undeclared(r, p, k, x),
         NEW y \in Sources(r, p)
  PROVE  ~In(y, x)
BY SourceInRoot DEF Runs, Undeclared

\* In a package's directory that is shown.
LEMMA UndeclaredInPackage ==
  ASSUME NEW s, NEW r, NEW p, NEW k, Runs(s, r, p, k),
         NEW x, Undeclared(r, p, k, x), NEW d \in InputDirs(r, p), Below(d, x),
         NEW v \in ViewEntries(r, p), In(v, d)
  PROVE  InNestedPackage(r, p, x) \/ LeftOutByFileList(r, x) \/ InLinkedPackage(r, p, x)
<1> DEFINE C == s.model.dirs
           w == s.kind
<1> USE DEF Runs
<1>1. x \in Path /\ w[x] \in {"file", "link"} /\ r.was = w /\ Packages(r) = C /\ Sane(w) /\ k[x] # "none"
  BY DEF Undeclared, Drawing, State
<1>2. ASSUME NEW c \in C PROVE c \in Path /\ c # Root /\ w[c] = "dir"
  <2>1. PICK f : MakeFileOf(c, f)
    BY HasMakeFile DEF State
  <2> QED
    BY <1>1, <2>1, PathSeqs DEF MakeFileOf
<1>3. d \in C /\ d \in Above[x]
  BY <1>1, Reached DEF Below
<1> DEFINE T == {c \in C : In(d, c) /\ Below(c, x)}
<1>4. d \in T /\ T \in SUBSET (Path \cap (Above[x] \cup {x}))
  BY <1>2, <1>3 DEF In, Below
<1>5. PICK c \in T : \A z \in T : Len(z) <= Len(c)
  BY <1>1, <1>4, Deepest
<1>6. c \in C /\ c \in Path /\ c # Root /\ d \in Above[c] \cup {c} /\ c \in Above[x]
  BY <1>2, <1>5 DEF In, Below
<1>7. v \in Above[c] \cup {c} /\ (c # d => v \in Above[c]) /\ v \in Above[x]
  <2>1. v \in Above[d] \cup {d}
    BY DEF In, Below
  <2>2. v \in Above[c] \cup {c} /\ (c # d => v \in Above[c])
    BY <1>2, <1>3, <1>6, <2>1, AboveTrans
  <2>3. v \in Above[x]
    BY <1>1, <1>6, <2>2, AboveTrans
  <2> QED
    BY <2>2, <2>3
<1>8. CASE c \notin InputDirs(r, p)
  BY <1>1, <1>6, <1>7, <1>8 DEF InNestedPackage, In, Below
<1>9. CASE c \in InputDirs(r, p)
  <2>1. x \in Under(w, c)
    BY <1>1, <1>6 DEF Under, Below
  <2>2. ASSUME NEW z \in C, Below(c, z) PROVE ~In(z, x)
    <3>1. z # x
      BY <1>1, <1>2
    <3>2. c \in Above[z] /\ z \in Path
      BY <1>2, <2>2 DEF Below
    <3>3. Len(c) < Len(z) /\ Len(c) \in Nat /\ Len(z) \in Nat
      BY <3>2, AboveFacts
    <3>4. d \in Above[z]
      BY <1>6, <3>2, AboveTrans
    <3>5. z \notin T
      BY <1>5, <3>3
    <3> QED
      BY <3>1, <3>4, <3>5 DEF In, Below
  <2>3. ~Holds(C, x)
    <3> SUFFICES ASSUME NEW z \in C, x \in Above[z] PROVE FALSE
      BY DEF Holds, Below
    <3>1. w[x] = "dir"
      BY <1>1, <1>2, PathSeqs DEF Sane
    <3> QED
      BY <1>1, <3>1
  <2>4. PICK y \in Path : Listed(w, C, c, y) /\ In(y, x)
    BY <1>1, <1>6, <2>1, <2>2, <2>3, Covered
  <2>5. r.inputs[c] \subseteq Sources(r, p) /\ r.inputs[c] = InputEntries(w, C, c, TRUE)
    BY <1>6, <1>9, SourcesOf DEF Drawing
  <2>6. CASE ~ByFile(w, y)
    <3>1. y \in InputEntries(w, C, c, TRUE)
      BY <2>4, <2>6, EntriesByFile
    <3> QED
      BY <2>4, <2>5, <3>1, NotASource
  <2>7. CASE ByFile(w, y)
    <3>1. w[y] = "dir" /\ y \in Above[x] /\ DanglingLinks(w, y) # {}
      BY <1>1, <2>4, <2>7 DEF ByFile, In, Below
    <3>2. x \in Under(w, y)
      BY <1>1, <3>1 DEF Under, Below
    <3>3. CASE ~IsDir(w, x) /\ ~UnsafeLink(w, x)
      <4>1. x \in FileList(w, y)
        BY <3>2, <3>3 DEF FileList
      <4>2. x \in UNION {FileList(w, u) : u \in {z \in Path : Listed(w, C, c, z) /\ ByFile(w, z)}}
        BY <2>4, <2>7, <4>1
      <4>3. x \in InputEntries(w, C, c, TRUE)
        BY <4>2, EntriesByFile
      <4> QED
        BY <2>5, <4>3, NotASource DEF In
    <3>4. CASE IsDir(w, x)
      BY <1>1, <3>1, <3>4 DEF LeftOutByFileList, IsDir
    <3>5. CASE UnsafeLink(w, x)
      <4>1. x \in DanglingLinks(w, c)
        BY <2>1, <3>5 DEF DanglingLinks
      <4>2. x \notin Symlinks(r, p)
        BY <1>1, <1>7 DEF Undeclared, Overlaid
      <4>3. c \notin Dirs(r, p)
        <5>1. r.symlinks[c] = DanglingLinks(w, c)
          BY <1>6 DEF Drawing
        <5> QED
          BY <4>1, <4>2, <5>1 DEF Symlinks
      <4>4. c \notin Outside(C)
        <5>1. r.infra.symlinks = InfraSymlinks(s)
          BY DEF Drawing
        <5> QED
          BY <4>1, <4>2, <5>1 DEF Symlinks, InfraSymlinks, InfraEntries
      <4> QED
        BY <1>1, <1>6, <1>9, <3>5, <4>3, <4>4 DEF InLinkedPackage, Below
    <3> QED
      BY <3>3, <3>4, <3>5
  <2> QED
    BY <2>6, <2>7
<1> QED
  BY <1>8, <1>9

LEMMA ShownUndeclared ==
  ASSUME NEW s, NEW r, NEW p, NEW k, Runs(s, r, p, k),
         NEW x \in LocalView(r, p, k) \ RemoteView(r, p, k), k[x] \in {"file", "link"}
  PROVE  \/ InNestedPackage(r, p, x)
         \/ LeftOutByFileList(r, x)
         \/ NotListedYet(r, x)
         \/ InLinkedPackage(r, p, x)
<1> USE DEF Runs
<1> SUFFICES ASSUME r.was[x] \in {"file", "link"}
             PROVE  InNestedPackage(r, p, x) \/ LeftOutByFileList(r, x) \/ InLinkedPackage(r, p, x)
  BY DEF NotListedYet
<1>1. x \in Shown(r, p) /\ Undeclared(r, p, k, x)
  BY DEF LocalView, RemoteView, Shown, Undeclared
<1>2. x \in Path /\ k[x] \in {"file", "link"} /\ r.was[x] \in {"file", "link"} /\ r.was = s.kind
  BY <1>1 DEF Undeclared, Drawing
<1>3. PICK e \in ViewEntries(r, p) : In(e, x)
  BY <1>1 DEF Shown, In, Below
<1>4. e \in AllEntries(r, p)
  BY ViewEntriesOf
<1>5. CASE e \in InputDirs(r, p)
  <2>1. k[e] = "dir"
    BY <1>5, PackageInRoot
  <2>2. Below(e, x)
    BY <1>2, <1>3, <2>1 DEF In
  <2> QED
    BY <1>1, <1>5, <2>2, UndeclaredInPackage DEF In
<1>6. CASE e \in Sources(r, p)
  BY <1>1, <1>3, <1>6, NotASource
<1>7. CASE ListedForAll(s, e)
  <2>1. e \in Path
    BY <1>4, EntryKinds
  <2>2. ByFile(s.kind, e)
    BY <1>1, <1>3, <1>7, <2>1, InfraFiles, NotASource
  <2>3. s.kind[e] = "dir" /\ e \in Above[x] /\ DanglingLinks(s.kind, e) # {}
    BY <1>2, <1>3, <2>2 DEF ByFile, In, Below
  <2>4. x \in Under(s.kind, e)
    BY <1>2, <2>3 DEF Under, Below
  <2>5. x \notin Sources(r, p)
    BY <1>1, NotASource DEF In
  <2>6. x \notin FileList(s.kind, e)
    BY <1>7, <2>1, <2>2, <2>5, InfraFiles
  <2>7. CASE IsDir(s.kind, x)
    BY <1>2, <2>3, <2>7 DEF LeftOutByFileList, IsDir
  <2>8. CASE UnsafeLink(s.kind, x)
    <3>1. x \in Symlinks(r, p)
      BY <1>7, <2>1, <2>4, <2>8, InfraFiles DEF DanglingLinks
    <3> QED
      BY <1>1, <2>3, <3>1 DEF Undeclared, Overlaid
  <2> QED
    BY <2>4, <2>6, <2>7, <2>8 DEF FileList
<1> QED
  BY <1>4, <1>5, <1>6, <1>7, EntryKinds

------------------------------------------------------------------------------
(* Links.                                                                  *)

\* A link that the renderer found safe is no data.
LEMMA SafeIsNoData ==
  ASSUME NEW s, NEW r, NEW p, NEW k, Runs(s, r, p, k), NEW x \in Symlinks(r, p)
  PROVE  UnsafeLink(s.kind, x)
<1> USE DEF Runs
<1>1. CASE x \in r.infra.symlinks
  BY <1>1 DEF Drawing, InfraSymlinks, DanglingLinks
<1>2. CASE x \in UNION {r.symlinks[d] : d \in Dirs(r, p)}
  <2>1. PICK d \in Dirs(r, p) : x \in r.symlinks[d]
    BY <1>2
  <2>2. r.symlinks[d] = DanglingLinks(s.kind, d)
    BY Reached DEF Drawing
  <2> QED
    BY <2>1, <2>2 DEF DanglingLinks
<1> QED
  BY <1>1, <1>2 DEF Symlinks

\* On a worker a link has its target.
LEMMA TargetThere ==
  ASSUME NEW s, NEW r, NEW p, NEW k, Runs(s, r, p, k),
         NEW x \in InputRoot(r, p, k), k[x] = "link", Target[x] # Abs
  PROVE  k[Target[x]] # "none"
<1> USE DEF Runs
<1>1. x \in Path
  BY DEF InputRoot
<1>2. CASE x \in Sources(r, p)
  BY <1>2 DEF Accepted, UnsafeLink
<1>3. ASSUME NEW y \in Sources(r, p), x \in Above[y] PROVE FALSE
  BY <1>1, <1>3, SourceInRoot
<1>4. ASSUME NEW y \in Sources(r, p), y \in Above[x] PROVE ~UnsafeLink(k, x)
  <2>1. y \in Path /\ y # Root
    BY SourceInRoot, PathSeqs
  <2>2. k[y] = "dir"
    BY <1>1, <1>4, <2>1 DEF Sane
  <2>3. DanglingLinks(k, y) = {}
    BY <2>2 DEF Accepted
  <2> QED
    BY <1>1, <1>4, <2>3 DEF DanglingLinks, Under, Below
<1>5. x \in Sources(r, p) \/ (\E y \in Sources(r, p) : x \in Above[y]) \/ \E y \in Sources(r, p) : y \in Above[x]
  BY DEF InputRoot
<1> QED
  BY <1>2, <1>3, <1>4, <1>5 DEF UnsafeLink

\* A target inside the same directory is among that directory's sources, but
\* in the gap.
LEMMA InnerTarget ==
  ASSUME NEW s, NEW r, NEW p, NEW k, Runs(s, r, p, k),
         NEW d \in InputDirs(r, p), NEW t \in Path, Below(d, t),
         r.was[t] \in {"file", "dir"}, k[t] # "none", ~InnerGap(r, d, t)
  PROVE  t \in InputRoot(r, p, k)
<1> DEFINE C == s.model.dirs
           w == s.kind
<1> USE DEF Runs
<1>2. C \subseteq Path
  BY ModelDirs DEF State
<1>1. r.was = w /\ Packages(r) = C /\ Sane(w) /\ d \in C /\ d \in Path
  <2>1. r.was = w /\ Packages(r) = C /\ Sane(w)
    BY DEF Drawing, State
  <2>2. d \in Packages(r)
    BY Reached
  <2> QED
    BY <1>2, <2>1, <2>2
<1>3. t \in Under(w, d)
  BY <1>1 DEF Under
<1>4. \A c \in C : Below(d, c) => ~In(c, t)
  BY <1>1 DEF InnerGap
<1>5. ~Holds(C, t)
  <2> SUFFICES ASSUME NEW c \in C, Below(t, c) PROVE FALSE
    BY DEF Holds
  <2>1. Below(d, c)
    BY <1>2, AboveTrans, PathSeqs DEF Below
  <2> QED
    BY <1>1, <2>1 DEF InnerGap
<1>6. PICK y \in Path : Listed(w, C, d, y) /\ In(y, t)
  BY <1>1, <1>3, <1>4, <1>5, Covered
<1>7. r.inputs[d] \subseteq Sources(r, p) /\ r.inputs[d] = InputEntries(w, C, d, TRUE)
  BY <1>1, SourcesOf DEF Drawing
<1>10. InputEntries(w, C, d, TRUE) =
         {u \in Path : Listed(w, C, d, u) /\ ~ByFile(w, u)}
           \cup UNION {FileList(w, u) : u \in {z \in Path : Listed(w, C, d, z) /\ ByFile(w, z)}}
  BY EntriesByFile
<1>8. CASE ~ByFile(w, y)
  <2>1. y \in InputEntries(w, C, d, TRUE)
    BY <1>6, <1>8, <1>10
  <2>2. y \in Sources(r, p)
    BY <1>7, <2>1
  <2> QED
    BY <1>6, <2>2, SourceInRoot
<1>9. CASE ByFile(w, y)
  <2>1. FileList(w, y) \subseteq Sources(r, p)
    <3>1. FileList(w, y) \subseteq UNION {FileList(w, u) : u \in {z \in Path : Listed(w, C, d, z) /\ ByFile(w, z)}}
      BY <1>6, <1>9
    <3>2. FileList(w, y) \subseteq InputEntries(w, C, d, TRUE)
      BY <3>1, <1>10
    <3> QED
      BY <1>7, <3>2
  <2>2. CASE w[t] = "file"
    <3>1. t \in FileList(w, y)
      BY <1>6, <1>9, <2>2 DEF ByFile, In, FileList, Under, IsDir, UnsafeLink
    <3> QED
      BY <2>1, <3>1, SourceInRoot DEF In
  <2>3. CASE w[t] = "dir"
    <3>1. PICK f \in FileList(w, t) : TRUE
      BY <1>1, <2>3 DEF InnerGap
    <3>2. f \in Path /\ t \in Above[f]
      BY <3>1 DEF FileList, Under, Below
    <3>3. y \in Above[f]
      BY <1>6, <3>2, AboveTrans, PathSeqs DEF In, Below
    <3>4. f \in FileList(w, y)
      BY <3>1, <3>2, <3>3 DEF FileList, Under, Below
    <3> QED
      BY <2>1, <3>2, <3>4, SourceInRoot
  <2> QED
    BY <1>1, <2>2, <2>3
<1> QED
  BY <1>8, <1>9

LEMMA LinkLeads ==
  ASSUME NEW s, NEW r, NEW p, NEW k, Runs(s, r, p, k),
         NEW d \in Dirs(r, p), NEW x \in RemoteView(r, p, k), k[x] = "link", Below(d, x),
         r.was[x] = "link", Target[x] # Abs, Below(Pkg, Target[x]), r.was[Target[x]] # "none"
  PROVE  Target[x] \in RemoteView(r, p, k) \/ (In(d, Target[x]) /\ InnerGap(r, d, Target[x]))
<1> DEFINE w == s.kind
           t == Target[x]
<1> USE DEF Runs
<1>1. r.was = w /\ Packages(r) = s.model.dirs /\ Sane(w) /\ d \in s.model.dirs /\ d \in InputDirs(r, p)
  <2>1. r.was = w /\ Packages(r) = s.model.dirs /\ Sane(w)
    BY DEF Drawing, State
  <2>2. d \in InputDirs(r, p) /\ d \in Packages(r)
    BY Reached
  <2> QED
    BY <2>1, <2>2
<1>2. ~UnsafeLink(w, x)
  BY <1>1 DEF UnsafeLink
<1>3. x \in InputRoot(r, p, k)
  BY <1>2, SafeIsNoData DEF RemoteView, Overlaid
<1>4. x \in Path
  BY <1>3 DEF InputRoot
<1>5. t \in Path /\ w[t] \in {"file", "dir"}
  <2>1. t \in Path /\ w[t] # "link"
    BY <1>1, <1>4, TargetNoLink
  <2>2. w[t] \in Kind
    BY <1>1, <2>1 DEF Sane
  <2> QED
    BY <1>1, <2>1, <2>2 DEF Kind
<1>6. k[t] # "none"
  BY <1>3, TargetThere
<1>7. d \in AllEntries(r, p)
  BY DEF AllEntries
<1>8. CASE ~In(d, t)
  <2>1. t \in LinkTargets(s, d)
    BY <1>1, <1>4, <1>8 DEF LinkTargets, Under
  <2>2. t \in r.links[d]
    <3>1. r.links[d] = OutwardLinks(s, d)
      BY <1>1 DEF Drawing
    <3> QED
      BY <2>1, <3>1 DEF OutwardLinks
  <2>3. t \in AllEntries(r, p)
    BY <2>2 DEF AllEntries, Links
  <2>4. t \in Shown(r, p)
    BY <1>5, <2>3, ShownBelow DEF In
  <2>5. t \in InputRoot(r, p, k)
    <3>1. CASE t \in Packages(r)
      BY <1>1, <2>2, <3>1, Reached, PackageInRoot
    <3>2. CASE t \notin Packages(r)
      <4>1. t \in Sources(r, p)
        BY <1>1, <2>2, <3>2, SourcesOf
      <4> QED
        BY <1>5, <1>6, <4>1, SourceInRoot DEF In
    <3> QED
      BY <3>1, <3>2
  <2> QED
    BY <2>4, <2>5 DEF RemoteView
<1>9. CASE In(d, t)
  <2>1. t \in Shown(r, p)
    BY <1>5, <1>7, <1>9, ShownBelow
  <2>2. CASE t = d
    BY <1>1, <2>1, <2>2, PackageInRoot DEF RemoteView
  <2>3. CASE Below(d, t) /\ ~InnerGap(r, d, t)
    <3>1. t \in InputRoot(r, p, k)
      BY <1>1, <1>5, <1>6, <2>3, InnerTarget
    <3> QED
      BY <2>1, <3>1 DEF RemoteView
  <2> QED
    BY <1>9, <2>2, <2>3 DEF In
<1> QED
  BY <1>8, <1>9

------------------------------------------------------------------------------
(* The steps.                                                              *)

HasDrawn == drawn # None => \E s : State(s) /\ drawn = Rendered(s)

IInv ==
  /\ Sane(kind)
  /\ model \in Models
  /\ extra \subseteq ExtraViews
  /\ edits \in 0..MaxEdits
  /\ HasDrawn

LEMMA FirstIsSane == ASSUME NEW f \in FirstTrees PROVE Sane(f)
BY ViewsAssumption DEF Sane

LEMMA CreateIsSane ==
  ASSUME Sane(kind), NEW x \in Path, NEW to \in MayBe[x], to # "none", Create(x, to)
  PROVE  Sane(kind)'
<1>1. kind \in [Path -> Kind] /\ to \in Kind /\ kind[x] = "none"
  BY ViewsAssumption DEF Sane, Create
<1>2. kind' = [kind EXCEPT ![x] = to] /\ (Len(x) > 1 => kind[Front(x)] = "dir")
  BY DEF Create
<1>3. \A y \in Path : kind'[y] = IF y = x THEN to ELSE kind[y]
  BY <1>1, <1>2
<1>4. ASSUME NEW d \in Above[x] \ {Root} PROVE kind'[d] = "dir"
  <2>1. d \in Path /\ d # x /\ Len(d) \in Nat \ {0} /\ Len(d) < Len(x) /\ Len(x) \in Nat
    BY <1>4, AboveFacts, PathSeqs
  <2>2. Len(x) > 1
    BY <2>1
  <2>3. kind[Front(x)] = "dir" /\ Front(x) \in Path /\ (d = Front(x) \/ d \in Above[Front(x)])
    BY <1>2, <1>4, <2>2, FrontAbove
  <2>4. kind[d] = "dir"
    BY <1>4, <2>3 DEF Sane
  <2> QED
    BY <1>3, <2>1, <2>4
<1>5. ASSUME NEW y \in Path, y # x, kind'[y] # "none", NEW d \in Above[y] \ {Root} PROVE kind'[d] = "dir"
  <2>1. kind[y] # "none" /\ d \in Path
    BY <1>3, <1>5, AboveFacts
  <2>2. kind[d] = "dir"
    BY <1>5, <2>1 DEF Sane
  <2> QED
    BY <1>1, <1>3, <2>1, <2>2
<1>6. \E f \in FirstTrees : \A y \in Path : kind'[y] \in MayBe[y] \cup {f[y]}
  BY <1>3 DEF Sane
<1> QED
  BY <1>1, <1>2, <1>4, <1>5, <1>6 DEF Sane

LEMMA DeleteIsSane ==
  ASSUME Sane(kind), NEW x \in Path, "none" \in MayBe[x], Delete(x)
  PROVE  Sane(kind)'
<1>1. kind \in [Path -> Kind] /\ kind' = [kind EXCEPT ![x] = "none"] /\ "none" \in Kind /\ Under(kind, x) = {}
  BY DEF Sane, Delete, Kind
<1>2. \A y \in Path : kind'[y] = IF y = x THEN "none" ELSE kind[y]
  BY <1>1
<1>3. ASSUME NEW y \in Path, kind'[y] # "none", NEW d \in Above[y] \ {Root} PROVE kind'[d] = "dir"
  <2>1. kind[y] # "none" /\ d \in Path
    BY <1>2, <1>3, AboveFacts
  <2>2. d # x
    BY <1>1, <1>3, <2>1 DEF Under, Below
  <2>3. kind[d] = "dir"
    BY <1>3, <2>1 DEF Sane
  <2> QED
    BY <1>2, <2>1, <2>2, <2>3
<1>4. \E f \in FirstTrees : \A y \in Path : kind'[y] \in MayBe[y] \cup {f[y]}
  BY <1>2 DEF Sane
<1> QED
  BY <1>1, <1>3, <1>4 DEF Sane

LEMMA Initially == Init => IInv
<1> SUFFICES ASSUME Init PROVE IInv
  OBVIOUS
<1>1. Sane(kind)
  BY FirstIsSane DEF Init
<1> QED
  BY <1>1, ViewsAssumption DEF Init, IInv, HasDrawn

LEMMA EditCounts == ASSUME edits \in 0..MaxEdits, Edit PROVE edits' \in 0..MaxEdits
BY ViewsAssumption DEF Edit

LEMMA StepKeeps == IInv /\ [Next]_vars => IInv'
<1> SUFFICES ASSUME IInv, [Next]_vars PROVE IInv'
  OBVIOUS
<1>1. ASSUME NEW x \in Path, NEW to \in MayBe[x], to = "none", Delete(x) PROVE IInv'
  <2>1. Sane(kind)'
    BY <1>1, DeleteIsSane DEF IInv
  <2> QED
    BY <1>1, <2>1, EditCounts DEF IInv, HasDrawn, Delete, Edit
<1>2. ASSUME NEW x \in Path, NEW to \in MayBe[x], to # "none", Create(x, to) PROVE IInv'
  <2>1. Sane(kind)'
    BY <1>2, CreateIsSane DEF IInv
  <2> QED
    BY <1>2, <2>1, EditCounts DEF IInv, HasDrawn, Create, Edit
<1>3. ASSUME NEW m \in Models, Extract(m) PROVE IInv'
  BY <1>3, EditCounts DEF IInv, HasDrawn, Extract, Edit, Sane
<1>4. ASSUME NEW v \in ExtraViews, NameExtraView(v) PROVE IInv'
  BY <1>4, EditCounts DEF IInv, HasDrawn, NameExtraView, Edit, Sane
<1>5. CASE Render
  <2>1. State(Now)
    BY DEF IInv, State, Now
  <2>2. HasDrawn'
    BY <1>5, <2>1 DEF HasDrawn, Render
  <2> QED
    BY <1>5, <2>2 DEF IInv, Render, Sane
<1>6. CASE UNCHANGED vars
  BY <1>6 DEF IInv, HasDrawn, Sane, vars
<1> QED
  BY <1>1, <1>2, <1>3, <1>4, <1>5, <1>6 DEF Next

\* The invariant that the others follow from.
THEOREM Invariant == Spec => []IInv
BY Initially, StepKeeps, PTL DEF Spec

\* A package that Buck2 can build runs a render's actions.
LEMMA BuildableRuns ==
  ASSUME IInv, NEW p \in Buildable
  PROVE  \E s : Runs(s, drawn, p, kind)
<1>1. drawn # None /\ p \in Packages(drawn) /\ Accepted(drawn, p, kind)
  BY DEF Buildable
<1>2. PICK s : State(s) /\ drawn = Rendered(s)
  BY <1>1 DEF IInv, HasDrawn
<1> QED
  BY <1>1, <1>2, RenderedIs DEF Runs, IInv

LEMMA InfraType ==
  ASSUME NEW s, State(s), NEW e \in InfraEntries(s), e[1] = "package"
  PROVE  ~IsDir(s.kind, e)
BY DEF InfraEntries, InfraKeep, Outside

\* Every state is well typed: packages are the model's, lists have paths that
\* exist, and of package/ the infrastructure has files only.
THEOREM TypeCorrect == Spec => []TypeOK
<1>1. ASSUME IInv, drawn # None
      PROVE  /\ Packages(drawn) \in {m.dirs : m \in Models}
             /\ \A p \in Packages(drawn) : drawn.inputs[p] \cup drawn.links[p] \cup drawn.symlinks[p] \subseteq Path
             /\ \A e \in drawn.infra.entries : e[1] = "package" => ~IsDir(drawn.was, e)
  <2>1. PICK s : State(s) /\ Drawing(s, drawn)
    BY <1>1, RenderedIs DEF IInv, HasDrawn
  <2>2. ASSUME NEW p \in Packages(drawn)
        PROVE  drawn.inputs[p] \cup drawn.links[p] \cup drawn.symlinks[p] \subseteq Path
    <3>1. p \in s.model.dirs
      BY <2>1 DEF Drawing
    <3>2. /\ drawn.inputs[p] = InputEntries(s.kind, s.model.dirs, p, TRUE)
          /\ drawn.links[p] = OutwardLinks(s, p)
          /\ drawn.symlinks[p] = DanglingLinks(s.kind, p)
      BY <2>1, <3>1 DEF Drawing
    <3>3. DanglingLinks(s.kind, p) \subseteq Path
      BY UnderPath
    <3> QED
      BY <2>1, <3>2, <3>3, EntriesPaths, LinksPaths
  <2>3. Packages(drawn) \in {m.dirs : m \in Models}
    BY <2>1 DEF Drawing, State
  <2>4. \A e \in drawn.infra.entries : e[1] = "package" => ~IsDir(drawn.was, e)
    BY <2>1, InfraType DEF Drawing
  <2> QED
    BY <2>2, <2>3, <2>4
<1>2. IInv => TypeOK
  BY <1>1 DEF TypeOK, IInv, Sane
<1> QED
  BY <1>2, Invariant, PTL

\* "Every view entry is a declared input" (ADR-0014): whatever has changed
\* since the render, an action that Buck2 accepts finds every entry of its
\* view, or an overlay, in a worker's input root.
THEOREM DeclaredEntries == Spec => []EntriesAreDeclared
<1>1. IInv => EntriesAreDeclared
  BY BuildableRuns, ViewIsDeclared DEF EntriesAreDeclared
<1> QED
  BY <1>1, Invariant, PTL

\* "An undeclared read is ENOENT, not a silently stale cache hit"
\* (pkg_action.py): what a local action is shown and a worker is not is in
\* one of the four gaps that the property names, and there are no others.
THEOREM UndeclaredHidden == Spec => []UndeclaredIsHidden
<1>1. ASSUME IInv, NEW p \in Buildable,
             NEW x \in Names(LocalView(drawn, p, kind)) \ RemoteView(drawn, p, kind)
      PROVE  \/ InNestedPackage(drawn, p, x)
             \/ LeftOutByFileList(drawn, x)
             \/ NotListedYet(drawn, x)
             \/ InLinkedPackage(drawn, p, x)
  <2>1. PICK s : Runs(s, drawn, p, kind)
    BY <1>1, BuildableRuns
  <2>2. x \in LocalView(drawn, p, kind) \ RemoteView(drawn, p, kind) /\ kind[x] \in {"file", "link"}
    BY DEF Names
  <2> QED
    BY <2>1, <2>2, ShownUndeclared
<1>2. IInv => UndeclaredIsHidden
  BY <1>1 DEF UndeclaredIsHidden
<1> QED
  BY <1>2, Invariant, PTL

\* outward_links: a link of the closure's directories, which led somewhere at
\* the render, leads somewhere in the view too, even on a worker.
THEOREM LinksLead == Spec => []LinksLeadSomewhere
<1>1. ASSUME IInv, NEW p \in Buildable, NEW d \in Dirs(drawn, p),
             NEW x \in RemoteView(drawn, p, kind), kind[x] = "link", Below(d, x),
             drawn.was[x] = "link", Target[x] # Abs, Below(Pkg, Target[x]),
             drawn.was[Target[x]] # "none"
      PROVE  \/ Target[x] \in RemoteView(drawn, p, kind)
             \/ In(d, Target[x]) /\ InnerGap(drawn, d, Target[x])
  <2>1. PICK s : Runs(s, drawn, p, kind)
    BY <1>1, BuildableRuns
  <2> QED
    BY <1>1, <2>1, LinkLeads
<1>2. IInv => LinksLeadSomewhere
  BY <1>1 DEF LinksLeadSomewhere
<1> QED
  BY <1>2, Invariant, PTL
=============================================================================
