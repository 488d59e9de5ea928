-------------------------- MODULE VendoringProofs ---------------------------
(***************************************************************************)
(* For any sources, contents and hashes, any setup, and any number of      *)
(* failures, interruptions and changes between and during fetches: a fetch *)
(* that ends well has pinned what it provides, and pins hold.              *)
(*                                                                         *)
(* Neither is inductive.  WriteLock pins what is in dl, and Link provides  *)
(* what is there: Looped adds what the loop knows half way, that what it   *)
(* has passed is provided as it is in dl and was refused by neither hash   *)
(* nor pin.  It is stable because no one else writes to dl while fetch     *)
(* runs its loop.                                                          *)
(***************************************************************************)
EXTENDS Vendoring, TLAPS

Files == [Source -> Content \cup {None}]

Typed ==
  /\ wanted \subseteq Source
  /\ dl \in Files
  /\ sources \in Files
  /\ lock = Cut \/ lock \in Files
  /\ committed \in Files
  /\ read \in Files
  /\ left \subseteq Source
  /\ fetched = "ok" => at = "off"

Passed(f) == dl[f] \in MayBe(f) /\ read[f] \in {None, dl[f]}

Looped ==
  at \in {"loop", "link"} =>
    /\ lock # Cut
    /\ \A f \in wanted \ left : Passed(f) /\ sources[f] = dl[f]
    /\ at = "link" => now \in Source /\ Passed(now)

IInv == Typed /\ Looped /\ FetchedMeansPinned

USE VendoringAssumption

LEMMA Initially == VendoringInit => IInv
<1> SUFFICES ASSUME VendoringInit PROVE IInv
  OBVIOUS
<1>1. Nothing \in Files /\ Locks \subseteq Files
  BY DEF Nothing, Files
<1>2. Typed
  BY <1>1 DEF VendoringInit, Typed
<1> QED
  BY <1>2 DEF VendoringInit, IInv, Looped, FetchedMeansPinned

LEMMA NothingIsFiles == Nothing \in Files
BY DEF Nothing, Files

\* A fetch that ends without success leaves what the invariant is about.
LEMMA Ended ==
  ASSUME IInv, EndFetch("failed"), UNCHANGED <<wanted, dl, sources, committed>>, lock' \in {lock, Cut}
  PROVE  IInv'
<1>1. Typed'
  BY NothingIsFiles DEF IInv, Typed, EndFetch
<1> QED
  BY <1>1 DEF IInv, EndFetch, Looped, FetchedMeansPinned

\* Setting up, starting, pushing and publishing do not touch it.
LEMMA Outside ==
  ASSUME IInv, UNCHANGED <<wanted, dl, sources, read, left, now, lock>>,
         UNCHANGED <<at, fetched>> \/ (at' \in {"off", "make", "read"} /\ fetched' # "ok"),
         committed' \in Files
  PROVE  IInv'
BY DEF IInv, Typed, Looped, Passed, MayBe, FetchedMeansPinned

LEMMA Fetches ==
  ASSUME IInv, FetchStep
  PROVE  IInv'
<1> USE DEF IInv
<1>1. ASSUME NEW f \in Source, Download(f)
      PROVE  IInv'
  <2>1. upstream[f] \in Content
    BY <1>1 DEF Download, MayBe
  <2>2. dl' \in Files
    BY <1>1, <2>1 DEF Download, Typed, Files
  <2>3. Typed'
    BY <1>1, <2>2 DEF Download, world, Typed
  <2> QED
    BY <1>1, <2>3 DEF Download, world, Typed, Looped, FetchedMeansPinned
<1>2. CASE MakeEnds
  <2>1. CASE EndFetch("failed")
    BY <1>2, <2>1, Ended DEF MakeEnds, world
  <2>2. CASE at' = "read" /\ UNCHANGED <<read, left, now, fetched>>
    <3>1. fetched # "ok"
      BY <1>2 DEF MakeEnds, Typed
    <3> QED
      BY <1>2, <2>2, <3>1, Outside DEF MakeEnds, world, Typed
  <2> QED
    BY <1>2, <2>1, <2>2 DEF MakeEnds
<1>3. CASE ReadLock
  <2>1. CASE lock = Cut
    BY <1>3, <2>1, Ended DEF ReadLock, world
  <2>2. CASE lock # Cut
    BY <1>3, <2>2 DEF ReadLock, world, Typed, Looped, FetchedMeansPinned
  <2> QED
    BY <2>1, <2>2
<1>4. CASE Refuse
  BY <1>4, Ended DEF Refuse, world
<1>5. ASSUME NEW f \in Source, Unlink(f)
      PROVE  IInv'
  <2>1. sources' \in Files /\ (\A g \in Source \ {f} : sources'[g] = sources[g])
    BY <1>5 DEF Unlink, Typed, Files
  <2>2. Typed' /\ fetched # "ok"
    BY <1>5, <2>1 DEF Unlink, world, Typed
  <2>3. Passed(f)
    BY <1>5 DEF Unlink, Refused, Passed
  <2>4. Looped'
    BY <1>5, <2>1, <2>3 DEF Unlink, world, Typed, Looped, Passed, MayBe
  <2> QED
    BY <1>5, <2>2, <2>4 DEF Unlink, FetchedMeansPinned
<1>6. CASE Link
  <2>1. now \in Source /\ Passed(now)
    BY <1>6 DEF Link, Looped
  <2>2. sources' \in Files /\ \A g \in Source : sources'[g] = IF g = now THEN dl[now] ELSE sources[g]
    BY <1>6, <2>1 DEF Link, Typed, Files
  <2>3. Typed' /\ fetched # "ok"
    BY <1>6, <2>2 DEF Link, world, Typed
  <2>4. Looped'
    BY <1>6, <2>1, <2>2 DEF Link, world, Typed, Looped, Passed, MayBe
  <2> QED
    BY <1>6, <2>3, <2>4 DEF Link, FetchedMeansPinned
<1>7. CASE WriteLock
  <2>1. lock' = Whole /\ UNCHANGED <<wanted, dl, sources, committed>> /\ at = "loop" /\ left = {}
    BY <1>7 DEF WriteLock, world
  <2>2. lock' \in Files /\ \A f \in wanted : lock'[f] = dl[f]
    BY <2>1 DEF Whole, Typed, Files
  <2>3. \A f \in wanted : dl[f] \in MayBe(f) /\ sources[f] = dl[f]
    BY <2>1 DEF Looped, Passed
  <2>4. FetchedMeansPinned'
    BY <2>1, <2>2, <2>3 DEF FetchedMeansPinned, MayBe
  <2>5. Typed' /\ Looped'
    BY <1>7, <2>1, <2>2, NothingIsFiles DEF WriteLock, EndFetch, Typed, Looped
  <2> QED
    BY <2>4, <2>5
<1> QED
  BY <1>1, <1>2, <1>3, <1>4, <1>5, <1>6, <1>7 DEF FetchStep

LEMMA Users ==
  ASSUME IInv, User
  PROVE  IInv'
<1>1. ASSUME NEW files \in Models, Extract(files)
      PROVE  IInv'
  BY <1>1 DEF Extract, vars, IInv, Typed, Looped, FetchedMeansPinned
<1>2. ASSUME NEW f \in Source, NEW c \in Content, Republish(f, c)
      PROVE  IInv'
  BY <1>2, Outside DEF Republish, fetching, IInv, Typed
<1>3. ASSUME NEW f \in Source, NEW c \in Content \cup {None}, Supply(f, c)
      PROVE  IInv'
  BY <1>3 DEF Supply, IInv, Typed, Files, Looped, FetchedMeansPinned, MayBe
<1>4. CASE Commit
  BY <1>4, Outside DEF Commit, fetching, IInv, Typed
<1>5. CASE Restore
  BY <1>5 DEF Restore, world, IInv, Typed, Looped, FetchedMeansPinned
<1>6. CASE TakeResults
  <2>1. lock' \in Files /\ lock' # Cut
    BY <1>6 DEF TakeResults, Files
  <2>2. fetched' # "ok"
    BY <1>6 DEF TakeResults
  <2>3. Looped'
    BY <1>6, <2>1 DEF TakeResults, IInv, Looped, Passed, MayBe
  <2> QED
    BY <1>6, <2>1, <2>2, <2>3 DEF TakeResults, IInv, Typed, FetchedMeansPinned
<1> QED
  BY <1>1, <1>2, <1>3, <1>4, <1>5, <1>6 DEF User

LEMMA Kept == IInv /\ [VendoringNext]_allVars => IInv'
<1> SUFFICES ASSUME IInv, [VendoringNext]_allVars PROVE IInv'
  OBVIOUS
<1>1. CASE SetUp
  BY <1>1, Outside DEF SetUp, fetching, world, IInv, Typed
<1>2. ASSUME NEW vendorOnly \in BOOLEAN, BeginFetch(vendorOnly)
      PROVE  IInv'
  BY <1>2, Outside DEF BeginFetch, world, IInv, Typed
<1>3. CASE FetchStep
  BY <1>3, Fetches
<1>4. CASE StopFetch
  BY <1>4, Ended DEF StopFetch, world
<1>5. CASE User
  BY <1>5, Users
<1>6. CASE UNCHANGED allVars
  BY <1>6, Outside DEF allVars, fetching, world, IInv, Typed
<1> QED
  BY <1>1, <1>2, <1>3, <1>4, <1>5, <1>6 DEF VendoringNext

LEMMA Invariant == VendoringSpec => []IInv
<1>1. VendoringInit => IInv
  BY Initially
<1>2. IInv /\ [VendoringNext]_allVars => IInv'
  BY Kept
<1> QED
  BY <1>1, <1>2, PTL DEF VendoringSpec

\* fetch, whatever earlier fetches, Jobs and hands have left: when it ends
\* well, every source of the model is provided as Buildroot's hash file has it
\* and pinned as it is provided.
THEOREM FetchPins == VendoringSpec => []FetchedMeansPinned
<1>1. IInv => FetchedMeansPinned
  BY DEF IInv
<1> QED
  BY <1>1, Invariant, PTL

\* A step that contradicts a pin is one of those that PinsHold excepts.
LEMMA PinsHoldStep ==
  ASSUME IInv, [VendoringNext]_allVars, NEW f \in Source,
         Contradicted(f)', ~Contradicted(f)
  PROVE  TakeResults \/ Restore \/ (at # "off" /\ lock[f] # read[f])
<1> USE DEF IInv
<1>1. lock' # Cut /\ lock'[f] # None /\ sources'[f] \notin {None, lock'[f]}
  BY DEF Contradicted
<1>2. ~(lock' = lock /\ sources' = sources)
  BY <1>1 DEF Contradicted
<1>3. CASE FetchStep
  <2>1. \/ \E g \in Source : Unlink(g)
        \/ Link
        \/ WriteLock
    BY <1>2, <1>3 DEF FetchStep, Download, MakeEnds, ReadLock, Refuse
  <2>2. ASSUME NEW g \in Source, Unlink(g)
        PROVE  FALSE
    <3>1. lock' = lock /\ sources'[f] \in {None, sources[f]}
      BY <2>2 DEF Unlink, Typed, Files
    <3> QED
      BY <1>1, <3>1 DEF Contradicted
  <2>3. CASE Link
    <3>1. now \in Source /\ Passed(now) /\ lock' = lock /\ at # "off"
      BY <2>3 DEF Link, Looped
    <3>2. sources'[f] = IF f = now THEN dl[now] ELSE sources[f]
      BY <2>3, <3>1 DEF Link, Typed, Files
    <3>3. CASE f = now
      BY <1>1, <3>1, <3>2, <3>3 DEF Passed
    <3>4. CASE f # now
      BY <1>1, <3>1, <3>2, <3>4 DEF Contradicted
    <3> QED
      BY <3>3, <3>4
  <2>4. CASE WriteLock
    <3>1. lock' = Whole /\ sources' = sources /\ at = "loop" /\ left = {} /\ lock # Cut
      BY <2>4 DEF WriteLock, Looped
    <3>2. lock'[f] = IF f \in wanted THEN dl[f] ELSE read[f]
      BY <3>1 DEF Whole
    <3>3. CASE f \in wanted
      BY <1>1, <3>1, <3>2, <3>3 DEF Looped
    <3>4. CASE f \notin wanted
      BY <1>1, <3>1, <3>2, <3>4 DEF Contradicted
    <3> QED
      BY <3>3, <3>4
  <2> QED
    BY <2>1, <2>2, <2>3, <2>4
<1>4. CASE StopFetch
  BY <1>1, <1>2, <1>4 DEF StopFetch
<1>5. CASE User
  BY <1>2, <1>5 DEF User, Extract, Republish, Supply, Commit, fetching
<1>6. CASE SetUp \/ (\E vendorOnly \in BOOLEAN : BeginFetch(vendorOnly)) \/ UNCHANGED allVars
  BY <1>2, <1>6 DEF SetUp, BeginFetch, allVars, fetching
<1> QED
  BY <1>3, <1>4, <1>5, <1>6 DEF VendoringNext

\* "A later fetch must reproduce it": no step of setup or fetch, finished or
\* cut short, puts another content in a pinned one's place.
THEOREM PinsAreKept == VendoringSpec => PinsHold
<1> DEFINE Step1 ==
      \A f \in Source :
        Contradicted(f)' /\ ~Contradicted(f)
        => TakeResults \/ Restore \/ (at # "off" /\ lock[f] # read[f])
<1>1. IInv /\ [VendoringNext]_allVars => Step1
  BY PinsHoldStep
<1>2. IInv /\ [VendoringNext]_allVars => [Step1]_allVars
  BY <1>1
<1> QED
  BY <1>2, Invariant, PTL DEF VendoringSpec, PinsHold
------------------------------------------------------------------------------
(* Setup, for any projects.  What is left of apply_patches' loop, and what *)
(* it has applied, are changes of the tree it patches.                     *)

USE SetupAssumption

Patchings == {"patch_buildroot", "patch_external"}

SetupTyped ==
  /\ project \in Projects
  /\ pc \in Commands \cup {"off"}
  /\ tree \in {"absent", "empty", "there"}
  /\ ext \in {"absent", "default", "partial", "pinned", "local"}
  /\ pins \subseteq Trees
  /\ mark \subseteq Trees
  /\ applied \in [Trees -> Seq(File)]
  /\ \A t \in Trees : ToSet(applied[t]) \subseteq Changes(t)
  /\ todo \in Seq(File)
  /\ pc \in Patchings => ToSet(todo) \subseteq Changes(Current)
  /\ rc \in BOOLEAN
  /\ status \in {"never", "running", "ok", "failed"}

LEMMA ConcatSet ==
  ASSUME NEW S, NEW s \in Seq(S), NEW u \in Seq(S)
  PROVE  s \o u \in Seq(S) /\ ToSet(s \o u) = ToSet(s) \cup ToSet(u)
<1> DEFINE w == s \o u
<1>1. /\ w \in Seq(S) /\ Len(s) \in Nat /\ Len(u) \in Nat /\ DOMAIN w = 1..(Len(s) + Len(u))
      /\ DOMAIN s = 1..Len(s) /\ DOMAIN u = 1..Len(u)
  OBVIOUS
<1>2. /\ \A k \in 1..Len(s) : w[k] = s[k]
      /\ \A k \in 1..Len(u) : w[k + Len(s)] = u[k]
  OBVIOUS
<1>3. \A k \in 1..(Len(s) + Len(u)) : k \in 1..Len(s) \/ k - Len(s) \in 1..Len(u)
  BY <1>1
<1>4. \A k \in 1..(Len(s) + Len(u)) : w[k] \in ToSet(s) \cup ToSet(u)
  <2> TAKE k \in 1..(Len(s) + Len(u))
  <2>1. CASE k \in 1..Len(s)
    BY <1>1, <1>2, <2>1 DEF ToSet
  <2>2. CASE k - Len(s) \in 1..Len(u)
    <3>1. w[k] = u[k - Len(s)]
      BY <1>1, <1>2, <2>2
    <3> QED
      BY <1>1, <2>2, <3>1 DEF ToSet
  <2> QED
    BY <1>3, <2>1, <2>2
<1>5. \A k \in 1..Len(s) : k \in DOMAIN w
  BY <1>1
<1>6. \A k \in 1..Len(u) : k + Len(s) \in DOMAIN w
  BY <1>1
<1> HIDE DEF w
<1>7. ToSet(s) \subseteq ToSet(w) /\ ToSet(u) \subseteq ToSet(w)
  BY <1>1, <1>2, <1>5, <1>6 DEF ToSet
<1>8. ToSet(w) \subseteq ToSet(s) \cup ToSet(u)
  BY <1>1, <1>4 DEF ToSet
<1> QED
  BY <1>1, <1>7, <1>8 DEF w

LEMMA FirstAndRest ==
  ASSUME NEW S, NEW s \in Seq(S), s # <<>>
  PROVE  Head(s) \in S /\ Tail(s) \in Seq(S) /\ ToSet(s) = {Head(s)} \cup ToSet(Tail(s))
<1> DEFINE u == Tail(s)
<1>1. Len(s) \in Nat /\ Len(s) > 0 /\ DOMAIN s = 1..Len(s)
  OBVIOUS
<1>2. /\ u \in Seq(S) /\ DOMAIN u = 1..(Len(s) - 1)
      /\ \A k \in 1..(Len(s) - 1) : u[k] = s[k + 1]
  BY <1>1
<1>3. Head(s) = s[1] /\ 1 \in DOMAIN s /\ Head(s) \in S
  BY <1>1
<1>4. \A k \in 1..(Len(s) - 1) : k + 1 \in DOMAIN s
  BY <1>1
<1>5. \A k \in 1..Len(s) : k = 1 \/ (k - 1 \in 1..(Len(s) - 1) /\ s[k] = u[k - 1])
  BY <1>1, <1>2
<1> HIDE DEF u
<1>6. ToSet(u) \subseteq ToSet(s)
  BY <1>2, <1>4 DEF ToSet
<1>7. ToSet(s) \subseteq {Head(s)} \cup ToSet(u)
  BY <1>1, <1>2, <1>3, <1>5 DEF ToSet
<1>8. Head(s) \in ToSet(s)
  BY <1>3 DEF ToSet
<1> QED
  BY <1>2, <1>3, <1>6, <1>7, <1>8 DEF u

LEMMA AppendSet ==
  ASSUME NEW S, NEW s \in Seq(S), NEW e \in S
  PROVE  Append(s, e) \in Seq(S) /\ ToSet(Append(s, e)) = ToSet(s) \cup {e}
<1>1. <<e>> \in Seq(S) /\ ToSet(<<e>>) = {e}
  BY DEF ToSet
<1>2. Append(s, e) = s \o <<e>> /\ Append(s, e) \in Seq(S)
  OBVIOUS
<1>3. ToSet(s \o <<e>>) = ToSet(s) \cup ToSet(<<e>>)
  BY <1>1, ConcatSet
<1> QED
  BY <1>1, <1>2, <1>3

LEMMA EmptySet == ToSet(<<>>) = {}
BY DEF ToSet

LEMMA ProjectType ==
  ASSUME SetupTyped, NEW t \in Trees
  PROVE  project.patches[t] \in Seq(File) /\ project.scripts[t] \in Seq(File)
BY DEF SetupTyped, Project

\* apply_patches' list names the tree's changes.
LEMMA OrderSet ==
  ASSUME SetupTyped, NEW t \in Trees
  PROVE  Order(t) \in Seq(File) /\ ToSet(Order(t)) = Changes(t)
BY ProjectType, ConcatSet DEF Order, Changes

LEMMA CurrentTree == Current \in Trees
BY DEF Current, Trees

\* Where the commands before the loop go.
LEMMA Entered ==
  ASSUME SetupTyped, NEW t \in Trees, EnterPatches(t), project' = project
  PROVE  /\ pc' \in Patchings /\ Current' = t /\ todo' \in Seq(File)
         /\ ToSet(todo') = Changes(t) /\ rc' = TRUE
BY OrderSet DEF EnterPatches, Patchings, Current, Trees

LEMMA SetupTypedInit == Init => SetupTyped
<1> SUFFICES ASSUME Init PROVE SetupTyped
  OBVIOUS
<1>1. applied \in [Trees -> Seq(File)] /\ \A t \in Trees : ToSet(applied[t]) = {}
  BY EmptySet DEF Init
<1> QED
  BY <1>1 DEF Init, SetupTyped, Commands, Patchings

\* Commands that do not patch.
LEMMA NotPatching ==
  ASSUME SetupTyped, project' \in {project}, UNCHANGED <<project, applied, mark>>,
         tree' \in {"absent", "empty", "there"},
         ext' \in {"absent", "default", "partial", "pinned", "local"},
         pins' \subseteq Trees, status' \in {"never", "running", "ok", "failed"},
         \/ UNCHANGED <<todo, rc>> /\ pc' \in (Commands \cup {"off"}) \ Patchings
         \/ \E t \in Trees : EnterPatches(t)
         \/ pc' = "off" /\ todo' = <<>> /\ rc' = TRUE
  PROVE  SetupTyped'
<1>1. \A t \in Trees : Changes(t)' = Changes(t)
  BY DEF Changes
<1>2. /\ pc' \in Commands \cup {"off"} /\ todo' \in Seq(File) /\ rc' \in BOOLEAN
      /\ pc' \in Patchings => ToSet(todo') \subseteq Changes(Current')
  <2>1. CASE UNCHANGED <<todo, rc>> /\ pc' \in (Commands \cup {"off"}) \ Patchings
    BY <2>1 DEF SetupTyped
  <2>2. CASE \E t \in Trees : EnterPatches(t)
    <3>1. PICK t \in Trees : EnterPatches(t)
      BY <2>2
    <3> QED
      BY <3>1, Entered DEF Commands, Patchings
  <2>3. CASE pc' = "off" /\ todo' = <<>> /\ rc' = TRUE
    BY <2>3 DEF Patchings
  <2> QED
    BY <2>1, <2>2, <2>3
<1>3. pc' \in Patchings => ToSet(todo') \subseteq Changes(Current)'
  BY <1>2 DEF Changes
<1> QED
  BY <1>1, <1>2, <1>3 DEF SetupTyped

\* One turn of the loop: the file is a change of the tree, and it is in
\* afterwards when it works.
LEMMA Turn ==
  ASSUME SetupTyped, ApplyOne
  PROVE  /\ SetupTyped'
         /\ \A t \in Trees : ToSet(applied[t]) \subseteq ToSet(applied'[t])
         /\ Head(todo) \in Changes(Current)
         /\ ToSet(todo) = {Head(todo)} \cup ToSet(todo')
         /\ Works(Head(todo)) => Head(todo) \in ToSet(applied'[Current])
<1> DEFINE p == Head(todo)
<1>1. /\ pc \in Patchings /\ todo # <<>> /\ Apply(p) /\ todo' = Tail(todo)
      /\ UNCHANGED <<project, pc, tree, ext, pins, mark, status>>
  BY DEF ApplyOne, Patching, Patchings
<1>2. p \in File /\ Tail(todo) \in Seq(File) /\ ToSet(todo) = {p} \cup ToSet(Tail(todo))
  BY <1>1, FirstAndRest DEF SetupTyped
<1>3. p \in Changes(Current) /\ ToSet(todo') \subseteq Changes(Current)
  BY <1>1, <1>2 DEF SetupTyped
<1> HIDE DEF p
<1>4. Current \in Trees /\ applied[Current] \in Seq(File)
  BY CurrentTree DEF SetupTyped
<1>5. /\ Append(applied[Current], p) \in Seq(File)
      /\ ToSet(Append(applied[Current], p)) = ToSet(applied[Current]) \cup {p}
  BY <1>2, <1>4, AppendSet
<1>6. /\ applied' \in [Trees -> Seq(File)]
      /\ \A t \in Trees : t # Current => applied'[t] = applied[t]
      /\ applied'[Current] = Append(applied[Current], p) \/ applied'[Current] = applied[Current]
      /\ Works(p) /\ p \notin ToSet(applied[Current]) => applied'[Current] = Append(applied[Current], p)
  BY <1>1, <1>4, <1>5 DEF Apply, SetupTyped
<1>7. \A t \in Trees : /\ ToSet(applied[t]) \subseteq ToSet(applied'[t])
                       /\ ToSet(applied'[t]) \subseteq Changes(t)
  <2> TAKE t \in Trees
  <2>1. CASE t # Current
    BY <1>6, <2>1 DEF SetupTyped
  <2>2. CASE t = Current
    <3>1. ToSet(applied'[t]) \in {ToSet(applied[t]), ToSet(applied[t]) \cup {p}}
      BY <1>5, <1>6, <2>2
    <3> QED
      BY <1>3, <2>2, <3>1 DEF SetupTyped
  <2> QED
    BY <2>1, <2>2
<1>8. Works(p) => p \in ToSet(applied'[Current])
  BY <1>5, <1>6, <1>7, <1>4
<1>9. rc' \in BOOLEAN
  BY <1>1 DEF Apply, Works
<1>10. (\A t \in Trees : Changes(t)' = Changes(t)) /\ Current' = Current
  BY <1>1 DEF Changes, Current
<1>11. Changes(Current)' = Changes(Current)
  BY <1>1 DEF Changes, Current
<1>12. SetupTyped'
  BY <1>1, <1>2, <1>3, <1>6, <1>7, <1>9, <1>10, <1>11 DEF SetupTyped
<1> QED
  BY <1>1, <1>2, <1>3, <1>7, <1>8, <1>12 DEF p

LEMMA SetupTypedStep == SetupTyped /\ [Next]_vars => SetupTyped'
<1> SUFFICES ASSUME SetupTyped, [Next]_vars PROVE SetupTyped'
  OBVIOUS
<1>1. /\ tree \in {"absent", "empty", "there"} /\ pins \subseteq Trees
      /\ ext \in {"absent", "default", "partial", "pinned", "local"}
      /\ status \in {"never", "running", "ok", "failed"}
      /\ "buildroot" \in Trees /\ "external" \in Trees
  BY DEF SetupTyped, Trees
<1>2. CASE Begin
  BY <1>1, <1>2, NotPatching DEF Begin, EnterExternal, Commands, Patchings
<1>3. CASE Checkout \/ GitInit \/ Fetch
  BY <1>1, <1>3, NotPatching DEF Checkout, GitInit, Fetch, Commands, Patchings
<1>4. CASE Pin
  <2>1. pins \cup {"buildroot"} \subseteq Trees
    BY <1>1
  <2> QED
    BY <1>1, <1>4, <2>1, NotPatching DEF Pin, EnterExternal, Commands, Patchings
<1>5. CASE ExtClone \/ ExtCheckout \/ ExtCopy
  BY <1>1, <1>5, NotPatching DEF ExtClone, ExtCheckout, ExtCopy, Commands, Patchings
<1>6. CASE ExtPin
  <2>1. pins \cup {"external"} \subseteq Trees
    BY <1>1
  <2> QED
    BY <1>1, <1>6, <2>1, NotPatching DEF ExtPin, Commands, Patchings
<1>7. CASE ApplyOne
  BY <1>7, Turn
<1>8. CASE Finish
  <2>1. /\ mark' \subseteq Trees /\ UNCHANGED <<project, tree, ext, pins, applied>>
        /\ \/ pc' = "off" /\ todo' = <<>> /\ rc' = TRUE /\ status' \in {"ok", "failed"}
           \/ EnterPatches("external") /\ status' = status
    BY <1>8, CurrentTree DEF Finish, End, SetupTyped
  <2>2. \A t \in Trees : Changes(t)' = Changes(t)
    BY <2>1 DEF Changes
  <2>3. CASE pc' = "off" /\ todo' = <<>> /\ rc' = TRUE /\ status' \in {"ok", "failed"}
    BY <2>1, <2>2, <2>3 DEF SetupTyped, Patchings
  <2>4. CASE EnterPatches("external") /\ status' = status
    <3>1. /\ pc' \in Patchings /\ Current' = "external" /\ todo' \in Seq(File)
          /\ ToSet(todo') = Changes("external") /\ rc' = TRUE
      BY <1>1, <2>1, <2>4, Entered
    <3>2. ToSet(todo') \subseteq Changes(Current)'
      BY <2>1, <3>1 DEF Changes
    <3> QED
      BY <1>1, <2>1, <2>2, <2>4, <3>1, <3>2 DEF SetupTyped, Commands, Patchings
  <2> QED
    BY <2>1, <2>3, <2>4
<1>9. CASE Stop
  BY <1>1, <1>9, NotPatching DEF Stop, End
<1>10. CASE UNCHANGED vars
  BY <1>10 DEF vars, SetupTyped, Changes, Current
<1> QED
  BY <1>2, <1>3, <1>4, <1>5, <1>6, <1>7, <1>8, <1>9, <1>10 DEF Next, Step

------------------------------------------------------------------------------
(* The type invariant, which says more than kinds: a fetch that links a    *)
(* source has it still to do, and has taken the old file away.             *)

Bounds == stops \in 0..MaxStops /\ edits \in 0..MaxEdits

Fetching ==
  /\ wanted \in Models
  /\ upstream \in [Source -> Content]
  /\ at \in {"off", "make", "read", "loop", "link"}
  /\ at = "link" => now \in left /\ sources[now] = None
  /\ at = "off" => left = {}
  /\ left \subseteq wanted
  /\ now \in Source \cup {None}
  /\ fetched \in {"never", "running", "ok", "failed"}

TInv == IInv /\ SetupTyped /\ Bounds /\ Fetching

LEMMA TInitially == VendoringInit => TInv
<1> SUFFICES ASSUME VendoringInit PROVE TInv
  OBVIOUS
<1>1. IInv
  BY Initially
<1>2. SetupTyped
  BY SetupTypedInit DEF VendoringInit
<1> QED
  BY <1>1, <1>2 DEF VendoringInit, Init, TInv, Bounds, Fetching

\* All of setup's variables but the count of stops.
SetupKept == UNCHANGED <<project, pc, tree, ext, pins, mark, applied, todo, rc, status>>

LEMMA Kinds == [VendoringNext]_allVars => (SetUp /\ Next) \/ SetupKept
BY DEF VendoringNext, SetUp, BeginFetch, FetchStep, Download, MakeEnds, ReadLock, Refuse, Unlink, Link,
       WriteLock, StopFetch, User, Extract, Republish, Supply, Commit, Restore, TakeResults,
       allVars, vars, SetupKept

LEMMA SetupTypedKept == SetupTyped /\ SetupKept => SetupTyped'
BY DEF SetupTyped, SetupKept, Changes, Current

LEMMA BoundsStep ==
  ASSUME Bounds, [VendoringNext]_allVars
  PROVE  Bounds'
<1>1. CASE SetUp
  <2>1. edits' = edits /\ (stops' = stops \/ (stops < MaxStops /\ stops' = stops + 1))
    BY <1>1 DEF SetUp, world, Next, Begin, Step, Stop, Checkout, GitInit, Fetch, Pin, ExtClone, ExtCheckout,
                ExtCopy, ExtPin, ApplyOne, Finish
  <2> QED
    BY <2>1 DEF Bounds
<1>2. CASE StopFetch
  BY <1>2 DEF StopFetch, world, Bounds
<1>3. CASE User
  <2>1. stops' = stops /\ (edits' = edits \/ (edits < MaxEdits /\ edits' = edits + 1))
    BY <1>3 DEF User, Extract, Republish, Supply, Commit, Restore, TakeResults, Edit, vars, world
  <2> QED
    BY <2>1 DEF Bounds
<1>4. CASE FetchStep \/ (\E vendorOnly \in BOOLEAN : BeginFetch(vendorOnly)) \/ UNCHANGED allVars
  <2>1. UNCHANGED <<stops, edits>>
    BY <1>4 DEF FetchStep, BeginFetch, Download, MakeEnds, ReadLock, Refuse, Unlink, Link, WriteLock,
                allVars, vars, world
  <2> QED
    BY <2>1 DEF Bounds
<1> QED
  BY <1>1, <1>2, <1>3, <1>4 DEF VendoringNext

LEMMA FetchingStep ==
  ASSUME IInv, Fetching, [VendoringNext]_allVars
  PROVE  Fetching'
<1>1. CASE SetUp \/ (\E vendorOnly \in BOOLEAN : BeginFetch(vendorOnly)) \/ UNCHANGED allVars
  BY <1>1 DEF SetUp, BeginFetch, allVars, fetching, world, Fetching
<1>2. CASE StopFetch
  BY <1>2 DEF StopFetch, EndFetch, world, Fetching
<1>3. CASE User
  <2>1. CASE \E files \in Models : Extract(files)
    BY <1>3, <2>1 DEF Extract, Fetching
  <2>2. CASE \E f \in Source, c \in Content : Republish(f, c)
    BY <2>2 DEF Republish, fetching, Fetching
  <2>3. CASE (\E f \in Source, c \in Content \cup {None} : Supply(f, c)) \/ Commit \/ Restore \/ TakeResults
    BY <2>3 DEF Supply, Commit, Restore, TakeResults, fetching, world, Fetching
  <2> QED
    BY <1>3, <2>1, <2>2, <2>3 DEF User
<1>4. CASE FetchStep
  <2>1. CASE \E f \in Source : Download(f)
    BY <2>1 DEF Download, world, Fetching
  <2>2. ASSUME NEW f \in Source, Unlink(f)
        PROVE  Fetching'
    <3>1. sources'[f] = None
      BY <2>2 DEF Unlink, IInv, Typed, Files
    <3> QED
      BY <2>2, <3>1 DEF Unlink, world, Fetching
  <2>3. CASE MakeEnds \/ ReadLock \/ Refuse \/ WriteLock
    BY <2>3 DEF MakeEnds, ReadLock, Refuse, WriteLock, EndFetch, world, Fetching
  <2>4. CASE Link
    BY <2>4 DEF Link, world, Fetching
  <2> QED
    BY <1>4, <2>1, <2>2, <2>3, <2>4 DEF FetchStep
<1> QED
  BY <1>1, <1>2, <1>3, <1>4 DEF VendoringNext

LEMMA TInvariant == VendoringSpec => []TInv
<1>1. TInv /\ [VendoringNext]_allVars => TInv'
  <2> SUFFICES ASSUME TInv, [VendoringNext]_allVars PROVE TInv'
    OBVIOUS
  <2>1. SetupTyped'
    BY Kinds, SetupTypedKept, SetupTypedStep DEF TInv
  <2> QED
    BY <2>1, Kept, BoundsStep, FetchingStep DEF TInv
<1> QED
  BY <1>1, TInitially, PTL DEF VendoringSpec

\* Setup and fetch, however they are cut short: what has changed a tree is of
\* the project, the loop's sources are the model's, and a source that is
\* linked has been unlinked and is still to do.
THEOREM TypeCorrect == VendoringSpec => []VendoringTypeOK
<1>1. TInv => VendoringTypeOK
  BY DEF TInv, IInv, Typed, Files, SetupTyped, Bounds, Fetching, VendoringTypeOK, TypeOK
<1> QED
  BY <1>1, TInvariant, PTL

------------------------------------------------------------------------------
(* Setup succeeds only when everything is there, for projects whose        *)
(* patches apply to a freshly fetched tree and that are not stopped        *)
(* between a directory and what makes it complete: the script takes the    *)
(* directory's being there for the whole (see the findings).               *)

Fetchable == project.ext \in {"whole", "subdir"}

SoundProject ==
  /\ project.broken \cap (Changes("buildroot") \cup Changes("external")) = {}
  /\ project.stopAt \cap {"fetch", "checkout", "pin", "ext_copy"} = {}
  /\ project.ext = "whole" => "ext_checkout" \notin project.stopAt

ExtCommands == {"ext_clone", "ext_checkout", "ext_copy", "ext_pin"}

\* What is there of the Buildroot tree where the script is.
TreePlace ==
  /\ pc \in {"clone", "init"} => tree = "absent"
  /\ pc = "pin" => tree = "there"
  /\ pc \in ExtCommands \cup Patchings => tree = "there" /\ "buildroot" \in pins
  /\ pc = "off" => tree = "absent" \/ (tree = "there" /\ "buildroot" \in pins)
  /\ "buildroot" \in pins => tree = "there"
  /\ status = "ok" => pc = "off" /\ tree = "there"

\* And of the external tree.
ExtPlace ==
  /\ ~Fetchable => ext = "local"
  /\ Fetchable => ext \in {"absent", "pinned"} \/ (ext = "default" /\ pc = "ext_checkout")
  /\ pc \in ExtCommands => Fetchable
  /\ pc \in {"ext_clone", "ext_copy"} => ext = "absent"
  /\ pc = "ext_checkout" => project.ext = "whole"
  /\ pc = "ext_pin" => ext = "pinned"
  /\ pc \in Patchings => ext # "absent"
  /\ "external" \in pins => ext = "pinned"
  /\ status = "ok" => ext # "absent"

Missing(t) == Changes(t) \ ToSet(applied[t])

\* What is missing of the changes is still in the loop.
PatchPlace ==
  /\ \A t \in mark : Missing(t) = {}
  /\ pc \in Patchings => Missing(Current) \subseteq ToSet(todo)
  /\ pc = "patch_external" => Missing("buildroot") = {}
  /\ status = "ok" => \A t \in Trees : Missing(t) = {}

LEMMA SameProject ==
  ASSUME project' = project
  PROVE  /\ \A t \in Trees : Changes(t)' = Changes(t)
         /\ Fetchable' = Fetchable
         /\ SoundProject' = SoundProject
BY DEF Changes, Fetchable, SoundProject

LEMMA ProjectKept == [Next]_vars => project' = project
BY DEF Next, vars, Begin, Step, Stop, Checkout, GitInit, Fetch, Pin, ExtClone, ExtCheckout,
       ExtCopy, ExtPin, ApplyOne, Finish

LEMMA PlacesInit == Init => TreePlace /\ ExtPlace /\ PatchPlace
<1> SUFFICES ASSUME Init PROVE TreePlace /\ ExtPlace /\ PatchPlace
  OBVIOUS
<1>1. project.ext \in {"none", "local", "whole", "subdir"}
  BY DEF Init, Project
<1> QED
  BY <1>1 DEF Init, TreePlace, ExtPlace, PatchPlace, Fetchable, ExtCommands, Patchings

\* Into the loop, for one tree after the other.
LEMMA EnteredPlace ==
  ASSUME SetupTyped, NEW t \in Trees, EnterPatches(t), UNCHANGED <<project, applied>>
  PROVE  pc' \in Patchings /\ Current' = t /\ Missing(Current)' \subseteq ToSet(todo')
<1>1. pc' \in Patchings /\ Current' = t /\ ToSet(todo') = Changes(t)
  BY Entered
<1>2. Missing(Current)' = Changes(t) \ ToSet(applied[t])
  BY <1>1 DEF Missing, Changes
<1> QED
  BY <1>1, <1>2

LEMMA TreeStep ==
  ASSUME SetupTyped, SoundProject, TreePlace, [Next]_vars
  PROVE  TreePlace'
<1> USE DEF ExtCommands, Patchings
<1>1. CASE Begin
  BY <1>1 DEF Begin, EnterExternal, EnterPatches, TreePlace, SetupTyped
<1>2. CASE Checkout \/ GitInit \/ Fetch
  BY <1>2 DEF Checkout, GitInit, Fetch, TreePlace
<1>3. CASE Pin
  BY <1>3 DEF Pin, EnterExternal, EnterPatches, TreePlace
<1>4. CASE ExtClone \/ ExtCheckout \/ ExtCopy \/ ExtPin
  BY <1>4 DEF ExtClone, ExtCheckout, ExtCopy, ExtPin, EnterPatches, TreePlace
<1>5. CASE ApplyOne
  BY <1>5 DEF ApplyOne, Patching, TreePlace
<1>6. CASE Finish
  <2>1. /\ pc \in Patchings /\ UNCHANGED <<tree, pins>>
        /\ \/ pc' = "off"
           \/ pc' \in Patchings /\ status' = status
    BY <1>6 DEF Finish, End, EnterPatches
  <2> QED
    BY <2>1 DEF TreePlace
<1>7. CASE Stop
  <2>1. pc \notin {"fetch", "checkout", "pin"}
    BY <1>7 DEF Stop, SoundProject
  <2>2. pc' = "off" /\ status' = "failed" /\ UNCHANGED <<tree, pins>>
    BY <1>7 DEF Stop, End
  <2>3. pc \in Commands
    BY <1>7 DEF Stop, SetupTyped, Project
  <2>4. tree = "absent" \/ (tree = "there" /\ "buildroot" \in pins)
    BY <2>1, <2>3 DEF TreePlace, Commands
  <2> QED
    BY <2>2, <2>4 DEF TreePlace
<1>8. CASE UNCHANGED vars
  BY <1>8 DEF vars, TreePlace
<1> QED
  BY <1>1, <1>2, <1>3, <1>4, <1>5, <1>6, <1>7, <1>8 DEF Next, Step

LEMMA ExtStep ==
  ASSUME SetupTyped, SoundProject, ExtPlace, [Next]_vars
  PROVE  ExtPlace'
<1> USE DEF ExtCommands, Patchings, Fetchable
<1>0. project' = project
  BY ProjectKept
<1>1. CASE Begin
  BY <1>0, <1>1 DEF Begin, EnterExternal, EnterPatches, ExtPlace
<1>2. CASE Checkout \/ GitInit \/ Fetch
  BY <1>0, <1>2 DEF Checkout, GitInit, Fetch, ExtPlace
<1>3. CASE Pin
  BY <1>0, <1>3 DEF Pin, EnterExternal, EnterPatches, ExtPlace
<1>4. CASE ExtClone \/ ExtCheckout \/ ExtCopy \/ ExtPin
  BY <1>0, <1>4 DEF ExtClone, ExtCheckout, ExtCopy, ExtPin, EnterPatches, ExtPlace
<1>5. CASE ApplyOne
  BY <1>0, <1>5 DEF ApplyOne, Patching, ExtPlace
<1>6. CASE Finish
  <2>1. /\ pc \in Patchings /\ UNCHANGED <<ext, pins>>
        /\ \/ pc' = "off"
           \/ pc' \in Patchings /\ status' = status
    BY <1>6 DEF Finish, End, EnterPatches
  <2> QED
    BY <1>0, <2>1 DEF ExtPlace
<1>7. CASE Stop
  <2>1. pc # "ext_copy" /\ (pc = "ext_checkout" => project.ext # "whole")
    BY <1>7 DEF Stop, SoundProject
  <2>2. pc' = "off" /\ status' = "failed" /\ UNCHANGED <<ext, pins>>
    BY <1>7, <2>1 DEF Stop, End
  <2> QED
    BY <1>0, <2>1, <2>2 DEF ExtPlace
<1>8. CASE UNCHANGED vars
  BY <1>8 DEF vars, ExtPlace
<1> QED
  BY <1>1, <1>2, <1>3, <1>4, <1>5, <1>6, <1>7, <1>8 DEF Next, Step

\* A turn of the loop leaves less to do and nothing out.
LEMMA TurnPlace ==
  ASSUME SetupTyped, SoundProject, TreePlace, ExtPlace, PatchPlace, ApplyOne
  PROVE  PatchPlace'
<1> DEFINE p == Head(todo)
<1>1. /\ pc \in Patchings /\ UNCHANGED <<project, pc, tree, ext, pins, mark, status>>
  BY DEF ApplyOne, Patching, Patchings
<1>2. /\ \A t \in Trees : ToSet(applied[t]) \subseteq ToSet(applied'[t])
      /\ p \in Changes(Current)
      /\ ToSet(todo) = {p} \cup ToSet(todo')
      /\ Works(p) => p \in ToSet(applied'[Current])
  BY Turn
<1> HIDE DEF p
<1>3. p \notin project.broken
  BY <1>2, CurrentTree DEF SoundProject, Trees
<1>4. IF Current = "buildroot" THEN tree = "there" ELSE ext # "absent"
  BY <1>1 DEF TreePlace, ExtPlace
<1>5. p \in ToSet(applied'[Current])
  <2>1. CASE p \in ToSet(applied[Current])
    BY <1>2, <2>1, CurrentTree
  <2>2. CASE p \notin ToSet(applied[Current])
    BY <1>2, <1>3, <1>4, <2>2 DEF Works
  <2> QED
    BY <2>1, <2>2
<1>6. \A t \in Trees : Changes(t)' = Changes(t)
  BY <1>1, SameProject
<1>7. \A t \in Trees : Missing(t)' \subseteq Missing(t)
  BY <1>2, <1>6 DEF Missing
<1>8. Current' = Current /\ Missing(Current)' = Changes(Current) \ ToSet(applied'[Current])
  BY <1>1 DEF Current, Missing, Changes
<1>9. Missing(Current)' \subseteq ToSet(todo')
  BY <1>1, <1>2, <1>5, <1>7, <1>8, CurrentTree DEF PatchPlace, Missing
<1>10. mark \subseteq Trees /\ "buildroot" \in Trees
  BY DEF SetupTyped, Trees
<1> QED
  BY <1>1, <1>7, <1>9, <1>10 DEF PatchPlace

LEMMA PatchStep ==
  ASSUME SetupTyped, SoundProject, TreePlace, ExtPlace, PatchPlace, [Next]_vars
  PROVE  PatchPlace'
<1>0. /\ "buildroot" \in Trees /\ "external" \in Trees /\ mark \subseteq Trees
      /\ \A t \in Trees : t \in {"buildroot", "external"}
  BY DEF SetupTyped, Trees
<1>1. project' = project /\ \A t \in Trees : Changes(t)' = Changes(t)
  BY ProjectKept, SameProject
<1>2. CASE Begin \/ Pin \/ ExtCheckout \/ ExtPin
  <2>1. /\ \/ pc' \notin Patchings
           \/ EnterPatches("buildroot")
        /\ status' = "ok" => status = "ok"
    BY <1>2 DEF Begin, Pin, ExtCheckout, ExtPin, EnterExternal, Patchings
  <2>2. UNCHANGED <<applied, mark>>
    BY <1>2 DEF Begin, Pin, ExtCheckout, ExtPin
  <2>3. \A t \in Trees : Missing(t)' = Missing(t)
    BY <1>1, <2>2 DEF Missing
  <2>4. pc' # "patch_external" /\ (pc' \in Patchings => Missing(Current)' \subseteq ToSet(todo'))
    BY <1>0, <1>1, <2>1, <2>2, EnteredPlace DEF EnterPatches, Patchings
  <2> QED
    BY <1>0, <2>1, <2>2, <2>3, <2>4 DEF PatchPlace
<1>3. CASE Checkout \/ GitInit \/ Fetch \/ ExtClone \/ ExtCopy \/ Stop
  <2>1. UNCHANGED <<applied, mark>> /\ (status' = status \/ status' = "failed") /\ pc' \notin Patchings
    BY <1>3 DEF Checkout, GitInit, Fetch, ExtClone, ExtCopy, Stop, End, Patchings
  <2>2. \A t \in Trees : Missing(t)' = Missing(t)
    BY <1>1, <2>1 DEF Missing
  <2> QED
    BY <1>0, <2>1, <2>2 DEF PatchPlace, Patchings
<1>4. CASE ApplyOne
  BY <1>4, TurnPlace
<1>5. CASE Finish
  <2>1. /\ pc \in Patchings /\ UNCHANGED applied /\ mark' \subseteq mark \cup {Current}
        /\ Current \in mark \/ todo = <<>>
        /\ \/ Current = "external" /\ pc' = "off"
           \/ Current = "buildroot" /\ EnterPatches("external") /\ status' = status
    BY <1>5, CurrentTree DEF Finish, End, Patchings, Trees
  <2>2. Missing(Current) = {}
    BY <2>1, EmptySet DEF PatchPlace
  <2>3. \A t \in Trees : Missing(t)' = Missing(t)
    BY <1>1, <2>1 DEF Missing
  <2>4. \A t \in mark' : Missing(t)' = {}
    BY <1>0, <2>1, <2>2, <2>3, CurrentTree DEF PatchPlace
  <2>5. CASE Current = "external" /\ pc' = "off"
    <3>1. \A t \in Trees : Missing(t)' = {}
      BY <1>0, <2>1, <2>2, <2>3, <2>5 DEF PatchPlace, Current, Patchings
    <3> QED
      BY <2>4, <2>5, <3>1 DEF PatchPlace, Patchings
  <2>6. CASE Current = "buildroot" /\ EnterPatches("external") /\ status' = status
    <3>1. pc' \in Patchings /\ Missing(Current)' \subseteq ToSet(todo')
      BY <1>0, <1>1, <2>1, <2>6, EnteredPlace
    <3>2. Missing("buildroot")' = {}
      BY <1>0, <2>2, <2>3, <2>6
    <3>3. status' # "ok"
      BY <2>1, <2>6 DEF TreePlace, Patchings
    <3> QED
      BY <2>4, <3>1, <3>2, <3>3 DEF PatchPlace
  <2> QED
    BY <2>1, <2>5, <2>6
<1>6. CASE UNCHANGED vars
  BY <1>6 DEF vars, PatchPlace, Missing, Changes, Current
<1> QED
  BY <1>2, <1>3, <1>4, <1>5, <1>6 DEF Next, Step

Places == SoundProject => TreePlace /\ ExtPlace /\ PatchPlace

LEMMA PlacesKept ==
  ASSUME SetupTyped, Places, [VendoringNext]_allVars
  PROVE  Places'
<1>1. CASE Next
  <2>1. SoundProject' = SoundProject
    BY <1>1, ProjectKept, SameProject
  <2> QED
    BY <1>1, <2>1, TreeStep, ExtStep, PatchStep DEF Places
<1>2. CASE SetupKept
  BY <1>2 DEF SetupKept, Places, SoundProject, TreePlace, ExtPlace, PatchPlace, Fetchable, Missing, Changes, Current
<1> QED
  BY <1>1, <1>2, Kinds

\* fetch-buildroot.sh, run as often as one likes: when it succeeds, the trees
\* are the project's, at their commits, on record, and wholly patched.
THEOREM SetupIsComplete == VendoringSpec => [](SoundProject => SuccessMeansComplete)
<1>1. VendoringInit => Places
  BY PlacesInit DEF VendoringInit, Places
<1>2. SetupTyped /\ Places /\ [VendoringNext]_allVars => Places'
  BY PlacesKept
<1>3. Places => (SoundProject => SuccessMeansComplete)
  <2> SUFFICES ASSUME TreePlace, ExtPlace, PatchPlace PROVE SuccessMeansComplete
    BY DEF Places
  <2>1. SuccessMeansPinned /\ RecordIsTrue
    BY DEF SuccessMeansPinned, RecordIsTrue, TreePlace, ExtPlace
  <2>2. ExternalAtPin
    BY DEF ExternalAtPin, TreePlace, ExtPlace, Fetchable
  <2>3. SuccessMeansPatched
    BY DEF SuccessMeansPatched, PatchPlace, Missing
  <2> QED
    BY <2>1, <2>2, <2>3 DEF SuccessMeansComplete
<1>4. TInv => SetupTyped
  BY DEF TInv
<1> QED
  BY <1>1, <1>2, <1>3, <1>4, TInvariant, PTL DEF VendoringSpec
=============================================================================
