------------------------- MODULE ActionCacheProofs ---------------------------
(***************************************************************************)
(* For any packages, closures, checkouts and modes: the builds implement   *)
(* CleanBuild, and a package is built again only for a reason.             *)
(*                                                                         *)
(* Two things have to be known of every state.  An output with a strict    *)
(* key, in a daemon or in the cache, is what a run of its action makes of  *)
(* the files that the key names (Sound); dev builds, which run with        *)
(* scripts that no key names, store under other keys.  And within a strict *)
(* build the outputs that are up to date are of one run of each action     *)
(* (OneRun): an action takes its dependencies' outputs from the daemon and *)
(* not from the cache.  What a closure holds, all the way down, is not     *)
(* computed but gathered while the build goes up it.                       *)
(*                                                                         *)
(* For the second: as long as the checkouts built agree on what a package  *)
(* depends on, the daemon keeps the output it has in any of them, and with *)
(* it those of the package's whole closure (Remembers).                    *)
(***************************************************************************)
EXTENDS ActionCache, TLAPS

USE ClosureAssumption, ValuesAssumption, SettingsAssumption

Files == [Item -> Version]

------------------------------------------------------------------------------
(* Keys and outputs.                                                       *)

LEMMA Items ==
  /\ Driver \in Item /\ Slicer \in Item /\ Driver # Slicer
  /\ \A p \in Package : Dir(p) \in Item /\ Dir(p) \notin {Driver, Slicer} /\ Sym(p) \in Item
  /\ Driver \notin Syms \cup Dirs /\ Slicer \notin Syms \cup Dirs
  /\ Dirs \cup Syms \cup {Driver} = Item \ {Slicer}
  /\ Syms \cap Dirs = {}
BY DEF Item, Dirs, Syms, Driver, Slicer, Dir, Sym

LEMMA Kinds ==
  /\ Config[1] = "config" /\ Rootfs[1] = "rootfs"
  /\ \A p \in Package : /\ Slice(p)[1] = "slice" /\ Slice(p)[2] = p
                        /\ Pkg(p)[1] = "package" /\ Pkg(p)[2] = p
  /\ \A a \in Action : \/ a = Config
                       \/ a = Rootfs
                       \/ \E p \in Package : a = Slice(p)
                       \/ \E p \in Package : a = Pkg(p)
  /\ \A a \in Step : a[1] # "slice"
  /\ \A a \in Action : a \notin Step => \E p \in Package : a = Slice(p)
  /\ Action \cap Item = {}
BY DEF Action, Step, Slices, Config, Rootfs, Slice, Pkg, Item, Dirs, Syms, Dir, Sym, Driver, Slicer

LEMMA Inputs ==
  /\ TreeInputs(Config) = Dirs \cup Syms /\ TreeInputs(Rootfs) = Dirs \cup Syms
  /\ \A p \in Package : /\ TreeInputs(Slice(p)) = {Dir(p)}
                        /\ TreeInputs(Pkg(p)) = {Dir(q) : q \in Closure[p]}
  /\ ScriptOf(Config) = Driver /\ ScriptOf(Rootfs) = Driver
  /\ \A p \in Package : ScriptOf(Slice(p)) = Slicer /\ ScriptOf(Pkg(p)) = Driver
  /\ Needs(Config) = {}
  /\ Needs(Rootfs) = {Config} \cup {Pkg(q) : q \in Package}
  /\ \A p \in Package : /\ Needs(Slice(p)) = {Config}
                        /\ Needs(Pkg(p)) = {Slice(p)} \cup {Pkg(q) : q \in Closure[p] \ {p}}
BY Kinds DEF TreeInputs, ScriptOf, Needs

LEMMA ActionInputs ==
  ASSUME NEW a \in Action
  PROVE  /\ TreeInputs(a) \subseteq Item
         /\ ScriptOf(a) \in Item
         /\ ScriptOf(a) \notin TreeInputs(a)
         /\ Needs(a) \subseteq Action
<1>1. CASE a = Config \/ a = Rootfs
  BY <1>1, Inputs, Items DEF Item, Action, Step
<1>2. ASSUME NEW p \in Package, a = Slice(p)
      PROVE  /\ TreeInputs(a) \subseteq Item /\ ScriptOf(a) \in Item
             /\ ScriptOf(a) \notin TreeInputs(a) /\ Needs(a) \subseteq Action
  BY <1>2, Inputs, Items DEF Action, Step
<1>3. ASSUME NEW p \in Package, a = Pkg(p)
      PROVE  /\ TreeInputs(a) \subseteq Item /\ ScriptOf(a) \in Item
             /\ ScriptOf(a) \notin TreeInputs(a) /\ Needs(a) \subseteq Action
  BY <1>3, Inputs, Items DEF Action, Step, Slices
<1> QED
  BY <1>1, <1>2, <1>3, Kinds

\* A strict key's files.
Full(a) == TreeInputs(a) \cup {ScriptOf(a)}

LEMMA KeyFiles ==
  ASSUME NEW c \in Client, NEW a \in Action
  PROVE  /\ Key(c, a).action = a
         /\ Key(c, a).src = At(tree[c], IF flags[c].dev THEN TreeInputs(a) ELSE Full(a))
         /\ Key(c, a).ins = [b \in Needs(a) |-> Seen(a, out[c][b].facts)]
BY DEF Key, Declared, Full

\* A run reads no more of the checkout than its strict key names.
LEMMA ReadsDeclared ==
  ASSUME NEW n \in Nonce, NEW k, k.action \in Action,
         NEW f \in Files, NEW g \in Files, \A i \in Full(k.action) : f[i] = g[i]
  PROVE  Produce(f, k, n) = Produce(g, k, n)
<1>1. CASE k.action[1] = "slice"
  <2>1. PICK p \in Package : k.action = Slice(p)
    BY <1>1, Kinds
  <2>2. f[Dir(p)] = g[Dir(p)] /\ f[Slicer] = g[Slicer] /\ k.action[2] = p
    BY <2>1, Inputs, Kinds DEF Full
  <2> QED
    BY <1>1, <2>2 DEF Produce
<1>2. CASE k.action[1] # "slice"
  <2>1. At(f, {ScriptOf(k.action)}) = At(g, {ScriptOf(k.action)})
    BY DEF At, Full
  <2> QED
    BY <1>2, <2>1 DEF Produce
<1> QED
  BY <1>1, <1>2

\* What is stored under a strict key is what a run makes of the key's files.
Sound(k, facts) ==
  \A f \in Files :
    k.src = At(f, Full(k.action)) => \E n \in Nonce : facts = Produce(f, k, n)

\* A run, in dev mode or not, does no harm.
LEMMA RunsAreSound ==
  ASSUME NEW f \in Files, NEW n \in Nonce, NEW k, k.action \in Action,
         NEW D, D = TreeInputs(k.action) \/ D = Full(k.action),
         k.src = At(f, D)
  PROVE  Sound(k, Produce(f, k, n))
<1> SUFFICES ASSUME NEW g \in Files, k.src = At(g, Full(k.action))
             PROVE  \E x \in Nonce : Produce(f, k, n) = Produce(g, k, x)
  BY DEF Sound
<1>1. \A i \in Full(k.action) : <<i, g[i]>> \in At(f, D)
  <2>1. \A i \in Full(k.action) : <<i, g[i]>> \in At(g, Full(k.action))
    BY DEF At
  <2> QED
    BY <2>1
<1>2. \A i \in Full(k.action) : f[i] = g[i]
  BY <1>1 DEF At
<1>3. Produce(f, k, n) = Produce(g, k, n)
  BY <1>2, ReadsDeclared
<1> QED
  BY <1>3

------------------------------------------------------------------------------
(* What a strict build gathers.                                            *)

Typed ==
  /\ setting \in Settings
  /\ tree \in [Client -> Files]
  /\ out \in [Client -> [Action -> Entry \cup {None}]]
  /\ flags \in [Client -> Modes \cup {None}]
  /\ done \in [Client -> SUBSET Action]
  /\ running \in [Client -> Action \cup {None}]
  /\ DOMAIN cache \subseteq KeySet
  /\ cache \in [DOMAIN cache -> SUBSET Fact]
  /\ edits \in 0..setting.edits
  /\ builds \in 0..MaxBuilds
  /\ evictions \in 0..setting.evictions

\* The actions that are up to date are so with what they take from each other.
Fresh(c) ==
  \A a \in done[c] :
    /\ Needs(a) \subseteq done[c]
    /\ out[c][a] # None
    /\ out[c][a].key = Key(c, a)
    /\ Sound(Key(c, a), out[c][a].facts)
    /\ out[c][a].facts \subseteq Fact

\* Nothing but the checkout's files, its own slices, and of each action in D
\* the run that m names.
Good(files, m, D) ==
  At(files, Item \ {Slicer}) \cup {<<Slice(p), CleanSlice(files, p)>> : p \in Package}
    \cup {<<b, m[b]>> : b \in D \cap Step}

OneRun(c, m) ==
  \A a \in done[c] :
    /\ out[c][a].facts \subseteq Good(tree[c], m, done[c])
    /\ a \in Step => <<a, m[a]>> \in out[c][a].facts

\* What an action gets from others.
Gets(c, a) == UNION {out[c][b].facts : b \in Needs(a)}

Ins(k) == UNION {k.ins[b] : b \in DOMAIN k.ins}

LEMMA StepMakes ==
  ASSUME NEW n \in Nonce, NEW k, k.action[1] # "slice", NEW f \in Files
  PROVE  Produce(f, k, n) =
           k.src \cup At(f, {ScriptOf(k.action)}) \cup {<<k.action, n>>} \cup Ins(k)
BY DEF Produce, Ins

LEMMA StepRuns ==
  ASSUME Typed, NEW c \in Client, Strict(c), NEW a \in Step, NEW facts, Sound(Key(c, a), facts)
  PROVE  \E n \in Nonce :
           facts = At(tree[c], Full(a)) \cup Gets(c, a) \cup {<<a, n>>}
<1> DEFINE k == Key(c, a)
<1>1. a \in Action /\ a[1] # "slice" /\ k.action = a
  BY Kinds DEF Action, Key
<1>2. k.src = At(tree[c], Full(a)) /\ k.ins = [b \in Needs(a) |-> out[c][b].facts]
  BY <1>1, KeyFiles DEF Strict, Seen
<1>7. Sound(k, facts)
  OBVIOUS
<1> HIDE DEF k
<1>3. PICK n \in Nonce : facts = Produce(tree[c], k, n)
  BY <1>1, <1>2, <1>7 DEF Typed, Sound
<1>4. facts = k.src \cup At(tree[c], {ScriptOf(a)}) \cup {<<a, n>>} \cup Ins(k)
  BY <1>1, <1>3, StepMakes DEF Typed
<1>5. At(tree[c], {ScriptOf(a)}) \subseteq At(tree[c], Full(a))
  BY DEF At, Full
<1>6. Ins(k) = Gets(c, a)
  BY <1>2 DEF Gets, Ins
<1>8. facts = At(tree[c], Full(a)) \cup At(tree[c], {ScriptOf(a)}) \cup Gets(c, a) \cup {<<a, n>>}
  BY <1>2, <1>4, <1>6
<1>9. facts = At(tree[c], Full(a)) \cup Gets(c, a) \cup {<<a, n>>}
  BY <1>5, <1>8
<1> QED
  BY <1>9

\* The config action's symbols are the checkout's, whichever run it is of.
LEMMA ConfigShows ==
  ASSUME Typed, NEW c \in Client, Strict(c), Fresh(c), Config \in done[c]
  PROVE  {f \in out[c][Config].facts : f[1] \in Syms} = At(tree[c], Syms)
<1>1. PICK n \in Nonce :
        out[c][Config].facts =
          At(tree[c], Full(Config)) \cup Gets(c, Config) \cup {<<Config, n>>}
  <2>1. Config \in Step
    BY DEF Step
  <2>2. Sound(Key(c, Config), out[c][Config].facts)
    BY DEF Fresh
  <2> QED
    BY <2>1, <2>2, StepRuns
<1>2. Full(Config) = Item \ {Slicer} /\ Needs(Config) = {}
  BY Inputs, Items DEF Full
<1>3. Config \notin Syms
  BY Kinds DEF Action, Step, Item
<1>4. out[c][Config].facts = At(tree[c], Item \ {Slicer}) \cup {<<Config, n>>}
  <2>1. Gets(c, Config) = {}
    BY <1>2 DEF Gets
  <2> QED
    BY <1>1, <1>2, <2>1
<1>5. Syms \subseteq Item \ {Slicer}
  BY Items DEF Item
<1> QED
  BY <1>3, <1>4, <1>5 DEF At

LEMMA SliceRuns ==
  ASSUME Typed, NEW c \in Client, Strict(c), Fresh(c), Config \in done[c],
         NEW p \in Package, NEW facts, Sound(Key(c, Slice(p)), facts)
  PROVE  facts = {<<Slice(p), CleanSlice(tree[c], p)>>}
<1> DEFINE k == Key(c, Slice(p))
           kept == Kept(p, tree[c][Dir(p)], tree[c][Slicer])
<1>1. Slice(p) \in Action /\ k.action = Slice(p) /\ Slice(p)[1] = "slice" /\ Slice(p)[2] = p
  BY Kinds DEF Action, Slices, Key
<1>2. k.src = At(tree[c], Full(Slice(p))) /\ k.ins[Config] = {f \in out[c][Config].facts : f[1] \in Syms}
  <2>1. k.src = At(tree[c], Full(Slice(p)))
    BY <1>1, KeyFiles DEF Strict
  <2>2. k.ins = [b \in Needs(Slice(p)) |-> Seen(Slice(p), out[c][b].facts)] /\ Needs(Slice(p)) = {Config}
    BY <1>1, KeyFiles, Inputs
  <2>3. Seen(Slice(p), out[c][Config].facts) = {f \in out[c][Config].facts : f[1] \in Syms}
    BY <1>1 DEF Seen
  <2> QED
    BY <2>1, <2>2, <2>3
<1>8. Sound(k, facts)
  OBVIOUS
<1> HIDE DEF k
<1>3. PICK n \in Nonce : facts = Produce(tree[c], k, n)
  BY <1>1, <1>2, <1>8 DEF Typed, Sound
<1>4. facts = {<<Slice(p), {f \in k.ins[Config] : f[1] \in kept}>>}
  BY <1>1, <1>3 DEF Produce
<1>5. k.ins[Config] = At(tree[c], Syms)
  BY <1>2, ConfigShows
<1>6. kept \subseteq Syms
  <2>1. tree[c][Dir(p)] \in Version
    BY Items DEF Typed, Files
  <2> QED
    BY <2>1 DEF Kept, Syms
<1>7. {f \in At(tree[c], Syms) : f[1] \in kept} = At(tree[c], kept)
  BY <1>6 DEF At
<1> QED
  BY <1>4, <1>5, <1>7 DEF CleanSlice

LEMMA GoodGrows ==
  ASSUME NEW files, NEW m, NEW m2, NEW D, NEW E, D \subseteq E, \A b \in D \cap Step : m2[b] = m[b]
  PROVE  Good(files, m, D) \subseteq Good(files, m2, E)
<1>1. {<<b, m[b]>> : b \in D \cap Step} \subseteq {<<b, m2[b]>> : b \in E \cap Step}
  OBVIOUS
<1> QED
  BY <1>1 DEF Good

\* a's facts go with the outputs that are up to date.
Joins(c, a, facts, m) ==
  \E m2 \in [Step -> Nonce] :
    /\ \A b \in done[c] \cap Step : m2[b] = m[b]
    /\ facts \subseteq Good(tree[c], m2, done[c] \cup {a})
    /\ a \in Step => <<a, m2[a]>> \in facts

\* With the next action the build still has one run of each.
LEMMA Gathered ==
  ASSUME Typed, NEW c \in Client, Strict(c), Fresh(c), NEW a \in Action, a \notin done[c],
         Needs(a) \subseteq done[c], NEW facts \in SUBSET Fact, Sound(Key(c, a), facts),
         NEW m \in [Step -> Nonce], OneRun(c, m)
  PROVE  Joins(c, a, facts, m)
<1>1. CASE a \in Step
  <2>1. PICK n \in Nonce : facts = At(tree[c], Full(a)) \cup Gets(c, a) \cup {<<a, n>>}
    BY <1>1, StepRuns
  <2> DEFINE m2 == [m EXCEPT ![a] = n]
  <2>2. m2 \in [Step -> Nonce] /\ m2[a] = n /\ \A b \in done[c] \cap Step : m2[b] = m[b]
    BY <1>1
  <2> HIDE DEF m2
  <2>3. At(tree[c], Full(a)) \subseteq Good(tree[c], m2, done[c] \cup {a})
    <3>1. Full(a) \subseteq Item \ {Slicer}
      <4>1. CASE a = Config \/ a = Rootfs
        BY <4>1, Inputs, Items DEF Full
      <4>2. ASSUME NEW p \in Package, a = Pkg(p)
            PROVE  Full(a) \subseteq Item \ {Slicer}
        BY <4>2, Inputs, Items DEF Full
      <4> QED
        BY <1>1, <4>1, <4>2 DEF Step
    <3> QED
      BY <3>1 DEF At, Good
  <2>4. Good(tree[c], m, done[c]) \subseteq Good(tree[c], m2, done[c] \cup {a})
    BY <2>2, GoodGrows
  <2>5. Gets(c, a) \subseteq Good(tree[c], m2, done[c] \cup {a})
    <3>1. \A b \in Needs(a) : out[c][b].facts \subseteq Good(tree[c], m, done[c])
      BY DEF OneRun
    <3>2. \A b \in Needs(a) : out[c][b].facts \subseteq Good(tree[c], m2, done[c] \cup {a})
      BY <2>4, <3>1
    <3> SUFFICES ASSUME NEW f \in Gets(c, a) PROVE f \in Good(tree[c], m2, done[c] \cup {a})
      OBVIOUS
    <3>3. PICK b \in Needs(a) : f \in out[c][b].facts
      BY DEF Gets
    <3> QED
      BY <3>2, <3>3
  <2>6. <<a, n>> \in Good(tree[c], m2, done[c] \cup {a})
    BY <1>1, <2>2 DEF Good
  <2>7. facts \subseteq Good(tree[c], m2, done[c] \cup {a}) /\ <<a, m2[a]>> \in facts
    BY <2>1, <2>2, <2>3, <2>5, <2>6
  <2> QED
    BY <2>2, <2>7 DEF Joins
<1>2. CASE a \notin Step
  <2>1. PICK p \in Package : a = Slice(p)
    BY <1>2, Kinds
  <2>2. facts = {<<Slice(p), CleanSlice(tree[c], p)>>}
    BY <2>1, Inputs, SliceRuns
  <2>3. facts \subseteq Good(tree[c], m, done[c] \cup {a})
    BY <2>2 DEF Good
  <2> QED
    BY <1>2, <2>3 DEF Joins
<1> QED
  BY <1>1, <1>2

\* When everything is up to date, rootfs has gathered an image that a build
\* from nothing could have made.
LEMMA Whole ==
  ASSUME Typed, NEW c \in Client, Strict(c), Finished(c), Fresh(c),
         NEW m \in [Step -> Nonce], OneRun(c, m)
  PROVE  out[c][Rootfs].facts \in CleanImages(tree[c])
<1> DEFINE image == out[c][Rootfs].facts
<1>1. Rootfs \in Step /\ Config \in Step /\ Step \subseteq Action /\ Action = done[c]
  BY DEF Step, Action, Finished
<1>2. PICK n \in Nonce : image = At(tree[c], Full(Rootfs)) \cup Gets(c, Rootfs) \cup {<<Rootfs, n>>}
  <2>1. Sound(Key(c, Rootfs), image)
    BY <1>1 DEF Fresh
  <2> QED
    BY <1>1, <2>1, StepRuns
<1>3. Full(Rootfs) = Item \ {Slicer}
  BY Inputs, Items DEF Full
<1>4. Good(tree[c], m, Action) =
        At(tree[c], Item \ {Slicer}) \cup {<<Slice(p), CleanSlice(tree[c], p)>> : p \in Package}
          \cup {<<b, m[b]>> : b \in Step}
  BY <1>1 DEF Good
<1>5. image \subseteq Good(tree[c], m, Action)
  BY <1>1 DEF OneRun
<1>6. \A b \in Needs(Rootfs) : out[c][b].facts \subseteq image
  BY <1>2 DEF Gets
<1>7. \A b \in Step : <<b, m[b]>> \in image
  <2>1. \A b \in Step : b = Rootfs \/ b \in Needs(Rootfs)
    BY Inputs DEF Step
  <2> QED
    BY <1>1, <1>6, <2>1 DEF OneRun
<1>8. \A p \in Package : <<Slice(p), CleanSlice(tree[c], p)>> \in image
  <2> SUFFICES ASSUME NEW p \in Package
               PROVE  <<Slice(p), CleanSlice(tree[c], p)>> \in image
    OBVIOUS
  <2>1. Slice(p) \in done[c] /\ Pkg(p) \in Step /\ Pkg(p) \in done[c]
    BY <1>1 DEF Action, Slices, Step
  <2>2. out[c][Slice(p)].facts = {<<Slice(p), CleanSlice(tree[c], p)>>}
    BY <1>1, <2>1, SliceRuns DEF Fresh
  <2>3. PICK x \in Nonce :
          out[c][Pkg(p)].facts = At(tree[c], Full(Pkg(p))) \cup Gets(c, Pkg(p)) \cup {<<Pkg(p), x>>}
    <3>1. Sound(Key(c, Pkg(p)), out[c][Pkg(p)].facts)
      BY <2>1 DEF Fresh
    <3> QED
      BY <2>1, <3>1, StepRuns
  <2>4. Slice(p) \in Needs(Pkg(p)) /\ Pkg(p) \in Needs(Rootfs)
    BY Inputs
  <2> QED
    BY <1>6, <2>2, <2>3, <2>4 DEF Gets
<1>9. Good(tree[c], m, Action) \subseteq image
  <2>1. At(tree[c], Item \ {Slicer}) \subseteq image
    BY <1>2, <1>3
  <2>2. {<<Slice(p), CleanSlice(tree[c], p)>> : p \in Package} \subseteq image
    BY <1>8
  <2>3. {<<b, m[b]>> : b \in Step} \subseteq image
    BY <1>7
  <2> HIDE DEF image
  <2> QED
    BY <1>4, <2>1, <2>2, <2>3
<1>10. image = Good(tree[c], m, Action)
  BY <1>5, <1>9
<1> HIDE DEF image
<1> QED
  BY <1>4, <1>10 DEF CleanImages, image

------------------------------------------------------------------------------
(* What every state is like.                                               *)

SoundAll ==
  /\ \A k \in DOMAIN cache : Sound(k, cache[k])
  /\ \A c \in Client, a \in Action :
       out[c][a] # None => out[c][a].key.action = a /\ Sound(out[c][a].key, out[c][a].facts)

Runs(c) ==
  running[c] # None =>
    /\ flags[c] # None
    /\ running[c] \in Action \ done[c]
    /\ Needs(running[c]) \subseteq done[c]

Builds(c) ==
  /\ Fresh(c)
  /\ Strict(c) => \E m \in [Step -> Nonce] : OneRun(c, m)

IInv == Typed /\ SoundAll /\ \A c \in Client : Runs(c) /\ Builds(c)

LEMMA SameKey ==
  ASSUME NEW c \in Client, NEW a \in Action,
         tree'[c] = tree[c], flags'[c] = flags[c], \A b \in Needs(a) : out'[c][b] = out[c][b]
  PROVE  Key(c, a)' = Key(c, a)
<1>1. [b \in Needs(a) |-> Seen(a, out[c][b].facts)]' = [b \in Needs(a) |-> Seen(a, out[c][b].facts)]
  BY DEF Seen
<1>2. Declared(a, flags[c].dev)' = Declared(a, flags[c].dev)
  BY DEF Declared
<1>3. At(tree[c], Declared(a, flags[c].dev))' = At(tree[c], Declared(a, flags[c].dev))
  BY <1>2 DEF At
<1> QED
  BY <1>1, <1>3 DEF Key

\* A build that does not move.
LEMMA Waits ==
  ASSUME Typed, NEW c \in Client, Builds(c),
         tree'[c] = tree[c], flags'[c] = flags[c], done'[c] = done[c], out'[c] = out[c]
  PROVE  Builds(c)'
<1>1. \A a \in done[c] : Key(c, a)' = Key(c, a)
  BY SameKey DEF Typed
<1>2. Fresh(c)'
  BY <1>1 DEF Builds, Fresh
<1>3. \A m : OneRun(c, m)' <=> OneRun(c, m)
  BY DEF OneRun
<1> QED
  BY <1>2, <1>3 DEF Builds, Strict

\* An action is brought up to date: from the daemon, the cache, or by running.
LEMMA Brought ==
  ASSUME Typed, NEW c \in Client, Builds(c), NEW a \in Action, a \notin done[c],
         Needs(a) \subseteq done[c], NEW e \in Entry, e.key = Key(c, a), Sound(e.key, e.facts),
         out' = [out EXCEPT ![c][a] = e], done' = [done EXCEPT ![c] = @ \cup {a}],
         UNCHANGED <<tree, flags>>
  PROVE  Builds(c)'
<1>1. /\ done'[c] = done[c] \cup {a}
      /\ out'[c][a] = e
      /\ \A b \in done[c] : out'[c][b] = out[c][b]
  BY DEF Typed
<1>2. \A b \in done'[c] : b \in Action /\ Needs(b) \subseteq done[c]
  BY <1>1 DEF Builds, Fresh, Typed
<1>3. \A b \in done'[c] : Key(c, b)' = Key(c, b)
  BY <1>1, <1>2, SameKey
<1>4. e.facts \subseteq Fact /\ e # None
  BY NoneAssumption DEF Entry
<1>5. Fresh(c)'
  BY <1>1, <1>2, <1>3, <1>4 DEF Builds, Fresh
<1>6. ASSUME Strict(c)
      PROVE  \E m \in [Step -> Nonce] : OneRun(c, m)'
  <2>1. PICK m \in [Step -> Nonce] : OneRun(c, m)
    BY <1>6 DEF Builds
  <2>2. PICK m2 \in [Step -> Nonce] :
          /\ \A b \in done[c] \cap Step : m2[b] = m[b]
          /\ e.facts \subseteq Good(tree[c], m2, done[c] \cup {a})
          /\ a \in Step => <<a, m2[a]>> \in e.facts
    <3>1. Sound(Key(c, a), e.facts) /\ Fresh(c) /\ e.facts \in SUBSET Fact
      BY <1>4 DEF Builds
    <3>2. Joins(c, a, e.facts, m)
      BY <1>6, <2>1, <3>1, Gathered
    <3> QED
      BY <3>2 DEF Joins
  <2>3. Good(tree[c], m, done[c]) \subseteq Good(tree[c], m2, done[c] \cup {a})
    BY <2>2, GoodGrows
  <2>4. \A b \in done[c] : /\ out'[c][b].facts \subseteq Good(tree[c], m2, done[c] \cup {a})
                           /\ b \in Step => <<b, m2[b]>> \in out'[c][b].facts
    BY <1>1, <2>1, <2>2, <2>3 DEF OneRun
  <2>5. OneRun(c, m2)'
    <3>1. Good(tree[c], m2, done[c])' = Good(tree[c], m2, done[c] \cup {a})
      BY <1>1 DEF Good, CleanSlice, At
    <3> QED
      BY <1>1, <2>2, <2>4, <3>1 DEF OneRun
  <2> QED
    BY <2>2, <2>5
<1> QED
  BY <1>5, <1>6 DEF Builds, Strict

LEMMA KeyType ==
  ASSUME Typed, NEW c \in Client, Fresh(c), NEW a \in Action, Needs(a) \subseteq done[c]
  PROVE  Key(c, a) \in KeySet
<1>1. At(tree[c], IF flags[c].dev THEN TreeInputs(a) ELSE Full(a)) \in SUBSET Fact
  <2>1. TreeInputs(a) \subseteq Item /\ Full(a) \subseteq Item
    BY ActionInputs DEF Full
  <2>2. \A i \in Item : <<i, tree[c][i]>> \in Fact
    BY DEF Typed, Files, Fact
  <2> QED
    BY <2>1, <2>2 DEF At
<1>2. \A b \in Needs(a) : Seen(a, out[c][b].facts) \in SUBSET Fact
  BY DEF Fresh, Seen
<1>3. Key(c, a) = [action |-> a,
                   src    |-> At(tree[c], IF flags[c].dev THEN TreeInputs(a) ELSE Full(a)),
                   ins    |-> [b \in Needs(a) |-> Seen(a, out[c][b].facts)]]
  BY KeyFiles DEF Key
<1> QED
  BY <1>1, <1>2, <1>3 DEF KeySet

LEMMA KeyParts ==
  ASSUME NEW k \in KeySet
  PROVE  /\ k.action \in Action /\ k.src \in SUBSET Fact /\ k.ins \in [Needs(k.action) -> SUBSET Fact]
BY DEF KeySet

LEMMA ProduceType ==
  ASSUME NEW f \in Files, NEW k \in KeySet, NEW n \in Nonce
  PROVE  Produce(f, k, n) \in SUBSET Fact
<1>1. CASE k.action[1] = "slice"
  <2>1. PICK p \in Package : k.action = Slice(p)
    BY <1>1, Kinds, KeyParts
  <2> DEFINE kept == Kept(p, f[Dir(p)], f[Slicer])
             S == {x \in k.ins[Config] : x[1] \in kept}
  <2>2. kept \subseteq Syms
    <3>1. f[Dir(p)] \in Version
      BY Items DEF Files
    <3> QED
      BY <3>1 DEF Kept, Syms
  <2>3. k.ins[Config] \subseteq Fact
    BY <2>1, KeyParts, Inputs
  <2>4. \A x \in Fact : x[1] \in Syms => x \in Syms \X Version
    BY Kinds DEF Fact, Action, Item
  <2>5. S \in SUBSET (Syms \X Version)
    BY <2>2, <2>3, <2>4
  <2>6. Produce(f, k, n) = {<<Slice(p), S>>}
    BY <1>1, <2>1, Kinds DEF Produce
  <2> HIDE DEF S
  <2>7. <<Slice(p), S>> \in Slices \X SUBSET (Syms \X Version)
    BY <2>5 DEF Slices
  <2> QED
    BY <2>6, <2>7 DEF Fact
<1>2. CASE k.action[1] # "slice"
  <2>1. k.action \in Step
    BY <1>2, Kinds, KeyParts
  <2>2. At(f, {ScriptOf(k.action)}) \subseteq Fact
    BY KeyParts, ActionInputs DEF At, Files, Fact
  <2>3. Ins(k) \subseteq Fact
    BY KeyParts DEF Ins
  <2>4. <<k.action, n>> \in Fact
    BY <2>1 DEF Fact
  <2>5. Produce(f, k, n) = k.src \cup At(f, {ScriptOf(k.action)}) \cup {<<k.action, n>>} \cup Ins(k)
    BY <1>2, StepMakes
  <2>6. k.src \subseteq Fact
    BY KeyParts
  <2> QED
    BY <2>2, <2>3, <2>4, <2>5, <2>6
<1> QED
  BY <1>1, <1>2

LEMMA Initially == Init => IInv
<1> SUFFICES ASSUME Init PROVE IInv
  OBVIOUS
<1>1. tree \in [Client -> Files]
  BY DEF Init, Files
<1>2. DOMAIN cache = {} /\ cache \in [DOMAIN cache -> SUBSET Fact]
  BY DEF Init
<1>3. setting.edits \in Nat /\ setting.evictions \in Nat
  BY DEF Init, Setting
<1>4. Typed
  <2>1. edits \in 0..setting.edits /\ builds \in 0..MaxBuilds /\ evictions \in 0..setting.evictions
    BY <1>3 DEF Init
  <2>2. /\ setting \in Settings
        /\ out \in [Client -> [Action -> Entry \cup {None}]]
        /\ flags \in [Client -> Modes \cup {None}]
        /\ done \in [Client -> SUBSET Action]
        /\ running \in [Client -> Action \cup {None}]
    BY DEF Init
  <2> QED
    BY <1>1, <1>2, <2>1, <2>2 DEF Typed
<1>5. SoundAll
  BY <1>2 DEF Init, SoundAll
<1>6. \A c \in Client : Runs(c) /\ Builds(c)
  BY DEF Init, Runs, Builds, Fresh, Strict
<1> QED
  BY <1>4, <1>5, <1>6 DEF IInv

\* Nothing runs outside of a build.
LEMMA Idle ==
  ASSUME Typed, NEW c \in Client, Runs(c), ~Building(c)
  PROVE  running[c] = None
BY DEF Runs, Building, Finished

\* Outside of builds: an edit, a command, buck2 clean; and a build that ends
\* before its time.  The client's build starts again from nothing.
LEMMA Restarts ==
  ASSUME IInv, NEW c \in Client,
         done' = [done EXCEPT ![c] = {}], running'[c] = None,
         \A x \in Client \ {c} : /\ tree'[x] = tree[x] /\ flags'[x] = flags[x]
                                 /\ out'[x] = out[x] /\ running'[x] = running[x]
  PROVE  \A x \in Client : Runs(x)' /\ Builds(x)'
<1>1. done'[c] = {} /\ \A x \in Client \ {c} : done'[x] = done[x]
  BY DEF IInv, Typed
<1>2. Runs(c)'
  BY DEF Runs
<1>3. Fresh(c)'
  BY <1>1 DEF Fresh
<1>4. \E m \in [Step -> Nonce] : OneRun(c, m)'
  <2>1. [a \in Step |-> Same] \in [Step -> Nonce]
    OBVIOUS
  <2> QED
    BY <1>1, <2>1 DEF OneRun
<1>5. ASSUME NEW x \in Client, x # c
      PROVE  Runs(x)' /\ Builds(x)'
  <2>1. Builds(x)'
    BY <1>1, <1>5, Waits DEF IInv
  <2> QED
    BY <1>1, <1>5, <2>1 DEF IInv, Runs
<1> QED
  BY <1>2, <1>3, <1>4, <1>5 DEF Builds

LEMMA EditKept ==
  ASSUME IInv, NEW c \in Client, NEW i \in setting.editable, NEW v \in Version, Edit(c, i, v)
  PROVE  IInv'
<1>1. running[c] = None
  BY Idle DEF IInv, Edit
<1>2. setting.editable \subseteq Item /\ setting.edits \in Nat
  BY DEF IInv, Typed, Setting
<1>3. tree' \in [Client -> Files] /\ \A x \in Client \ {c} : tree'[x] = tree[x]
  BY <1>2 DEF IInv, Typed, Edit, Files
<1>4. /\ flags' \in [Client -> Modes \cup {None}] /\ done' \in [Client -> SUBSET Action]
      /\ \A x \in Client \ {c} : flags'[x] = flags[x]
  BY DEF IInv, Typed, Edit
<1>5. edits' \in 0..setting.edits
  <2>1. edits < setting.edits /\ edits' = edits + 1 /\ edits \in 0..setting.edits
    BY DEF IInv, Typed, Edit
  <2> QED
    BY <1>2, <2>1
<1>6. UNCHANGED <<setting, out, running, cache, builds, evictions>>
  BY DEF Edit
<1>7. Typed'
  BY <1>3, <1>4, <1>5, <1>6 DEF IInv, Typed
<1>8. SoundAll'
  BY <1>6 DEF IInv, SoundAll
<1>9. \A x \in Client : Runs(x)' /\ Builds(x)'
  <2>1. done' = [done EXCEPT ![c] = {}]
    BY DEF Edit
  <2> QED
    BY <1>1, <1>3, <1>4, <1>6, <2>1, Restarts
<1> QED
  BY <1>7, <1>8, <1>9 DEF IInv

LEMMA StartKept ==
  ASSUME IInv, NEW c \in Client, NEW mode \in setting.modes, Start(c, mode)
  PROVE  IInv'
<1>1. running[c] = None
  BY Idle DEF IInv, Start
<1>2. setting.modes \subseteq Modes
  BY DEF IInv, Typed, Setting
<1>3. /\ flags' \in [Client -> Modes \cup {None}] /\ done' \in [Client -> SUBSET Action]
      /\ \A x \in Client \ {c} : flags'[x] = flags[x]
  BY <1>2 DEF IInv, Typed, Start
<1>4. builds' \in 0..MaxBuilds
  <2>1. builds < MaxBuilds /\ builds' = builds + 1 /\ builds \in 0..MaxBuilds
    BY DEF IInv, Typed, Start
  <2> QED
    BY <2>1
<1>5. UNCHANGED <<setting, tree, out, running, cache, edits, evictions>>
  BY DEF Start
<1>6. Typed'
  BY <1>3, <1>4, <1>5 DEF IInv, Typed
<1>7. SoundAll'
  BY <1>5 DEF IInv, SoundAll
<1>8. \A x \in Client : Runs(x)' /\ Builds(x)'
  <2>1. done' = [done EXCEPT ![c] = {}]
    BY DEF Start
  <2> QED
    BY <1>1, <1>3, <1>5, <2>1, Restarts
<1> QED
  BY <1>6, <1>7, <1>8 DEF IInv

LEMMA CleanKept ==
  ASSUME IInv, NEW c \in Client, Clean(c)
  PROVE  IInv'
<1>1. running[c] = None
  BY Idle DEF IInv, Clean
<1>2. /\ out' \in [Client -> [Action -> Entry \cup {None}]]
      /\ \A a \in Action : out'[c][a] = None
      /\ \A x \in Client \ {c} : out'[x] = out[x] /\ flags'[x] = flags[x]
  BY DEF IInv, Typed, Clean
<1>3. flags' \in [Client -> Modes \cup {None}] /\ done' \in [Client -> SUBSET Action]
  BY DEF IInv, Typed, Clean
<1>4. UNCHANGED <<setting, tree, running, cache, edits, builds, evictions>>
  BY DEF Clean
<1>5. Typed'
  BY <1>2, <1>3, <1>4 DEF IInv, Typed
<1>6. SoundAll'
  BY <1>2, <1>4 DEF IInv, SoundAll
<1>7. \A x \in Client : Runs(x)' /\ Builds(x)'
  <2>1. done' = [done EXCEPT ![c] = {}]
    BY DEF Clean
  <2> QED
    BY <1>1, <1>2, <1>4, <2>1, Restarts
<1> QED
  BY <1>5, <1>6, <1>7 DEF IInv

LEMMA AbortKept ==
  ASSUME IInv, NEW c \in Client, Abort(c)
  PROVE  IInv'
<1>1. /\ running' \in [Client -> Action \cup {None}] /\ running'[c] = None
      /\ \A x \in Client \ {c} : running'[x] = running[x] /\ flags'[x] = flags[x]
  BY DEF IInv, Typed, Abort
<1>2. flags' \in [Client -> Modes \cup {None}] /\ done' \in [Client -> SUBSET Action]
  BY DEF IInv, Typed, Abort
<1>3. UNCHANGED <<setting, tree, out, cache, edits, builds, evictions>>
  BY DEF Abort
<1>4. Typed'
  BY <1>1, <1>2, <1>3 DEF IInv, Typed
<1>5. SoundAll'
  BY <1>3 DEF IInv, SoundAll
<1>6. \A x \in Client : Runs(x)' /\ Builds(x)'
  <2>1. done' = [done EXCEPT ![c] = {}]
    BY DEF Abort
  <2> QED
    BY <1>1, <1>3, <2>1, Restarts
<1> QED
  BY <1>4, <1>5, <1>6 DEF IInv

CacheOK ==
  /\ DOMAIN cache \subseteq KeySet
  /\ cache \in [DOMAIN cache -> SUBSET Fact]
  /\ \A k \in DOMAIN cache : Sound(k, cache[k])

LEMMA AdvanceKept ==
  ASSUME IInv, NEW c \in Client, NEW a \in Action, a \notin done[c], Needs(a) \subseteq done[c],
         NEW e \in Entry, e.key = Key(c, a), Sound(e.key, e.facts),
         out' = [out EXCEPT ![c][a] = e], done' = [done EXCEPT ![c] = @ \cup {a}],
         running' \in [Client -> Action \cup {None}], running'[c] = None,
         \A x \in Client \ {c} : running'[x] = running[x],
         CacheOK',
         UNCHANGED <<setting, tree, flags, edits, builds, evictions>>
  PROVE  IInv'
<1>1. /\ out' \in [Client -> [Action -> Entry \cup {None}]]
      /\ out'[c][a] = e
      /\ \A x \in Client, b \in Action : x # c \/ b # a => out'[x][b] = out[x][b]
  BY DEF IInv, Typed
<1>2. done' \in [Client -> SUBSET Action]
  BY DEF IInv, Typed
<1>3. Typed'
  BY <1>1, <1>2 DEF IInv, Typed, CacheOK
<1>4. e.key.action = a
  <2>1. Key(c, a).action = a
    BY KeyFiles
  <2> QED
    BY <2>1
<1>5. SoundAll'
  BY <1>1, <1>4 DEF IInv, SoundAll, CacheOK
<1>6. Builds(c)'
  BY Brought DEF IInv
<1>7. Runs(c)'
  BY DEF Runs
<1>8. ASSUME NEW x \in Client, x # c
      PROVE  Runs(x)' /\ Builds(x)'
  <2>1. out'[x] = out[x] /\ done'[x] = done[x]
    BY <1>8 DEF IInv, Typed
  <2>2. Builds(x)'
    BY <2>1, Waits DEF IInv
  <2> QED
    BY <1>8, <2>1, <2>2 DEF IInv, Runs
<1> QED
  BY <1>3, <1>5, <1>6, <1>7, <1>8 DEF IInv

LEMMA CacheStays == ASSUME IInv, UNCHANGED cache PROVE CacheOK'
BY DEF IInv, Typed, SoundAll, CacheOK

LEMMA ReuseKept ==
  ASSUME IInv, NEW c \in Client, NEW a \in Action, Reuse(c, a)
  PROVE  IInv'
<1> DEFINE e == out[c][a]
<1>1. a \notin done[c] /\ Needs(a) \subseteq done[c] /\ running[c] = None
  BY DEF Reuse, Ready
<1>2. e # None /\ e \in Entry /\ e.key = Key(c, a)
  BY DEF Reuse, UpToDate, IInv, Typed
<1>3. Sound(e.key, e.facts)
  BY <1>2 DEF IInv, SoundAll
<1>4. out' = [out EXCEPT ![c][a] = e] /\ UNCHANGED <<setting, tree, running, flags, cache, edits, builds, evictions>>
  BY DEF Reuse, IInv, Typed
<1>5. done' = [done EXCEPT ![c] = @ \cup {a}]
  BY DEF Reuse, Advance
<1>6. running' \in [Client -> Action \cup {None}] /\ CacheOK'
  BY <1>4, CacheStays DEF IInv, Typed
<1> HIDE DEF e
<1> QED
  BY <1>1, <1>2, <1>3, <1>4, <1>5, <1>6, AdvanceKept

LEMMA HitKept ==
  ASSUME IInv, NEW c \in Client, NEW a \in Action, Hit(c, a)
  PROVE  IInv'
<1> DEFINE e == [key |-> Key(c, a), facts |-> cache[Key(c, a)]]
<1>1. a \notin done[c] /\ Needs(a) \subseteq done[c] /\ running[c] = None
  BY DEF Hit, Ready
<1>2. Key(c, a) \in DOMAIN cache
  BY DEF Hit, Cached
<1>3. e \in Entry /\ e.key = Key(c, a) /\ Sound(e.key, e.facts)
  BY <1>2 DEF IInv, Typed, SoundAll, Entry
<1>4. out' = [out EXCEPT ![c][a] = e] /\ UNCHANGED <<setting, tree, running, flags, cache, edits, builds, evictions>>
  BY DEF Hit
<1>5. done' = [done EXCEPT ![c] = @ \cup {a}]
  BY DEF Hit, Advance
<1>6. running' \in [Client -> Action \cup {None}] /\ CacheOK'
  BY <1>4, CacheStays DEF IInv, Typed
<1> HIDE DEF e
<1> QED
  BY <1>1, <1>3, <1>4, <1>5, <1>6, AdvanceKept

LEMMA ExecuteKept ==
  ASSUME IInv, NEW c \in Client, NEW n \in Nonce, Execute(c, n)
  PROVE  IInv'
<1> DEFINE a     == running[c]
           k     == Key(c, a)
           facts == Produce(tree[c], k, n)
           e     == [key |-> k, facts |-> facts]
<1>1. a \in Action /\ a \notin done[c] /\ Needs(a) \subseteq done[c] /\ Fresh(c)
  BY DEF Execute, IInv, Runs, Builds
<1>2. k \in KeySet /\ k.action = a
  BY <1>1, KeyType, KeyFiles DEF IInv
<1>3. facts \in SUBSET Fact
  BY <1>2, ProduceType DEF IInv, Typed
<1>4. Sound(k, facts)
  <2>1. k.src = At(tree[c], TreeInputs(a)) \/ k.src = At(tree[c], Full(a))
    BY <1>1, KeyFiles
  <2>2. tree[c] \in Files
    BY DEF IInv, Typed
  <2> HIDE DEF k
  <2> QED
    BY <1>1, <1>2, <2>1, <2>2, RunsAreSound
<1>5. e \in Entry /\ e.key = Key(c, a) /\ Sound(e.key, e.facts)
  BY <1>2, <1>3, <1>4 DEF Entry
<1>6. /\ out' = [out EXCEPT ![c][a] = e]
      /\ cache' = (IF flags[c].store
                     THEN [x \in DOMAIN cache \cup {k} |-> IF x = k THEN facts ELSE cache[x]]
                     ELSE cache)
      /\ done' = [done EXCEPT ![c] = @ \cup {a}]
      /\ running' = [running EXCEPT ![c] = None]
      /\ UNCHANGED <<setting, tree, flags, edits, builds, evictions>>
  BY DEF Execute, Advance
<1> HIDE DEF a, k, facts, e
<1>7. CacheOK'
  <2>1. CASE cache' = cache
    BY <2>1, CacheStays
  <2>2. CASE cache' = [x \in DOMAIN cache \cup {k} |-> IF x = k THEN facts ELSE cache[x]]
    <3>1. DOMAIN cache' = DOMAIN cache \cup {k}
      BY <2>2
    <3>2. \A x \in DOMAIN cache' : cache'[x] = IF x = k THEN facts ELSE cache[x]
      BY <2>2
    <3> QED
      BY <1>2, <1>3, <1>4, <2>2, <3>1, <3>2 DEF CacheOK, IInv, Typed, SoundAll
  <2> QED
    BY <1>6, <2>1, <2>2
<1>8. /\ running' \in [Client -> Action \cup {None}] /\ running'[c] = None
      /\ \A x \in Client \ {c} : running'[x] = running[x]
  BY <1>6 DEF IInv, Typed
<1> QED
  BY <1>1, <1>5, <1>6, <1>7, <1>8, AdvanceKept

LEMMA MissKept ==
  ASSUME IInv, NEW c \in Client, NEW a \in Action, Miss(c, a)
  PROVE  IInv'
<1>1. a \notin done[c] /\ Needs(a) \subseteq done[c] /\ flags[c] # None
  BY DEF Miss, Ready
<1>2. /\ running' \in [Client -> Action \cup {None}] /\ running'[c] = a
      /\ \A x \in Client \ {c} : running'[x] = running[x]
      /\ UNCHANGED <<setting, tree, out, done, flags, cache, edits, builds, evictions>>
  BY DEF Miss, IInv, Typed
<1>3. Typed' /\ SoundAll'
  BY <1>2 DEF IInv, Typed, SoundAll
<1>4. \A x \in Client : Builds(x)'
  BY <1>2, Waits DEF IInv
<1>5. \A x \in Client : Runs(x)'
  BY <1>1, <1>2 DEF IInv, Runs
<1> QED
  BY <1>3, <1>4, <1>5 DEF IInv

LEMMA EvictKept ==
  ASSUME IInv, NEW k \in DOMAIN cache, Evict(k)
  PROVE  IInv'
<1>1. UNCHANGED <<setting, tree, out, done, running, flags, edits, builds>>
  BY DEF Evict
<1>2. cache' = [x \in DOMAIN cache \ {k} |-> cache[x]]
  BY DEF Evict
<1>3. evictions' \in 0..setting.evictions
  <2>1. setting.evictions \in Nat
    BY DEF IInv, Typed, Setting
  <2>2. evictions < setting.evictions /\ evictions' = evictions + 1 /\ evictions \in 0..setting.evictions
    BY DEF Evict, IInv, Typed
  <2> QED
    BY <2>1, <2>2
<1>4. Typed'
  BY <1>1, <1>2, <1>3 DEF IInv, Typed
<1>5. SoundAll'
  BY <1>1, <1>2 DEF IInv, SoundAll
<1>6. \A c \in Client : Runs(c)' /\ Builds(c)'
  BY <1>1, Waits DEF IInv, Runs
<1> QED
  BY <1>4, <1>5, <1>6 DEF IInv

LEMMA StepKept == IInv /\ [Next]_vars => IInv'
<1> SUFFICES ASSUME IInv, [Next]_vars PROVE IInv'
  OBVIOUS
<1>1. setting.clients \subseteq Client
  BY DEF IInv, Typed, Setting
<1>2. CASE UNCHANGED vars
  <2>1. UNCHANGED <<setting, tree, out, done, running, flags, cache, edits, builds, evictions>>
    BY <1>2 DEF vars
  <2>2. Typed' /\ SoundAll'
    BY <2>1 DEF IInv, Typed, SoundAll
  <2>3. \A c \in Client : Runs(c)' /\ Builds(c)'
    BY <2>1, Waits DEF IInv, Runs
  <2> QED
    BY <2>2, <2>3 DEF IInv
<1>3. ASSUME NEW c \in setting.clients, NEW i \in setting.editable, NEW v \in Version, Edit(c, i, v)
      PROVE  IInv'
  BY <1>1, <1>3, EditKept
<1>4. ASSUME NEW c \in setting.clients, NEW m \in setting.modes, Start(c, m)
      PROVE  IInv'
  BY <1>1, <1>4, StartKept
<1>5. ASSUME NEW c \in setting.clients, Clean(c)
      PROVE  IInv'
  BY <1>1, <1>5, CleanKept
<1>6. ASSUME NEW c \in setting.clients, NEW a \in Action, Reuse(c, a) \/ Hit(c, a) \/ Miss(c, a)
      PROVE  IInv'
  BY <1>1, <1>6, ReuseKept, HitKept, MissKept
<1>7. ASSUME NEW c \in setting.clients, NEW n \in Nonce, Execute(c, n)
      PROVE  IInv'
  BY <1>1, <1>7, ExecuteKept
<1>8. ASSUME NEW c \in setting.clients, Abort(c)
      PROVE  IInv'
  BY <1>1, <1>8, AbortKept
<1>9. ASSUME NEW k \in DOMAIN cache, Evict(k)
      PROVE  IInv'
  BY <1>9, EvictKept
<1> QED
  BY <1>2, <1>3, <1>4, <1>5, <1>6, <1>7, <1>8, <1>9 DEF Next

LEMMA Invariant == Spec => []IInv
BY Initially, StepKept, PTL DEF Spec

\* Every variable of ActionCache has its type in every reachable state.
THEOREM CacheType == Spec => []TypeOK
<1>1. IInv => TypeOK
  <2> SUFFICES ASSUME IInv PROVE TypeOK
    OBVIOUS
  <2>1. ASSUME NEW c \in Client, NEW a \in Action, out[c][a] # None
        PROVE  /\ out[c][a].key.action = a
               /\ DOMAIN out[c][a].key.ins = Needs(a)
               /\ out[c][a].facts \subseteq Fact
    <3>1. out[c][a] \in Entry
      BY <2>1 DEF IInv, Typed
    <3>2. out[c][a].key \in KeySet /\ out[c][a].facts \subseteq Fact
      BY <3>1 DEF Entry
    <3>3. out[c][a].key.action = a
      BY <2>1 DEF IInv, SoundAll
    <3> QED
      BY <3>2, <3>3, KeyParts
  <2>2. \A k \in DOMAIN cache : k.action \in Action /\ cache[k] \subseteq Fact
    BY KeyParts DEF IInv, Typed
  <2> QED
    BY <2>1, <2>2 DEF IInv, Typed, Files, TypeOK
<1> QED
  BY <1>1, Invariant, PTL

------------------------------------------------------------------------------
(* The refinement.                                                         *)

\* The images that are handed out, as the mapping to CleanBuild takes them.
Images == [c \in Client |-> IF Finished(c) /\ Strict(c) THEN out[c][Rootfs].facts ELSE None]

OthersKeep(c) ==
  \A x \in Client \ {c} :
    /\ tree'[x] = tree[x] /\ flags'[x] = flags[x] /\ done'[x] = done[x] /\ out'[x] = out[x]

LEMMA OneImage ==
  ASSUME NEW c \in Client, OthersKeep(c), NEW i,
         (IF Finished(c)' /\ Strict(c)' THEN out'[c][Rootfs].facts ELSE None) = i
  PROVE  Images' = [Images EXCEPT ![c] = i]
<1>1. \A x \in Client \ {c} : Images'[x] = Images[x]
  BY DEF Images, OthersKeep, Finished, Strict
<1>2. Images'[c] = i
  BY DEF Images
<1> QED
  BY <1>1, <1>2 DEF Images

LEMMA Withdraws ==
  ASSUME NEW c \in Client, OthersKeep(c), done'[c] = {}
  PROVE  Images' = [Images EXCEPT ![c] = None]
<1>1. ~Finished(c)'
  BY DEF Finished, Action, Step
<1> QED
  BY <1>1, OneImage

LEMMA Discards ==
  ASSUME NEW c \in Client, OthersKeep(c), done'[c] = {}, UNCHANGED tree
  PROVE  Promise!Next
BY Withdraws DEF Promise!Next, Promise!Discard, Images

\* What is handed out, a build from nothing could have made.
Ends ==
  \A c \in Client :
    Finished(c) /\ Strict(c) => out[c][Rootfs].facts \in CleanImages(tree[c])

LEMMA EndsClean == IInv => Ends
<1> SUFFICES ASSUME IInv, NEW c \in Client, Finished(c), Strict(c)
             PROVE  out[c][Rootfs].facts \in CleanImages(tree[c])
  BY DEF Ends
<1>1. PICK m \in [Step -> Nonce] : OneRun(c, m)
  BY DEF IInv, Builds
<1> QED
  BY <1>1, Whole DEF IInv, Builds

\* A build that goes on publishes its image when it is finished.
LEMMA Publishes ==
  ASSUME Ends', NEW c \in Client, OthersKeep(c), ~Finished(c), UNCHANGED tree
  PROVE  [Promise!Next]_(Promise!vars)
<1>1. CASE Finished(c)' /\ Strict(c)'
  <2>1. Images' = [Images EXCEPT ![c] = out'[c][Rootfs].facts]
    BY <1>1, OneImage
  <2>2. CleanImages(tree[c])' = CleanImages(tree[c])
    BY DEF CleanImages, At, CleanSlice
  <2>3. out'[c][Rootfs].facts \in CleanImages(tree[c])
    BY <1>1, <2>2 DEF Ends
  <2> QED
    BY <2>1, <2>3 DEF Promise!Next, Promise!Publish, Images
<1>2. CASE ~(Finished(c)' /\ Strict(c)')
  <2>1. Images' = Images
    <3>1. Images' = [Images EXCEPT ![c] = None]
      BY <1>2, OneImage
    <3>2. Images[c] = None
      BY DEF Images
    <3> QED
      BY <3>1, <3>2 DEF Images
  <2> QED
    BY <2>1 DEF Promise!vars, Images
<1> QED
  BY <1>1, <1>2

\* Whatever was edited, built in dev mode, abandoned, shared or forgotten
\* before, the image a strict build hands out is one that a build from nothing
\* could have made of the checkout as it is.
THEOREM BuildsAreClean == Spec => RefinesCleanBuild
<1>1. Init => Promise!Init
  <2> SUFFICES ASSUME Init PROVE Promise!Init
    OBVIOUS
  <2>1. tree \in [Client -> [Item -> Version]]
    BY DEF Init
  <2>2. Images = [c \in Client |-> None]
    BY DEF Init, Images, Strict
  <2> QED
    BY <2>1, <2>2 DEF Promise!Init, Images
<1>2. IInv /\ Ends' /\ [Next]_vars => [Promise!Next]_(Promise!vars)
  <2> SUFFICES ASSUME IInv, Ends', [Next]_vars
               PROVE  [Promise!Next]_(Promise!vars)
    OBVIOUS
  <2>1. setting.clients \subseteq Client /\ setting.editable \subseteq Item
    BY DEF IInv, Typed, Setting
  <2>2. ASSUME UNCHANGED <<tree, out, done, flags>>
        PROVE  UNCHANGED Promise!vars
    BY <2>2 DEF Promise!vars, Finished, Strict
  <2>3. CASE UNCHANGED vars
    BY <2>2, <2>3 DEF vars
  <2>4. ASSUME NEW c \in setting.clients, NEW i \in setting.editable, NEW v \in Version, Edit(c, i, v)
        PROVE  Promise!Next
    <3>1. OthersKeep(c) /\ done'[c] = {} /\ tree' = [tree EXCEPT ![c][i] = v]
      BY <2>1, <2>4 DEF Edit, OthersKeep, IInv, Typed
    <3>2. Images' = [Images EXCEPT ![c] = None]
      BY <2>1, <3>1, Withdraws
    <3> QED
      BY <2>1, <3>1, <3>2 DEF Promise!Next, Promise!Edit, Images
  <2>5. ASSUME NEW c \in setting.clients, NEW m \in setting.modes, Start(c, m)
        PROVE  Promise!Next
    <3>1. OthersKeep(c) /\ done'[c] = {} /\ UNCHANGED tree
      BY <2>1, <2>5 DEF Start, OthersKeep, IInv, Typed
    <3> QED
      BY <2>1, <3>1, Discards
  <2>6. ASSUME NEW c \in setting.clients, Clean(c) \/ Abort(c)
        PROVE  Promise!Next
    <3>1. OthersKeep(c) /\ done'[c] = {} /\ UNCHANGED tree
      BY <2>1, <2>6 DEF Clean, Abort, OthersKeep, IInv, Typed
    <3> QED
      BY <2>1, <3>1, Discards
  <2>7. ASSUME NEW c \in setting.clients, NEW a \in Action, Reuse(c, a) \/ Hit(c, a)
        PROVE  [Promise!Next]_(Promise!vars)
    <3>1. OthersKeep(c) /\ ~Finished(c) /\ UNCHANGED tree
      BY <2>1, <2>7 DEF Reuse, Hit, Ready, Advance, Finished, OthersKeep, IInv, Typed
    <3> QED
      BY <2>1, <3>1, Publishes
  <2>8. ASSUME NEW c \in setting.clients, NEW n \in Nonce, Execute(c, n)
        PROVE  [Promise!Next]_(Promise!vars)
    <3>1. running[c] \in Action \ done[c] /\ UNCHANGED tree /\ c \in Client
      BY <2>1, <2>8 DEF Execute, IInv, Runs
    <3>2. OthersKeep(c)
      <4>1. \E e : out' = [out EXCEPT ![c][running[c]] = e]
        BY <2>8 DEF Execute
      <4>2. done' = [done EXCEPT ![c] = @ \cup {running[c]}] /\ UNCHANGED <<tree, flags>>
        BY <2>8 DEF Execute, Advance
      <4> QED
        BY <2>1, <4>1, <4>2 DEF OthersKeep, IInv, Typed
    <3> QED
      BY <3>1, <3>2, Publishes DEF Finished
  <2>9. ASSUME NEW c \in setting.clients, NEW a \in Action, Miss(c, a)
        PROVE  UNCHANGED Promise!vars
    BY <2>2, <2>9 DEF Miss
  <2>10. ASSUME NEW k \in DOMAIN cache, Evict(k)
         PROVE  UNCHANGED Promise!vars
    BY <2>2, <2>10 DEF Evict
  <2> QED
    BY <2>3, <2>4, <2>5, <2>6, <2>7, <2>8, <2>9, <2>10 DEF Next
<1> QED
  BY <1>1, <1>2, Invariant, EndsClean, PTL DEF Spec, RefinesCleanBuild, Promise!Spec

------------------------------------------------------------------------------
(* What is not built again.                                                *)

\* All checkouts that were built since then agree on what p depends on.
Agree(c, p) == \A t \in built[c], u \in built[c] : Narrow(t, p) = Narrow(u, p)

\* p's last output is the one it has in t, with the outputs of its closure
\* that the daemon still has.
StandsFor(c, p, t) ==
  /\ out[c][Pkg(p)] # None
  /\ out[c][Pkg(p)].key.src = At(t, Full(Pkg(p)))
  /\ out[c][Pkg(p)].key.ins[Slice(p)] = {<<Slice(p), CleanSlice(t, p)>>}
  /\ \A q \in Closure[p] \ {p} : out[c][Pkg(p)].key.ins[Pkg(q)] = out[c][Pkg(q)].facts

Remembers(c) ==
  built[c] # None =>
    /\ flags[c] # None => Strict(c) /\ tree[c] \in built[c]
    /\ \A p \in Package :
         Agree(c, p) => /\ \A t \in built[c] : StandsFor(c, p, t)
                        /\ running[c] # Pkg(p)

Checkouts == (SUBSET Files) \ {{}}

NInv ==
  /\ built \in [Client -> Checkouts \cup {None}]
  /\ \A c \in Client : Remembers(c)

LEMMA NarrowSrc ==
  ASSUME NEW p \in Package, NEW t, NEW u, Narrow(t, p) = Narrow(u, p)
  PROVE  /\ At(t, Full(Pkg(p))) = At(u, Full(Pkg(p)))
         /\ \A q \in Closure[p] : CleanSlice(t, q) = CleanSlice(u, q)
<1>1. Full(Pkg(p)) = {Dir(q) : q \in Closure[p]} \cup {Driver}
  BY Inputs DEF Full
<1>2. [q \in Closure[p] |-> CleanSlice(t, q)] = [q \in Closure[p] |-> CleanSlice(u, q)]
  BY DEF Narrow
<1>3. ASSUME NEW q \in Closure[p] PROVE CleanSlice(t, q) = CleanSlice(u, q)
  <2>1. [r \in Closure[p] |-> CleanSlice(t, r)][q] = [r \in Closure[p] |-> CleanSlice(u, r)][q]
    BY <1>2
  <2> QED
    BY <2>1
<1> QED
  BY <1>1, <1>3 DEF Narrow

\* What a package depends on holds what its dependencies depend on.
LEMMA NarrowDown ==
  ASSUME NEW p \in Package, NEW q \in Closure[p], NEW t, NEW u, Narrow(t, p) = Narrow(u, p)
  PROVE  Narrow(t, q) = Narrow(u, q)
<1>1. q \in Package /\ Closure[q] \subseteq Closure[p]
  OBVIOUS
<1> DEFINE S == {Dir(r) : r \in Closure[q]} \cup {Driver}
<1>2. S \subseteq Full(Pkg(p))
  BY <1>1, Inputs DEF Full
<1>3. At(t, Full(Pkg(p))) = At(u, Full(Pkg(p)))
  BY NarrowSrc
<1>4. ASSUME NEW i \in Full(Pkg(p)) PROVE t[i] = u[i]
  <2>1. <<i, t[i]>> \in At(u, Full(Pkg(p)))
    BY <1>3 DEF At
  <2>2. PICK j \in Full(Pkg(p)) : <<i, t[i]>> = <<j, u[j]>>
    BY <2>1 DEF At
  <2> QED
    BY <2>2
<1> HIDE DEF S
<1>5. At(t, S) = At(u, S)
  BY <1>2, <1>4 DEF At
<1>6. \A r \in Closure[q] : CleanSlice(t, r) = CleanSlice(u, r)
  BY <1>1, NarrowSrc
<1>7. [r \in Closure[q] |-> CleanSlice(t, r)] = [r \in Closure[q] |-> CleanSlice(u, r)]
  BY <1>6
<1> QED
  BY <1>5, <1>7 DEF Narrow, S

LEMMA AgreeDown ==
  ASSUME NEW c, NEW p \in Package, NEW q \in Closure[p], Agree(c, p)
  PROVE  Agree(c, q)
BY NarrowDown DEF Agree

\* In a strict build p's slice and its key are the checkout's.
LEMMA StrictKey ==
  ASSUME Typed, NEW c \in Client, Strict(c), Fresh(c), NEW p \in Package, Needs(Pkg(p)) \subseteq done[c]
  PROVE  /\ Key(c, Pkg(p)).action = Pkg(p)
         /\ Key(c, Pkg(p)).src = At(tree[c], Full(Pkg(p)))
         /\ Key(c, Pkg(p)).ins = [b \in Needs(Pkg(p)) |-> out[c][b].facts]
         /\ out[c][Slice(p)].facts = {<<Slice(p), CleanSlice(tree[c], p)>>}
<1>1. Slice(p) \in done[c] /\ Config \in done[c]
  BY Inputs DEF Fresh
<1>2. out[c][Slice(p)].facts = {<<Slice(p), CleanSlice(tree[c], p)>>}
  <2>1. Sound(Key(c, Slice(p)), out[c][Slice(p)].facts)
    BY <1>1 DEF Fresh
  <2> QED
    BY <1>1, <2>1, SliceRuns
<1>3. Pkg(p) \in Action /\ Pkg(p)[1] # "slice"
  BY Kinds DEF Action, Step
<1> QED
  BY <1>2, <1>3, KeyFiles DEF Strict, Seen

LEMMA StandingIsUpToDate ==
  ASSUME Typed, SoundAll, NEW c \in Client, Strict(c), Fresh(c), NEW p \in Package,
         Needs(Pkg(p)) \subseteq done[c], StandsFor(c, p, tree[c])
  PROVE  UpToDate(c, Pkg(p))
<1> DEFINE k == out[c][Pkg(p)].key
           l == Key(c, Pkg(p))
<1>1. Pkg(p) \in Action /\ out[c][Pkg(p)] # None
  BY DEF StandsFor, Action, Step
<1>2. k \in KeySet /\ k.action = Pkg(p)
  BY <1>1 DEF Typed, SoundAll, Entry
<1>3. k.ins \in [Needs(Pkg(p)) -> SUBSET Fact] /\ k.src = At(tree[c], Full(Pkg(p)))
  BY <1>2, KeyParts DEF StandsFor
<1>4. l.src = k.src /\ l.action = k.action /\ l.ins = [b \in Needs(Pkg(p)) |-> out[c][b].facts]
  BY <1>2, <1>3, StrictKey
<1>5. \A b \in Needs(Pkg(p)) : k.ins[b] = out[c][b].facts
  <2>1. k.ins[Slice(p)] = out[c][Slice(p)].facts
    BY StrictKey DEF StandsFor
  <2>2. \A q \in Closure[p] \ {p} : k.ins[Pkg(q)] = out[c][Pkg(q)].facts
    BY DEF StandsFor
  <2>3. Needs(Pkg(p)) = {Slice(p)} \cup {Pkg(q) : q \in Closure[p] \ {p}}
    BY Inputs
  <2> HIDE DEF k
  <2> QED
    BY <2>1, <2>2, <2>3
<1>6. l.ins = k.ins
  <2>1. k.ins = [b \in Needs(Pkg(p)) |-> k.ins[b]]
    BY <1>3
  <2> HIDE DEF k, l
  <2> QED
    BY <1>4, <1>5, <2>1
<1>7. l \in KeySet
  BY <1>1, KeyType
<1>8. l = k
  <2>1. k = [action |-> k.action, src |-> k.src, ins |-> k.ins]
    BY <1>2 DEF KeySet
  <2>2. l = [action |-> l.action, src |-> l.src, ins |-> l.ins]
    BY <1>7 DEF KeySet
  <2> HIDE DEF k, l
  <2> QED
    BY <1>4, <1>6, <2>1, <2>2
<1> QED
  BY <1>1, <1>8 DEF UpToDate

\* At the end of a strict build every package stands for the checkout.
Complete ==
  \A c \in Client, p \in Package : Finished(c) /\ Strict(c) => StandsFor(c, p, tree[c])

LEMMA EndsComplete == IInv => Complete
<1> SUFFICES ASSUME IInv, NEW c \in Client, NEW p \in Package, Finished(c), Strict(c)
             PROVE  StandsFor(c, p, tree[c])
  BY DEF Complete
<1>1. Typed /\ Fresh(c)
  BY DEF IInv, Builds
<1>2. Pkg(p) \in done[c] /\ Needs(Pkg(p)) \subseteq done[c]
  BY <1>1 DEF Finished, Action, Step, Fresh
<1>3. out[c][Pkg(p)] # None /\ out[c][Pkg(p)].key = Key(c, Pkg(p))
  BY <1>1, <1>2 DEF Fresh
<1>4. Slice(p) \in Needs(Pkg(p)) /\ \A q \in Closure[p] \ {p} : Pkg(q) \in Needs(Pkg(p))
  BY Inputs
<1> DEFINE k == out[c][Pkg(p)].key
<1>5. /\ k.src = At(tree[c], Full(Pkg(p)))
      /\ k.ins = [b \in Needs(Pkg(p)) |-> out[c][b].facts]
      /\ out[c][Slice(p)].facts = {<<Slice(p), CleanSlice(tree[c], p)>>}
  BY <1>1, <1>2, <1>3, StrictKey
<1> HIDE DEF k
<1>6. \A b \in Needs(Pkg(p)) : k.ins[b] = out[c][b].facts
  BY <1>5
<1>7. /\ k.ins[Slice(p)] = out[c][Slice(p)].facts
      /\ \A q \in Closure[p] \ {p} : k.ins[Pkg(q)] = out[c][Pkg(q)].facts
  BY <1>4, <1>6
<1> QED
  BY <1>3, <1>5, <1>7 DEF StandsFor, k

LEMMA StandsStays ==
  ASSUME NEW c, NEW p \in Package, NEW t, \A q \in Closure[p] : out'[c][Pkg(q)] = out[c][Pkg(q)],
         StandsFor(c, p, t)
  PROVE  StandsFor(c, p, t)'
<1>1. CleanSlice(t, p)' = CleanSlice(t, p) /\ At(t, Full(Pkg(p)))' = At(t, Full(Pkg(p)))
  OBVIOUS
<1> QED
  BY <1>1 DEF StandsFor

\* A client whose build does not move, or ends without a result.
LEMMA StillRemembers ==
  ASSUME NEW c \in Client, Remembers(c), built'[c] = built[c], out'[c] = out[c],
         running'[c] \in {running[c], None},
         flags'[c] = None \/ (flags'[c] = flags[c] /\ tree'[c] = tree[c])
  PROVE  Remembers(c)'
<1> SUFFICES ASSUME built[c] # None PROVE Remembers(c)'
  BY DEF Remembers
<1>1. flags'[c] # None => Strict(c)' /\ tree'[c] \in built[c]
  BY DEF Remembers, Strict
<1>2. ASSUME NEW p \in Package, Agree(c, p)
      PROVE  /\ \A t \in built[c] : StandsFor(c, p, t)'
             /\ running'[c] # Pkg(p)
  <2>1. \A t \in built[c] : StandsFor(c, p, t)'
    BY <1>2, StandsStays DEF Remembers
  <2>2. running[c] # Pkg(p) /\ None # Pkg(p)
    BY <1>2, NoneAssumption DEF Remembers, Action, Step
  <2> QED
    BY <2>1, <2>2
<1>3. \A p \in Package : Agree(c, p)' <=> Agree(c, p)
  BY DEF Agree
<1> QED
  BY <1>1, <1>2, <1>3 DEF Remembers

\* The command starts from another checkout.
LEMMA StartRemembers ==
  ASSUME IInv, NInv, NEW c \in Client, NEW m \in setting.modes, Start(c, m)
  PROVE  Remembers(c)'
<1> SUFFICES ASSUME built'[c] # None PROVE Remembers(c)'
  BY DEF Remembers
<1>1. built[c] # None /\ ~m.dev /\ built'[c] = built[c] \cup {tree[c]} /\ built[c] # {}
  <2>1. built'[c] = (IF built[c] = None \/ m.dev THEN None ELSE built[c] \cup {tree[c]})
    BY Zenon DEF Start, NInv
  <2>2. ~(built[c] = None \/ m.dev)
    BY <2>1, Zenon
  <2>3. built[c] # None /\ ~m.dev /\ built'[c] = built[c] \cup {tree[c]}
    BY <2>1, <2>2, Zenon
  <2>4. built[c] # {}
    BY <2>3 DEF NInv, Checkouts
  <2> QED
    BY <2>3, <2>4
<1>2. flags'[c] = m /\ UNCHANGED <<tree, out, running>>
  BY DEF Start, IInv, Typed
<1>3. running[c] = None
  BY Idle DEF IInv, Start
<1>4. flags'[c] # None => Strict(c)' /\ tree'[c] \in built'[c]
  BY <1>1, <1>2 DEF Strict
<1>5. ASSUME NEW p \in Package, Agree(c, p)'
      PROVE  /\ \A t \in built'[c] : StandsFor(c, p, t)'
             /\ running'[c] # Pkg(p)
  <2>1. \A t \in built'[c], u \in built'[c] : Narrow(t, p) = Narrow(u, p)
    BY <1>5 DEF Agree
  <2>2. Agree(c, p)
    BY <1>1, <2>1 DEF Agree
  <2>3. \A t \in built[c] : StandsFor(c, p, t)
    BY <1>1, <2>2 DEF NInv, Remembers
  <2>4. PICK u \in built[c] : StandsFor(c, p, u)
    BY <1>1, <2>3
  <2>5. StandsFor(c, p, tree[c])
    <3>1. Narrow(tree[c], p) = Narrow(u, p) /\ p \in Closure[p]
      BY <1>1, <2>1
    <3>2. At(tree[c], Full(Pkg(p))) = At(u, Full(Pkg(p))) /\ CleanSlice(tree[c], p) = CleanSlice(u, p)
      BY <3>1, NarrowSrc
    <3> QED
      BY <2>4, <3>2 DEF StandsFor
  <2>6. \A t \in built'[c] : StandsFor(c, p, t)
    BY <1>1, <2>3, <2>5
  <2>7. \A t \in built'[c] : StandsFor(c, p, t)'
    BY <1>2, <2>6, StandsStays
  <2>8. running'[c] # Pkg(p)
    BY <1>2, <1>3, NoneAssumption DEF Action, Step
  <2> QED
    BY <2>7, <2>8
<1> QED
  BY <1>4, <1>5 DEF Remembers

\* Another action is up to date: with the output it had, or with one of its own
\* where it had to be built.
LEMMA AdvanceRemembers ==
  ASSUME IInv, Complete', NInv, NEW c \in Client, NEW a \in Action, flags[c] # None,
         NEW e, out' = [out EXCEPT ![c][a] = e], Advance(c, a),
         running'[c] = None, UNCHANGED <<tree, flags>>,
         \/ e = out[c][a]
         \/ \A p \in Package : a = Pkg(p) /\ built[c] # None => ~Agree(c, p)
  PROVE  Remembers(c)'
<1>1. done'[c] = done[c] \cup {a}
  BY DEF Advance, IInv, Typed
<1>2. built'[c] = IF done[c] \cup {a} = Action /\ Strict(c) THEN {tree[c]} ELSE built[c]
  BY DEF Advance, NInv
<1>3. \A p \in Package : running'[c] # Pkg(p)
  BY NoneAssumption DEF Action, Step
<1>4. CASE done[c] \cup {a} = Action /\ Strict(c)
  <2>1. Finished(c)' /\ Strict(c)' /\ built'[c] = {tree[c]}
    BY <1>1, <1>2, <1>4 DEF Finished, Strict
  <2>2. \A p \in Package : StandsFor(c, p, tree[c])'
    BY <2>1 DEF Complete
  <2>3. \A p \in Package : \A t \in built'[c] : StandsFor(c, p, t)'
    BY <2>1, <2>2 DEF StandsFor
  <2> QED
    BY <1>3, <2>1, <2>3 DEF Remembers
<1>5. CASE built'[c] = built[c] /\ built[c] # None
  <2>1. Remembers(c)
    BY DEF NInv
  <2>2. flags'[c] # None => Strict(c)' /\ tree'[c] \in built'[c]
    BY <1>5, <2>1 DEF Remembers, Strict
  <2>3. ASSUME NEW p \in Package, Agree(c, p)'
        PROVE  \A t \in built'[c] : StandsFor(c, p, t)'
    <3>1. Agree(c, p)
      BY <1>5, <2>3 DEF Agree
    <3>2. \A q \in Closure[p] : Agree(c, q)
      BY <3>1, AgreeDown
    <3>3. \A q \in Closure[p] : out'[c][Pkg(q)] = out[c][Pkg(q)]
      <4> SUFFICES ASSUME NEW q \in Closure[p] PROVE out'[c][Pkg(q)] = out[c][Pkg(q)]
        OBVIOUS
      <4>1. q \in Package /\ Pkg(q) \in Action
        BY DEF Action, Step
      <4>2. e = out[c][a] \/ a # Pkg(q)
        BY <1>5, <3>2, <4>1
      <4> QED
        BY <4>1, <4>2 DEF IInv, Typed
    <3>4. \A t \in built[c] : StandsFor(c, p, t)
      BY <1>5, <2>1, <3>1 DEF Remembers
    <3> QED
      BY <1>5, <3>3, <3>4, StandsStays
  <2> QED
    BY <1>3, <2>2, <2>3 DEF Remembers
<1>6. CASE built'[c] = None
  BY <1>6 DEF Remembers
<1> QED
  BY <1>2, <1>4, <1>5, <1>6

\* What is to run or be fetched has had a reason.
LEMMA NeedsReason ==
  ASSUME IInv, NInv, NEW c \in Client, NEW p \in Package, Ready(c, Pkg(p)), ~UpToDate(c, Pkg(p)),
         built[c] # None
  PROVE  ~Agree(c, p)
<1> SUFFICES ASSUME Agree(c, p) PROVE FALSE
  OBVIOUS
<1>1. Strict(c) /\ tree[c] \in built[c] /\ Needs(Pkg(p)) \subseteq done[c]
  BY DEF NInv, Remembers, Ready
<1>2. StandsFor(c, p, tree[c])
  BY <1>1 DEF NInv, Remembers
<1> QED
  BY <1>1, <1>2, StandingIsUpToDate DEF IInv, Builds

LEMMA BuiltType ==
  ASSUME IInv, NEW c \in Client, NEW b \in Checkouts \cup {None},
         NInv, built' = [built EXCEPT ![c] = b]
  PROVE  /\ built' \in [Client -> Checkouts \cup {None}]
         /\ \A x \in Client \ {c} : built'[x] = built[x]
BY DEF NInv

LEMMA OthersRemember ==
  ASSUME NInv, NEW c \in Client, OthersKeep(c), \A x \in Client \ {c} : built'[x] = built[x],
         \A x \in Client \ {c} : running'[x] = running[x]
  PROVE  \A x \in Client \ {c} : Remembers(x)'
BY StillRemembers DEF NInv, OthersKeep

LEMMA AdvanceNarrow ==
  ASSUME IInv, Complete', NInv, NEW c \in Client, NEW a \in Action, flags[c] # None,
         NEW e, out' = [out EXCEPT ![c][a] = e], Advance(c, a),
         running'[c] = None, UNCHANGED <<tree, flags>>,
         \A x \in Client \ {c} : running'[x] = running[x],
         \/ e = out[c][a]
         \/ \A p \in Package : a = Pkg(p) /\ built[c] # None => ~Agree(c, p)
  PROVE  NInv'
<1>1. Remembers(c)'
  BY AdvanceRemembers
<1>2. PICK b : built' = [built EXCEPT ![c] = b] /\ b \in {{tree[c]}, built[c]}
  BY DEF Advance
<1>3. b \in Checkouts \cup {None}
  <2>1. {tree[c]} \in Checkouts
    BY DEF IInv, Typed, Checkouts
  <2>2. built[c] \in Checkouts \cup {None}
    BY DEF NInv
  <2> QED
    BY <1>2, <2>1, <2>2
<1>4. /\ built' \in [Client -> Checkouts \cup {None}]
      /\ \A x \in Client \ {c} : built'[x] = built[x]
  BY <1>2, <1>3, BuiltType
<1>5. OthersKeep(c)
  BY DEF OthersKeep, Advance, IInv, Typed
<1>6. \A x \in Client \ {c} : Remembers(x)'
  BY <1>4, <1>5, OthersRemember
<1> QED
  BY <1>1, <1>4, <1>6 DEF NInv

LEMMA NarrowStep == IInv /\ Complete' /\ NInv /\ [Next]_vars => NInv'
<1> SUFFICES ASSUME IInv, Complete', NInv, [Next]_vars PROVE NInv'
  OBVIOUS
<1>1. setting.clients \subseteq Client /\ setting.editable \subseteq Item
  BY DEF IInv, Typed, Setting
<1>2. ASSUME UNCHANGED <<tree, out, running, flags, built>>
      PROVE  NInv'
  BY <1>2, StillRemembers DEF NInv
<1>3. CASE UNCHANGED vars
  BY <1>2, <1>3 DEF vars
<1>4. ASSUME NEW c \in setting.clients, NEW i \in setting.editable, NEW v \in Version, Edit(c, i, v)
      PROVE  NInv'
  <2>1. flags'[c] = None /\ UNCHANGED <<out, running, built>> /\ OthersKeep(c) /\ c \in Client
    BY <1>1, <1>4 DEF Edit, OthersKeep, IInv, Typed
  <2>2. Remembers(c)' /\ \A x \in Client \ {c} : Remembers(x)'
    BY <2>1, StillRemembers, OthersRemember DEF NInv
  <2> QED
    BY <2>1, <2>2 DEF NInv
<1>5. ASSUME NEW c \in setting.clients, NEW m \in setting.modes, Start(c, m)
      PROVE  NInv'
  <2>1. c \in Client /\ OthersKeep(c) /\ UNCHANGED running
    BY <1>1, <1>5 DEF Start, OthersKeep, IInv, Typed
  <2>2. Remembers(c)'
    BY <1>5, <2>1, StartRemembers
  <2>3. PICK b : built' = [built EXCEPT ![c] = b] /\ b \in {None, built[c] \cup {tree[c]}}
                 /\ (built[c] = None => b = None)
    BY <1>5, <2>1 DEF Start
  <2>4. b \in Checkouts \cup {None}
    <3>1. tree[c] \in Files /\ built[c] \in Checkouts \cup {None}
      BY <2>1 DEF IInv, Typed, NInv
    <3>2. CASE b # None
      <4>1. built[c] \in SUBSET Files
        BY <2>3, <3>1, <3>2 DEF Checkouts
      <4>2. built[c] \cup {tree[c]} \in Checkouts
        BY <3>1, <4>1 DEF Checkouts
      <4> QED
        BY <2>3, <3>2, <4>2
    <3> QED
      BY <3>2
  <2>5. /\ built' \in [Client -> Checkouts \cup {None}]
        /\ \A x \in Client \ {c} : built'[x] = built[x]
    BY <2>1, <2>3, <2>4, BuiltType
  <2>6. \A x \in Client \ {c} : Remembers(x)'
    BY <2>1, <2>5, OthersRemember
  <2> QED
    BY <2>2, <2>5, <2>6 DEF NInv
<1>6. ASSUME NEW c \in setting.clients, Clean(c)
      PROVE  NInv'
  <2>1. c \in Client /\ OthersKeep(c) /\ UNCHANGED running /\ built' = [built EXCEPT ![c] = None]
    BY <1>1, <1>6 DEF Clean, OthersKeep, IInv, Typed
  <2>2. /\ built' \in [Client -> Checkouts \cup {None}]
        /\ \A x \in Client \ {c} : built'[x] = built[x]
    BY <2>1, BuiltType
  <2>3. built'[c] = None
    BY <2>1 DEF NInv
  <2>4. \A x \in Client \ {c} : Remembers(x)'
    BY <2>1, <2>2, OthersRemember
  <2> QED
    BY <2>2, <2>3, <2>4 DEF NInv, Remembers
<1>7. ASSUME NEW c \in setting.clients, NEW a \in Action, Reuse(c, a)
      PROVE  NInv'
  <2>1. out' = [out EXCEPT ![c][a] = out[c][a]]
    BY <1>1, <1>7 DEF Reuse, IInv, Typed
  <2>2. /\ c \in Client /\ flags[c] # None /\ Advance(c, a) /\ running'[c] = None
        /\ UNCHANGED <<tree, flags, running>>
    BY <1>1, <1>7 DEF Reuse, Ready
  <2> QED
    BY <2>1, <2>2, AdvanceNarrow
<1>8. ASSUME NEW c \in setting.clients, NEW a \in Action, Hit(c, a)
      PROVE  NInv'
  <2>1. PICK e : out' = [out EXCEPT ![c][a] = e]
    BY <1>8 DEF Hit
  <2>2. /\ c \in Client /\ flags[c] # None /\ Advance(c, a) /\ running'[c] = None
        /\ UNCHANGED <<tree, flags, running>>
    BY <1>1, <1>8 DEF Hit, Ready
  <2>3. \A p \in Package : a = Pkg(p) /\ built[c] # None => ~Agree(c, p)
    BY <1>8, <2>2, NeedsReason DEF Hit
  <2> QED
    BY <2>1, <2>2, <2>3, AdvanceNarrow
<1>9. ASSUME NEW c \in setting.clients, NEW a \in Action, Miss(c, a)
      PROVE  NInv'
  <2>1. c \in Client /\ UNCHANGED <<tree, out, flags, built>> /\ OthersKeep(c)
    BY <1>1, <1>9 DEF Miss, OthersKeep
  <2>2. running'[c] = a /\ \A x \in Client \ {c} : running'[x] = running[x]
    BY <1>9, <2>1 DEF Miss, IInv, Typed
  <2>3. Remembers(c)'
    <3> SUFFICES ASSUME built[c] # None PROVE Remembers(c)'
      BY <2>1 DEF Remembers
    <3>1. \A p \in Package : a = Pkg(p) => ~Agree(c, p)
      BY <1>9, <2>1, NeedsReason DEF Miss
    <3>2. \A p \in Package : Agree(c, p)' <=> Agree(c, p)
      BY <2>1 DEF Agree
    <3>3. ASSUME NEW p \in Package, Agree(c, p)
          PROVE  \A t \in built[c] : StandsFor(c, p, t)'
      BY <2>1, <3>3, StandsStays DEF NInv, Remembers
    <3>4. flags'[c] # None => Strict(c)' /\ tree'[c] \in built'[c]
      BY <2>1 DEF NInv, Remembers, Strict
    <3> QED
      BY <2>1, <2>2, <3>1, <3>2, <3>3, <3>4 DEF Remembers
  <2>4. \A x \in Client \ {c} : Remembers(x)'
    BY <2>1, <2>2, OthersRemember
  <2> QED
    BY <2>1, <2>3, <2>4 DEF NInv
<1>10. ASSUME NEW c \in setting.clients, NEW n \in Nonce, Execute(c, n)
       PROVE  NInv'
  <2>1. c \in Client /\ running[c] # None
    BY <1>1, <1>10 DEF Execute
  <2>2. PICK a \in Action : running[c] = a /\ flags[c] # None
    BY <2>1 DEF IInv, Runs
  <2>3. PICK e : out' = [out EXCEPT ![c][a] = e]
    BY <1>10, <2>2 DEF Execute
  <2>4. Advance(c, a) /\ UNCHANGED <<tree, flags>>
    BY <1>10, <2>2 DEF Execute
  <2>5. running'[c] = None /\ \A x \in Client \ {c} : running'[x] = running[x]
    BY <1>10, <2>1 DEF Execute, IInv, Typed
  <2>6. \A p \in Package : a = Pkg(p) /\ built[c] # None => ~Agree(c, p)
    BY <2>1, <2>2 DEF NInv, Remembers
  <2> QED
    BY <2>1, <2>2, <2>3, <2>4, <2>5, <2>6, AdvanceNarrow
<1>11. ASSUME NEW c \in setting.clients, Abort(c)
       PROVE  NInv'
  <2>1. /\ c \in Client /\ flags'[c] = None /\ running'[c] = None /\ UNCHANGED <<out, built>>
        /\ OthersKeep(c) /\ \A x \in Client \ {c} : running'[x] = running[x]
    BY <1>1, <1>11 DEF Abort, OthersKeep, IInv, Typed
  <2>2. Remembers(c)' /\ \A x \in Client \ {c} : Remembers(x)'
    BY <2>1, StillRemembers, OthersRemember DEF NInv
  <2> QED
    BY <2>1, <2>2 DEF NInv
<1>12. ASSUME NEW k \in DOMAIN cache, Evict(k)
       PROVE  NInv'
  BY <1>2, <1>12 DEF Evict
<1> QED
  BY <1>3, <1>4, <1>5, <1>6, <1>7, <1>8, <1>9, <1>10, <1>11, <1>12 DEF Next

\* "Narrow inputs": since the last finished strict build, an edit anywhere
\* else, a configuration that changed elsewhere, a config action that ran
\* again, an abandoned build or a forgotten cache entry never rebuild a
\* package.
THEOREM OnlyForReason == Spec => []NarrowRebuild
<1>1. Init => NInv
  <2> SUFFICES ASSUME Init PROVE NInv
    OBVIOUS
  <2>1. built = [c \in Client |-> None]
    BY DEF Init
  <2> QED
    BY <2>1 DEF NInv, Remembers
<1>2. IInv /\ NInv => NarrowRebuild
  <2> SUFFICES ASSUME IInv, NInv, NEW c \in Client, NEW p \in Package,
                      running[c] = Pkg(p), built[c] # None
               PROVE  \E t \in built[c] : Narrow(t, p) # Narrow(tree[c], p)
    BY DEF NarrowRebuild
  <2>1. ~Agree(c, p)
    BY DEF NInv, Remembers
  <2> QED
    BY <2>1 DEF Agree
<1> QED
  BY <1>1, <1>2, Invariant, EndsComplete, NarrowStep, PTL DEF Spec
=============================================================================
