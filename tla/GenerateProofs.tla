--------------------------- MODULE GenerateProofs ----------------------------
(***************************************************************************)
(* For any configurations and trees: a render that ends is a fixed point   *)
(* in experiments that are not variants, and a command reaches another     *)
(* experiment's BUCK files through br2-new's hard links only.              *)
(*                                                                         *)
(* Settles speaks of a command that has ended; Underway says what it is    *)
(* made of while the command runs.  What makes it stable is that a render  *)
(* lists directories that are no packages and writes to those that are:    *)
(* no file it writes is one whose presence decides a text.                 *)
(***************************************************************************)
EXTENDS Generate, TLAPS

Content == Text \cup {None, Cut}

Typed ==
  /\ conf \in [Experiment -> Conf]
  /\ project \in [Experiment -> Project]
  /\ model \in [Experiment -> Conf \cup {None, Cut}]
  /\ buck \in [Experiment -> [File -> Content]]
  /\ shared \subseteq File
  /\ pc \in [Experiment -> {"idle", "extract", "load", "unlink", "write"}]
  /\ seen \in [Experiment -> (Conf \cup {None}) \X (Project \cup {None})]
  /\ out \in [Experiment -> [File -> Text \cup {None}]]
  /\ left \in [Experiment -> SUBSET File]
  /\ status \in [Experiment -> {"none", "ok", "failed"}]
  /\ edits \in 0..MaxEdits
  /\ stops \in 0..MaxStops

\* What a command that is rendering has read, and whole is what it has left.
Reads(e) ==
  pc[e] \in {"unlink", "write"} =>
    /\ seen[e] \in Conf \X Project
    /\ pc[e] = "unlink" => left[e] \subseteq Dir
    /\ pc[e] = "write" => \A f \in left[e] : out[e][f] \in Text

TInv == Typed /\ \A e \in Experiment : Reads(e)

\* e's trees are what m and p ask for, but for the files in todo.
Done(e, m, p, todo) ==
  /\ Stale(e, m) = {}
  /\ \A f \in File \ todo : Rendered(e, m, p)[f] \in {None, buck[e][f]}

Underway(e) ==
  /\ pc[e] = "unlink" => Stale(e, seen[e][1]) = left[e]
  /\ pc[e] = "write" =>
       /\ out[e] = Rendered(e, seen[e][1], seen[e][2])
       /\ \A f \in left[e] : out[e][f] # None
       /\ Done(e, seen[e][1], seen[e][2], left[e])
  /\ pc[e] = "idle" /\ status[e] = "ok" =>
       seen[e][1] \in Conf /\ Done(e, seen[e][1], seen[e][2], {})

IInv == TInv /\ shared = {} /\ \A e \in Experiment : Underway(e)

USE GenerateAssumption

------------------------------------------------------------------------------
(* Types.                                                                  *)

LEMMA RenderedType ==
  ASSUME NEW e \in Experiment, NEW m \in Conf, NEW p \in Project
  PROVE  /\ Rendered(e, m, p) \in [File -> Text \cup {None}]
         /\ \A f \in File : f # Top /\ f \notin PackagesOf[m] => Rendered(e, m, p)[f] = None
<1>1. ASSUME NEW f \in File
      PROVE  [graph |-> GraphOf[m][f], project |-> p, lists |-> {d \in Dir : Lists(e, m, f, d)}] \in Text
  <2>1. GraphOf[m][f] \in UNION {{GraphOf[c][x] : x \in File} : c \in Conf}
    OBVIOUS
  <2> QED
    BY <2>1 DEF Text
<1> QED
  BY <1>1 DEF Rendered

LEMMA FirstType ==
  ASSUME NEW c \in Conf, NEW p \in Project
  PROVE  First(c, p) \in [File -> Content]
<1>1. ASSUME NEW f \in File
      PROVE  [graph |-> GraphOf[c][f], project |-> p, lists |-> {}] \in Text
  <2>1. GraphOf[c][f] \in UNION {{GraphOf[d][x] : x \in File} : d \in Conf}
    OBVIOUS
  <2> QED
    BY <2>1 DEF Text
<1> QED
  BY <1>1 DEF First, Content

LEMMA PutType ==
  ASSUME Typed, NEW e \in Experiment, NEW f \in File, NEW t \in Content, Put(e, f, t)
  PROVE  /\ buck' \in [Experiment -> [File -> Content]]
         /\ \A g \in File : buck'[e][g] = IF g = f THEN t ELSE buck[e][g]
         /\ shared = {} => \A x \in Experiment \ {e} : buck'[x] = buck[x]
BY DEF Typed, Put

LEMMA TypeInit == Init => TInv
<1> SUFFICES ASSUME Init PROVE TInv
  OBVIOUS
<1>1. NoFiles \in [File -> Content] /\ NoFiles \in [File -> Text \cup {None}]
  BY DEF NoFiles, Content
<1>2. buck \in [Experiment -> [File -> Content]]
  BY <1>1, FirstType DEF Init
<1>3. shared \subseteq File
  BY DEF Init, File
<1>4. Typed
  <2>1. seen \in [Experiment -> (Conf \cup {None}) \X (Project \cup {None})]
    BY DEF Init
  <2>2. out \in [Experiment -> [File -> Text \cup {None}]]
    BY <1>1 DEF Init
  <2> QED
    BY <1>2, <1>3, <2>1, <2>2 DEF Init, Typed
<1> QED
  BY <1>4 DEF Init, TInv, Reads

\* What another command does leaves e's own state alone, its files perhaps not.
Still(e) == UNCHANGED <<pc[e], seen[e], out[e], left[e], status[e]>>

LEMMA TypeStep ==
  ASSUME TInv, [Next]_vars
  PROVE  TInv'
<1> USE DEF TInv
<1>1. ASSUME NEW e \in Experiment, (\E c \in Conf : EditConf(e, c)) \/ (\E p \in Project : EditProject(e, p))
      PROVE  TInv'
  <2>1. Typed'
    <3>1. edits' \in 0..MaxEdits
      <4>1. edits < MaxEdits /\ edits' = edits + 1
        BY <1>1 DEF EditConf, EditProject
      <4>2. edits \in 0..MaxEdits /\ MaxEdits \in Nat
        BY DEF Typed
      <4> QED
        BY <4>1, <4>2
    <3>2. conf' \in [Experiment -> Conf] /\ project' \in [Experiment -> Project]
      <4>1. CASE \E c \in Conf : EditConf(e, c)
        BY <4>1 DEF EditConf, Typed
      <4>2. CASE \E p \in Project : EditProject(e, p)
        BY <4>2 DEF EditProject, Typed
      <4> QED
        BY <1>1, <4>1, <4>2
    <3>3. UNCHANGED <<model, buck, shared, pc, seen, out, left, status, stops>>
      BY <1>1 DEF EditConf, EditProject
    <3> QED
      BY <3>1, <3>2, <3>3 DEF Typed
  <2>2. UNCHANGED <<pc, seen, left, out>>
    BY <1>1 DEF EditConf, EditProject
  <2> QED
    BY <2>1, <2>2 DEF Reads
<1>2. ASSUME NEW e \in Experiment, NEW first \in {"extract", "load"}, Run(e, first)
      PROVE  TInv'
  <2>1. Typed'
    BY <1>2 DEF Run, Typed
  <2>2. \A x \in Experiment : Reads(x)'
    BY <1>2 DEF Run, Typed, Reads
  <2> QED
    BY <2>1, <2>2
<1>3. ASSUME NEW e \in Experiment, Extract(e)
      PROVE  TInv'
  <2>1. Typed'
    BY <1>3 DEF Extract, Typed
  <2>2. \A x \in Experiment : Reads(x)'
    BY <1>3 DEF Extract, Typed, Reads
  <2> QED
    BY <2>1, <2>2
<1>4. ASSUME NEW e \in Experiment, Load(e)
      PROVE  TInv'
  <2>1. Stale(e, model[e]) \subseteq Dir /\ Dir \subseteq File
    BY DEF Stale, File
  <2>2. CASE model[e] \in Conf
    <3> DEFINE s == <<model[e], project[e]>>
    <3>1. s \in Conf \X Project
      BY <2>2 DEF Typed
    <3> HIDE DEF s
    <3>2. /\ pc[e] = "load" /\ pc' = [pc EXCEPT ![e] = "unlink"]
          /\ seen' = [seen EXCEPT ![e] = s] /\ left' = [left EXCEPT ![e] = Stale(e, model[e])]
          /\ UNCHANGED <<conf, project, model, buck, shared, out, status, edits, stops>>
      BY <1>4, <2>2 DEF Load, s
    <3>3. Typed'
      BY <2>1, <3>1, <3>2 DEF Typed
    <3>4. \A x \in Experiment : Reads(x)'
      BY <2>1, <3>1, <3>2 DEF Typed, Reads
    <3> QED
      BY <3>3, <3>4
  <2>3. CASE model[e] \notin Conf
    <3>1. /\ pc' = [pc EXCEPT ![e] = "idle"] /\ status' = [status EXCEPT ![e] = "failed"]
          /\ UNCHANGED <<conf, project, model, buck, shared, seen, out, left, edits, stops>>
      BY <1>4, <2>3 DEF Load
    <3>2. Typed'
      BY <3>1 DEF Typed
    <3>3. \A x \in Experiment : Reads(x)'
      BY <3>1 DEF Typed, Reads
    <3> QED
      BY <3>2, <3>3
  <2> QED
    BY <2>2, <2>3
<1>5. ASSUME NEW e \in Experiment, Unlink(e)
      PROVE  TInv'
  <2>1. PICK d \in left[e] : buck' = [buck EXCEPT ![e][d] = None] /\ shared' = shared \ {d} /\ left' = [left EXCEPT ![e] = @ \ {d}]
    BY <1>5 DEF Unlink
  <2>2. UNCHANGED <<conf, project, model, pc, seen, out, status, edits, stops>> /\ pc[e] = "unlink"
    BY <1>5 DEF Unlink
  <2>3. None \in Content
    BY DEF Content
  <2> QED
    BY <2>1, <2>2, <2>3 DEF Typed, Reads
<1>6. ASSUME NEW e \in Experiment, List(e)
      PROVE  TInv'
  <2> DEFINE r == Rendered(e, seen[e][1], seen[e][2])
  <2>1. pc[e] = "unlink" /\ seen[e][1] \in Conf /\ seen[e][2] \in Project
    BY <1>6 DEF List, Reads
  <2>2. r \in [File -> Text \cup {None}]
    BY <2>1, RenderedType
  <2> HIDE DEF r
  <2>3. /\ out' = [out EXCEPT ![e] = r] /\ pc' = [pc EXCEPT ![e] = "write"]
        /\ left' = [left EXCEPT ![e] = {f \in File : out'[e][f] # None}]
        /\ UNCHANGED <<conf, project, model, buck, shared, seen, status, edits, stops>>
    BY <1>6 DEF List, r
  <2>4. Typed'
    BY <2>2, <2>3 DEF Typed
  <2>5. \A x \in Experiment : Reads(x)'
    BY <2>1, <2>2, <2>3 DEF Typed, Reads
  <2> QED
    BY <2>4, <2>5
<1>7. ASSUME NEW e \in Experiment, Write(e)
      PROVE  TInv'
  <2>1. PICK f \in left[e] :
          /\ IF buck[e][f] # out[e][f] THEN Put(e, f, out[e][f]) ELSE UNCHANGED buck
          /\ left' = [left EXCEPT ![e] = @ \ {f}]
    BY <1>7 DEF Write
  <2>2. pc[e] = "write" /\ UNCHANGED <<conf, project, model, shared, seen, out, edits, stops>>
    BY <1>7 DEF Write
  <2>3. f \in File /\ out[e][f] \in Content
    BY <2>1, <2>2 DEF Typed, Content
  <2>4. buck' \in [Experiment -> [File -> Content]]
    BY <2>1, <2>3, PutType DEF Typed
  <2>5. \/ pc' = [pc EXCEPT ![e] = "idle"] /\ status' = [status EXCEPT ![e] = "ok"]
        \/ UNCHANGED <<pc, status>>
    BY <1>7 DEF Write
  <2>6. Typed'
    BY <2>1, <2>2, <2>4, <2>5 DEF Typed
  <2>7. \A x \in Experiment : Reads(x)'
    BY <2>1, <2>2, <2>5 DEF Typed, Reads
  <2> QED
    BY <2>6, <2>7
<1>8. ASSUME NEW e \in Experiment, Stop(e)
      PROVE  TInv'
  <2>1. buck' \in [Experiment -> [File -> Content]]
    <3>1. Cut \in Content
      BY DEF Content
    <3>2. CASE UNCHANGED buck
      BY <3>2 DEF Typed
    <3>3. CASE \E f \in left[e] : Put(e, f, Cut)
      BY <3>1, <3>3, PutType DEF Typed
    <3> QED
      BY <1>8, <3>2, <3>3 DEF Stop
  <2>2. model' \in [Experiment -> Conf \cup {None, Cut}]
    BY <1>8 DEF Stop, Typed
  <2>3. Typed'
    <3>1. stops' \in 0..MaxStops
      BY <1>8 DEF Stop, Typed
    <3>2. /\ pc' = [pc EXCEPT ![e] = "idle"] /\ status' = [status EXCEPT ![e] = "failed"]
          /\ left' = [left EXCEPT ![e] = {}]
          /\ UNCHANGED <<conf, project, shared, seen, out, edits>>
      BY <1>8 DEF Stop
    <3> QED
      BY <2>1, <2>2, <3>1, <3>2 DEF Typed
  <2>4. \A x \in Experiment : Reads(x)'
    BY <1>8 DEF Stop, Typed, Reads
  <2> QED
    BY <2>3, <2>4
<1>9. CASE UNCHANGED vars
  BY <1>9 DEF vars, Typed, Reads
<1> QED
  BY <1>1, <1>2, <1>3, <1>4, <1>5, <1>6, <1>7, <1>8, <1>9 DEF Next, Step

LEMMA Types == Spec => []TInv
<1>1. Init => TInv
  BY TypeInit
<1>2. TInv /\ [Next]_vars => TInv'
  BY TypeStep
<1> QED
  BY <1>1, <1>2, PTL DEF Spec

\* Every state of any experiments, variants included, is well typed, and what a
\* render is about to write are texts.
THEOREM GenerateType == Spec => []TypeOK
<1>1. TInv => TypeOK
  BY DEF TInv, Typed, Reads, TypeOK, Content
<1> QED
  BY <1>1, Types, PTL

------------------------------------------------------------------------------
(* Renders, with no experiment that is a variant of another.               *)

\* Texts and leftovers depend on the files of the directories that are no
\* packages, of those files' presence only.
LEMMA SameTrees ==
  ASSUME NEW e \in Experiment, NEW m \in Conf, NEW p \in Project,
         \A d \in Dir \ PackagesOf[m] : buck'[e][d] = buck[e][d]
  PROVE  Stale(e, m)' = Stale(e, m) /\ Rendered(e, m, p)' = Rendered(e, m, p)
<1>1. \A f \in File, d \in Dir : Lists(e, m, f, d)' = Lists(e, m, f, d)
  BY DEF Lists
<1>2. \A f \in File : {d \in Dir : Lists(e, m, f, d)}' = {d \in Dir : Lists(e, m, f, d)}
  BY <1>1
<1> QED
  BY <1>2 DEF Rendered, Stale

\* e's command does not move, nor do its files.
LEMMA Waits ==
  ASSUME TInv, NEW e \in Experiment, Underway(e), Still(e), buck'[e] = buck[e]
  PROVE  Underway(e)'
<1>1. \A m, p : Stale(e, m)' = Stale(e, m) /\ Rendered(e, m, p)' = Rendered(e, m, p)
  BY DEF Stale, Rendered, Lists
<1>2. \A m, p, todo : Done(e, m, p, todo)' = Done(e, m, p, todo)
  BY <1>1 DEF Done
<1> QED
  BY <1>1, <1>2 DEF Still, Underway

\* What the others do: with no shared file, e's state and files stay.
LEMMA OthersWait ==
  ASSUME TInv, shared = {}, NEW e \in Experiment, NEW x \in Experiment, x # e,
         \/ \E c \in Conf : EditConf(x, c)
         \/ \E p \in Project : EditProject(x, p)
         \/ \E first \in {"extract", "load"} : Run(x, first)
         \/ Step(x)
         \/ Stop(x)
  PROVE  Still(e) /\ buck'[e] = buck[e]
<1> USE DEF TInv
<1>1. CASE (\E c \in Conf : EditConf(x, c)) \/ (\E p \in Project : EditProject(x, p))
  BY <1>1 DEF EditConf, EditProject, Still
<1>2. CASE \E first \in {"extract", "load"} : Run(x, first)
  BY <1>2 DEF Run, Still, Typed
<1>3. CASE Extract(x) \/ Load(x)
  BY <1>3 DEF Extract, Load, Still, Typed
<1>4. CASE Unlink(x)
  BY <1>4 DEF Unlink, Still, Typed
<1>5. CASE List(x)
  BY <1>5 DEF List, Still, Typed
<1>6. CASE Write(x)
  <2>1. PICK f \in left[x] : IF buck[x][f] # out[x][f] THEN Put(x, f, out[x][f]) ELSE UNCHANGED buck
    BY <1>6 DEF Write
  <2>2. buck'[e] = buck[e]
    BY <2>1 DEF Put, Typed
  <2>3. Still(e)
    BY <1>6 DEF Write, Still, Typed
  <2> QED
    BY <2>2, <2>3
<1>7. CASE Stop(x)
  <2>1. (UNCHANGED buck) \/ \E f \in left[x] : Put(x, f, Cut)
    BY <1>7 DEF Stop
  <2>2. buck'[e] = buck[e]
    BY <2>1 DEF Put, Typed
  <2>3. Still(e)
    BY <1>7 DEF Stop, Still, Typed
  <2> QED
    BY <2>2, <2>3
<1> QED
  BY <1>1, <1>2, <1>3, <1>4, <1>5, <1>6, <1>7 DEF Step

\* Its own steps: Load finds what is left over, Unlink takes it away, List has
\* all texts, and every file that Write writes is a package's.
LEMMA GoesOn ==
  ASSUME TInv, shared = {}, NEW e \in Experiment, Underway(e),
         \/ \E c \in Conf : EditConf(e, c)
         \/ \E p \in Project : EditProject(e, p)
         \/ \E first \in {"extract", "load"} : Run(e, first)
         \/ Step(e)
         \/ Stop(e)
  PROVE  Underway(e)'
<1> DEFINE m == seen[e][1]
           p == seen[e][2]
<1> USE DEF TInv
<1>1. CASE (\E c \in Conf : EditConf(e, c)) \/ (\E q \in Project : EditProject(e, q))
  <2>1. Still(e) /\ buck'[e] = buck[e]
    BY <1>1 DEF EditConf, EditProject, Still
  <2> QED
    BY <2>1, Waits
<1>2. CASE \E first \in {"extract", "load"} : Run(e, first)
  <2>1. pc'[e] \in {"extract", "load"}
    BY <1>2 DEF Run, Typed
  <2> QED
    BY <2>1 DEF Underway
<1>3. CASE Extract(e)
  <2>1. pc'[e] = "load"
    BY <1>3 DEF Extract, Typed
  <2> QED
    BY <2>1 DEF Underway
<1>4. CASE Load(e)
  <2>1. CASE model[e] \in Conf
    <3>1. pc'[e] = "unlink" /\ left'[e] = Stale(e, model[e]) /\ buck' = buck
      BY <1>4, <2>1 DEF Load, Typed
    <3>2. seen'[e][1] = model[e]
      BY <1>4, <2>1 DEF Load, Typed
    <3>3. Stale(e, model[e])' = Stale(e, model[e]) /\ model'[e] = model[e]
      BY <1>4, <3>1 DEF Load, Stale
    <3> QED
      BY <3>1, <3>2, <3>3 DEF Underway, Stale
  <2>2. CASE model[e] \notin Conf
    BY <1>4, <2>2 DEF Load, Typed, Underway
  <2> QED
    BY <2>1, <2>2
<1>5. CASE Unlink(e)
  <2>1. pc[e] = "unlink" /\ pc'[e] = "unlink" /\ seen' = seen /\ m \in Conf
    BY <1>5 DEF Unlink, Reads
  <2>2. PICK d \in left[e] : buck' = [buck EXCEPT ![e][d] = None] /\ left' = [left EXCEPT ![e] = @ \ {d}]
    BY <1>5 DEF Unlink
  <2>3. Stale(e, m) = left[e]
    BY <2>1 DEF Underway
  <2>4. \A x \in Dir : buck'[e][x] = IF x = d THEN None ELSE buck[e][x]
    BY <2>1, <2>2 DEF Typed, File, Reads
  <2>5. {x \in Dir \ PackagesOf[m] : buck'[e][x] \notin {None, Cut}} = left[e] \ {d}
    BY <2>3, <2>4 DEF Stale
  <2>6. Stale(e, m)' = left'[e]
    BY <2>1, <2>2, <2>5 DEF Stale, Typed
  <2> QED
    BY <2>1, <2>6 DEF Underway
<1>6. CASE List(e)
  <2>1. /\ pc[e] = "unlink" /\ pc'[e] = "write" /\ seen' = seen /\ buck' = buck
        /\ left[e] = {} /\ out'[e] = Rendered(e, m, p)
        /\ left'[e] = {f \in File : out'[e][f] # None}
    BY <1>6 DEF List, Typed
  <2>2. m \in Conf /\ p \in Project /\ Stale(e, m) = {}
    BY <2>1 DEF Reads, Underway
  <2>3. Stale(e, m)' = {} /\ Rendered(e, m, p)' = Rendered(e, m, p)
    BY <2>1, <2>2, SameTrees
  <2> QED
    BY <2>1, <2>2, <2>3 DEF Underway, Done
<1>7. CASE Write(e)
  <2>1. pc[e] = "write" /\ UNCHANGED <<seen, out>> /\ m \in Conf /\ p \in Project
    BY <1>7 DEF Write, Reads
  <2>2. PICK f \in left[e] :
          /\ IF buck[e][f] # out[e][f] THEN Put(e, f, out[e][f]) ELSE UNCHANGED buck
          /\ left' = [left EXCEPT ![e] = @ \ {f}]
    BY <1>7 DEF Write
  <2>3. f \in File /\ out[e][f] \in Text /\ out[e] = Rendered(e, m, p)
    BY <2>1 DEF Typed, Reads, Underway
  <2>4. f = Top \/ f \in PackagesOf[m]
    BY <2>1, <2>3, RenderedType
  <2>5. \A g \in File : buck'[e][g] = IF g = f THEN out[e][f] ELSE buck[e][g]
    <3>1. out[e][f] \in Content
      BY <2>3 DEF Content
    <3>2. CASE Put(e, f, out[e][f])
      BY <2>3, <3>1, <3>2, PutType
    <3>3. CASE buck' = buck /\ buck[e][f] = out[e][f]
      BY <3>3
    <3> QED
      BY <2>2, <3>2, <3>3
  <2>6. Stale(e, m)' = Stale(e, m) /\ Rendered(e, m, p)' = Rendered(e, m, p)
    BY <2>1, <2>4, <2>5, SameTrees DEF File
  <2>7. left'[e] = left[e] \ {f}
    BY <2>2 DEF Typed
  <2>8. Stale(e, m) = {} /\ \A g \in File \ left[e] : out[e][g] \in {None, buck[e][g]}
    BY <2>1, <2>3 DEF Underway, Done
  <2>9. \A g \in File \ left'[e] : out[e][g] \in {None, buck'[e][g]}
    BY <2>5, <2>7, <2>8
  <2>10. Done(e, m, p, left[e] \ {f})'
    BY <2>1, <2>3, <2>6, <2>7, <2>8, <2>9 DEF Done
  <2>11. CASE pc'[e] = "write"
    BY <2>1, <2>3, <2>6, <2>7, <2>10, <2>11 DEF Underway, Reads
  <2>12. CASE left'[e] = {} /\ pc'[e] = "idle"
    BY <2>1, <2>7, <2>10, <2>12 DEF Underway
  <2> QED
    BY <1>7, <2>1, <2>11, <2>12 DEF Write, Typed
<1>8. CASE Stop(e)
  <2>1. pc'[e] = "idle" /\ status'[e] = "failed"
    BY <1>8 DEF Stop, Typed
  <2> QED
    BY <2>1 DEF Underway
<1> QED
  BY <1>1, <1>2, <1>3, <1>4, <1>5, <1>6, <1>7, <1>8 DEF Step

LEMMA NothingShared ==
  ASSUME shared = {}, [Next]_vars
  PROVE  shared' = {}
BY DEF Next, Step, EditConf, EditProject, Run, Extract, Load, Unlink, List, Write, Stop, vars

LEMMA Invariant == ASSUME Origin = None PROVE Spec => []IInv
<1>1. Init => IInv
  <2> SUFFICES ASSUME Init PROVE IInv
    OBVIOUS
  <2>1. shared = {} /\ \A e \in Experiment : pc[e] = "idle" /\ status[e] = "none"
    BY DEF Init
  <2> QED
    BY <2>1, TypeInit DEF IInv, Underway
<1>2. IInv /\ [Next]_vars => IInv'
  <2> SUFFICES ASSUME IInv, [Next]_vars PROVE IInv'
    OBVIOUS
  <2>1. TInv' /\ shared' = {}
    BY TypeStep, NothingShared DEF IInv
  <2>2. ASSUME NEW e \in Experiment
        PROVE  Underway(e)'
    <3>1. CASE UNCHANGED vars
      BY <3>1, Waits DEF IInv, vars, Still
    <3>2. CASE Next
      BY <3>2, Waits, OthersWait, GoesOn DEF IInv, Next
    <3> QED
      BY <3>1, <3>2
  <2> QED
    BY <2>1, <2>2 DEF IInv
<1> QED
  BY <1>1, <1>2, PTL DEF Spec

\* render's promise, for any configurations, trees and interruptions: after a
\* render that ended there is nothing to do for a second.  Experiments that are
\* not hard links of each other.
THEOREM OneRenderIsEnough == ASSUME Origin = None PROVE Spec => []Settles
<1>1. IInv => Settles
  <2> SUFFICES ASSUME IInv, NEW e \in Experiment,
                      pc[e] = "idle", status[e] = "ok", seen[e] = <<model[e], project[e]>>
               PROVE  CheckPasses(e)
    BY DEF Settles
  <2>1. model[e] \in Conf /\ Done(e, model[e], project[e], {})
    BY DEF IInv, Underway
  <2> QED
    BY <2>1 DEF Done, CheckPasses
<1> QED
  BY <1>1, Invariant, PTL

------------------------------------------------------------------------------
(* Variants: what a command may do to another experiment's files.          *)

\* The hard links that are left are of those that br2-new made, when the
\* origin's packages were c's.
Linked(c) == shared \subseteq PackagesOf[c] \cup {Top} /\ (shared # {} => Origin # None)

\* Only a write reaches another experiment, and only through a hard link.
LEMMA Reached ==
  ASSUME TInv, Next, NEW e \in Experiment, NEW f \in File, pc[e] = "idle", buck'[e][f] # buck[e][f]
  PROVE  f \in shared
<1>1. PICK x \in Experiment :
        \/ \E c \in Conf : EditConf(x, c)
        \/ \E p \in Project : EditProject(x, p)
        \/ \E first \in {"extract", "load"} : Run(x, first)
        \/ Step(x)
        \/ Stop(x)
  BY DEF Next
<1>2. Typed
  BY DEF TInv
<1>3. (Step(x) \/ Stop(x)) /\ buck' # buck
  BY <1>1 DEF EditConf, EditProject, Run
<1>4. x # e
  BY <1>3 DEF Step, Extract, Load, Unlink, List, Write, Stop
<1>5. ~Unlink(x)
  <2>1. ASSUME NEW d, buck' = [buck EXCEPT ![x][d] = None]
        PROVE  buck'[e] = buck[e]
    BY <1>2, <1>4, <2>1 DEF Typed
  <2> QED
    BY <2>1 DEF Unlink
<1>6. \E g \in File, t \in Content : Put(x, g, t)
  <2>1. left[x] \subseteq File
    BY <1>2 DEF Typed
  <2>2. CASE Write(x)
    <3>1. PICK g \in left[x] : IF buck[x][g] # out[x][g] THEN Put(x, g, out[x][g]) ELSE UNCHANGED buck
      BY <2>2 DEF Write
    <3>2. Put(x, g, out[x][g])
      BY <1>3, <3>1
    <3>3. out[x][g] \in Content
      BY <1>2, <2>1 DEF Typed, Content
    <3> QED
      BY <2>1, <3>2, <3>3
  <2>3. CASE Stop(x)
    <3>1. PICK g \in left[x] : Put(x, g, Cut)
      BY <1>3, <2>3 DEF Stop
    <3> QED
      BY <2>1, <3>1 DEF Content
  <2> QED
    BY <1>3, <1>5, <2>2, <2>3 DEF Step, Extract, Load, List
<1>7. PICK g \in File, t \in Content : Put(x, g, t)
  BY <1>6
<1>8. CASE g \in shared
  <2>1. buck'[e] = [buck[e] EXCEPT ![g] = t]
    BY <1>7, <1>8 DEF Put
  <2>2. buck[e] \in [File -> Content]
    BY <1>2 DEF Typed
  <2> QED
    BY <1>8, <2>1, <2>2
<1>9. CASE g \notin shared
  BY <1>4, <1>7, <1>9 DEF Put
<1> QED
  BY <1>8, <1>9

\* What is left of OwnGraph when there are variants: a command in one
\* experiment changes a BUCK file of another only if that is a hard link that
\* br2-new made and neither has removed since, that is the BUCK file of a tree's
\* root or of a package that the origin had then.
THEOREM OnlyLinksAreWritten ==
  ASSUME NEW c \in Conf
  PROVE  Spec /\ (Origin # None => conf[Origin] = c) =>
           [][\A e \in Experiment, f \in File :
                pc[e] = "idle" /\ buck'[e][f] # buck[e][f] =>
                  f \in shared \cap (PackagesOf[c] \cup {Top}) /\ Origin # None]_vars
<1> DEFINE Start == Origin # None => conf[Origin] = c
           A == \A e \in Experiment, f \in File :
                  pc[e] = "idle" /\ buck'[e][f] # buck[e][f] =>
                    f \in shared \cap (PackagesOf[c] \cup {Top}) /\ Origin # None
<1>1. Init /\ Start => Linked(c)
  BY DEF Init, Linked
<1>2. Linked(c) /\ [Next]_vars => Linked(c)'
  <2> SUFFICES ASSUME [Next]_vars PROVE shared' \subseteq shared
    BY DEF Linked
  <2> QED
    BY DEF Next, Step, EditConf, EditProject, Run, Extract, Load, Unlink, List, Write, Stop, vars
<1>3. TInv /\ Linked(c) /\ [Next]_vars => [A]_vars
  BY Reached DEF Linked
<1> QED
  BY <1>1, <1>2, <1>3, Types, PTL DEF Spec
=============================================================================
