--------------------------- MODULE ClosureProofs ---------------------------
(***************************************************************************)
(* Proofs about closures: what the analysis of the target graph makes of   *)
(* them, for every package graph, native list and configuration (Analysis),*)
(* and what package actions make of the deltas they get with them, for     *)
(* every set of packages, paths and install commands (DeltaTree).          *)
(*                                                                         *)
(* The analysis's inductive invariant adds to the properties what the      *)
(* merge loop knows half way: the entries read so far are in the           *)
(* accumulator, which is itself ordered, free of doubles and minimal.      *)
(*                                                                         *)
(* The trees' one, Known, adds what each artifact says of itself (where    *)
(* its merge's entries came from), and for each phase of an action what    *)
(* its work directory holds.  Between the two stands ActionsGetClosures:   *)
(* the analysis provides what the trees assume.                            *)
(***************************************************************************)
EXTENDS Analysis, DeltaTree, WellFoundedInduction, TLAPS

(***************************************************************************)
(* Analysis's predicates as functions of the state they read, so that a    *)
(* step that leaves it alone leaves them alone by substitution.            *)
(***************************************************************************)
SelectedBy(nat, ren, n) == Label(n, n \in nat /\ n \in ren)

DepBy(dps, nat, ren, t, k) ==
  Label(dps[t][k], dps[t][k] \in nat /\ (t.kind = "native" \/ dps[t][k] \in ren))

OrderedBy(dps, s) ==
  \A k \in DOMAIN s : \A m \in DOMAIN dps[s[k]] :
    \E l \in DOMAIN s : l < k /\ s[l].name = dps[s[k]][m]

\* What holds of a finished provider.
Prefix(s) == {k \in DOMAIN s : k < Len(s)}

TopoOK(inf, dps, nat, ren, t) ==
  LET s == inf[t].topo IN
    /\ Len(s) > 0
    /\ s[Len(s)] = t
    /\ Exists(t)
    /\ \A k \in DOMAIN s : inf[s[k]] # None
    /\ \A m \in DOMAIN dps[t] : inf[DepBy(dps, nat, ren, t, m)] # None
    /\ OrderedBy(dps, s)

InfoOK ==
  \A t \in Target : info[t] # None => TopoOK(info, deps, native, rendered, t)

\* What holds of the accumulator while a rule runs.
CurTopo == info[DepTarget(cur, dep)].topo

CurOK ==
  cur # None =>
    /\ Exists(cur)
    /\ ~Analysed(cur)
    /\ \A k \in DOMAIN deps[cur] : Analysed(DepTarget(cur, k))
    /\ dep <= Len(deps[cur]) + 1
    /\ dep \in DOMAIN deps[cur] => entry <= Len(CurTopo) + 1

AccTopo ==
  cur # None =>
    /\ \A k \in DOMAIN acc.topo : info[acc.topo[k]] # None
    /\ UniqueNames(acc.topo)
    /\ OrderedBy(deps, acc.topo)

AccRead ==
  cur # None =>
    /\ \A k \in DOMAIN deps[cur] : k < dep => deps[cur][k] \in Names(acc.topo)
    /\ dep \in DOMAIN deps[cur] =>
         \A k \in DOMAIN CurTopo : k < entry => CurTopo[k].name \in Names(acc.topo)

AccDirs ==
  cur # None =>
    /\ acc.dirs \subseteq DirsOf(acc.topo)
    /\ DirsOf(acc.topo) \subseteq
         acc.dirs \cup (IF dep \in DOMAIN deps[cur] THEN info[DepTarget(cur, dep)].dirs ELSE {})

OrderInv == TypeOK /\ InfoOK /\ CurOK /\ AccTopo /\ AccRead

\* What holds besides while the render is current.
SelectedTopo(nat, ren, s, t) ==
  /\ \A k \in Prefix(s) : s[k] = SelectedBy(nat, ren, s[k].name)
  /\ t = SelectedBy(nat, ren, t.name) => UniqueNames(s)

SelectInv ==
  RenderIsCurrent =>
    /\ \A t \in Target : info[t] # None => SelectedTopo(native, rendered, info[t].topo, t)
    /\ cur # None => \A k \in DOMAIN acc.topo :
                       acc.topo[k] = SelectedBy(native, rendered, acc.topo[k].name)

\* What a step leaves alone of the graph is what labels are made of.
USE DEF graph
------------------------------------------------------------------------------
LEMMA LabelType ==
  ASSUME NEW n \in Package
  PROVE  /\ DepLabel(n) \in Target
         /\ Br2Dep(n) \in Target
         /\ DepLabel(n).name = n
         /\ Br2Dep(n).name = n
BY DEF DepLabel, Br2Dep, Label, Target

LEMMA SameLabels ==
  /\ \A n : DepLabel(n) = SelectedBy(native, rendered, n)
  /\ \A t, k : DepTarget(t, k) = DepBy(deps, native, rendered, t, k)
BY DEF DepLabel, SelectedBy, DepTarget, DepOf, Br2Dep, DepBy, Label

LEMMA DepTargetType ==
  ASSUME TypeOK, NEW t \in Target, NEW k \in DOMAIN deps[t]
  PROVE  /\ DepTarget(t, k) \in Target /\ deps[t][k] \in Package
         /\ DepTarget(t, k).name = deps[t][k]
<1>1. deps[t] \in Seq(Package)
  BY GraphsAssumption DEF TypeOK
<1>2. deps[t][k] \in Package
  BY <1>1
<1>3. QED
  BY <1>2, LabelType DEF DepTarget, DepOf

\* While the render is current, a dependency that exists is the target the
\* configuration selects: the two ways of writing a label (rendered and
\* br2_dep) then agree.
LEMMA DepSelected ==
  ASSUME TypeOK, RenderIsCurrent, NEW t \in Target, NEW k \in DOMAIN deps[t], Exists(DepTarget(t, k))
  PROVE  DepTarget(t, k) = DepLabel(deps[t][k])
<1>1. deps[t][k] \in Package
  BY DepTargetType
<1>2. CASE t.kind = "native"
  <2>1. DepTarget(t, k) = Br2Dep(deps[t][k])
    BY <1>2 DEF DepTarget, DepOf
  <2>2. CASE deps[t][k] \in native
    <3>1. deps[t][k] \in written
      BY <2>1, <2>2 DEF Br2Dep, Label, Exists
    <3>2. deps[t][k] \in rendered
      BY <2>2, <3>1 DEF RenderIsCurrent
    <3>3. QED
      BY <2>1, <2>2, <3>2 DEF Br2Dep, DepLabel
  <2>3. CASE deps[t][k] \notin native
    BY <2>1, <2>3 DEF Br2Dep, DepLabel
  <2>4. QED
    BY <2>2, <2>3
<1>3. CASE t.kind # "native"
  BY <1>3 DEF DepTarget, DepOf
<1>4. QED
  BY <1>2, <1>3

LEMMA InfoType ==
  ASSUME TypeOK, NEW t \in Target, Analysed(t)
  PROVE  info[t] \in Provider /\ info[t].topo \in Seq(Target) /\ info[t].dirs \in SUBSET Dir
BY DEF TypeOK, Analysed, Provider

\* Appending an entry whose dependencies are already there keeps the order.
LEMMA AppendOrdered ==
  ASSUME NEW s \in Seq(Target), NEW e \in Target, NEW dps, OrderedBy(dps, s),
         \A m \in DOMAIN dps[e] : dps[e][m] \in Names(s)
  PROVE  OrderedBy(dps, Append(s, e))
BY DEF OrderedBy, Names

LEMMA AppendMembers ==
  ASSUME NEW s \in Seq(Target), NEW e \in Target
  PROVE  /\ Members(Append(s, e)) = Members(s) \cup {e}
         /\ Names(Append(s, e)) = Names(s) \cup {e.name}
         /\ DirsOf(Append(s, e)) = DirsOf(s) \cup {DirOf[e.name]}
<1> DEFINE u == Append(s, e)
<1>1. u \in Seq(Target) /\ DOMAIN u = 1..Len(s)+1 /\ DOMAIN s = 1..Len(s) /\ u[Len(s)+1] = e
  OBVIOUS
<1>2. \A k \in DOMAIN s : k \in DOMAIN u /\ u[k] = s[k]
  OBVIOUS
<1>3. \A k \in DOMAIN u : k \in DOMAIN s \/ k = Len(s)+1
  BY <1>1
<1>4. Len(s)+1 \in DOMAIN u
  BY <1>1
<1> HIDE DEF u
<1>5. Members(u) = Members(s) \cup {e}
  BY <1>1, <1>2, <1>3, <1>4 DEF Members
<1>6. Names(u) = Names(s) \cup {e.name}
  BY <1>1, <1>2, <1>3, <1>4 DEF Names
<1>7. DirsOf(u) = DirsOf(s) \cup {DirOf[e.name]}
  BY <1>1, <1>2, <1>3, <1>4 DEF DirsOf
<1>8. QED
  BY <1>5, <1>6, <1>7 DEF u
------------------------------------------------------------------------------
LEMMA MergedType ==
  ASSUME TypeOK, CurOK, cur # None, dep \in DOMAIN deps[cur]
  PROVE  /\ DepTarget(cur, dep) \in Target
         /\ CurTopo \in Seq(Target)
         /\ info[DepTarget(cur, dep)] \in Provider
<1>1. cur \in Target /\ Analysed(DepTarget(cur, dep))
  BY DEF TypeOK, CurOK
<1>2. DepTarget(cur, dep) \in Target
  BY <1>1, DepTargetType
<1>3. QED
  BY <1>1, <1>2, InfoType DEF CurTopo

LEMMA AccType ==
  ASSUME TypeOK
  PROVE  acc.topo \in Seq(Target) /\ acc.dirs \in SUBSET Dir /\ acc.links \in SUBSET Link
BY DEF TypeOK, Provider

LEMMA InitType == Init => TypeOK /\ CurOK
BY NoneAssumption DEF Init, TypeOK, CurOK, Empty, Provider

\* What changes the meaning of labels: another list, other rules, a render.
Relabel == (\E n \in SUBSET Replaceable : Reconfigure(n) \/ Sync(n)) \/ Render

LEMMA Relabelled ==
  ASSUME Relabel
  PROVE  /\ deps' = deps /\ dep' = dep /\ entry' = entry /\ acc' = acc
         /\ cur' = None /\ info' = [t \in Target |-> None]
         /\ TypeOK => /\ native' \in SUBSET Replaceable
                      /\ written' \in SUBSET Replaceable
                      /\ rendered' \in SUBSET Replaceable
BY DEF Relabel, Reconfigure, Sync, Render, Reanalyse, TypeOK

LEMMA TypeStep == TypeOK /\ CurOK /\ [Next]_vars => TypeOK'
<1> SUFFICES ASSUME TypeOK, CurOK, [Next]_vars PROVE TypeOK'
  OBVIOUS
<1>1. ASSUME NEW t \in Target, Begin(t) PROVE TypeOK'
  BY <1>1 DEF Begin, Empty, Provider, TypeOK
<1>2. CASE MergeEntry
  <2> DEFINE e == CurTopo[entry]
  <2>1. cur # None /\ dep \in DOMAIN deps[cur] /\ entry \in DOMAIN CurTopo
    BY <1>2 DEF MergeEntry, CurTopo
  <2>2. e \in Target
    BY <2>1, MergedType
  <2>3. Append(acc.topo, e) \in Seq(Target)
    BY <2>2, AccType
  <2>4. acc' = acc \/ acc' = [acc EXCEPT !.topo = Append(acc.topo, e)]
    BY <1>2 DEF MergeEntry, CurTopo
  <2>5. acc' \in Provider
    BY <2>3, <2>4 DEF TypeOK, Provider
  <2>6. QED
    BY <1>2, <2>5 DEF MergeEntry, TypeOK
<1>3. CASE MergeDep
  <2> DEFINE i == info[DepTarget(cur, dep)]
  <2>1. i \in Provider
    BY <1>3, MergedType DEF MergeDep
  <2>2. acc' = [acc EXCEPT !.dirs = @ \cup i.dirs, !.links = @ \cup i.links]
    BY <1>3 DEF MergeDep
  <2>3. acc' \in Provider
    BY <2>1, <2>2 DEF TypeOK, Provider
  <2>4. QED
    BY <1>3, <2>3 DEF MergeDep, TypeOK
<1>4. CASE Finish
  <2>1. cur \in Target /\ cur.name \in Package
    BY <1>4 DEF Finish, TypeOK, Target
  <2>2. DirOf[cur.name] \in Dir /\ LinksOf[DirOf[cur.name]] \subseteq Link
    BY <2>1, GraphAssumption
  <2>3. Append(acc.topo, cur) \in Seq(Target)
    BY <2>1, AccType
  <2> DEFINE p == [topo  |-> Append(acc.topo, cur),
                   dirs  |-> acc.dirs \cup Own(cur).dirs,
                   links |-> acc.links \cup Own(cur).links]
  <2>4. p \in Provider
    BY <2>2, <2>3, AccType DEF Provider, Own
  <2>5. info' = [info EXCEPT ![cur] = p]
    BY <1>4 DEF Finish
  <2> HIDE DEF p
  <2>6. info' \in [Target -> Provider \cup {None}]
    BY <2>4, <2>5 DEF TypeOK
  <2>7. QED
    BY <1>4, <2>6 DEF Finish, TypeOK
<1>5. CASE Relabel
  BY <1>5, Relabelled DEF TypeOK
<1>6. CASE UNCHANGED vars
  BY <1>6 DEF vars, TypeOK
<1>7. QED
  BY <1>1, <1>2, <1>3, <1>4, <1>5, <1>6 DEF Next, Analyse, Relabel

LEMMA CurStep == TypeOK /\ CurOK /\ [Next]_vars => CurOK'
<1> SUFFICES ASSUME TypeOK, CurOK, [Next]_vars PROVE CurOK'
  OBVIOUS
<1>1. ASSUME NEW t \in Target, Begin(t) PROVE CurOK'
  BY <1>1, NoneAssumption DEF Begin, CurOK, TypeOK, Exists, Analysed, DepTarget, DepOf, DepLabel, Br2Dep, CurTopo
<1>2. CASE MergeEntry
  BY <1>2, MergedType DEF MergeEntry, CurOK, TypeOK, Exists, Analysed, DepTarget, DepOf, DepLabel, Br2Dep, CurTopo
<1>3. CASE MergeDep
  <2>1. /\ cur # None /\ cur' = cur /\ info' = info /\ UNCHANGED graph
        /\ dep \in DOMAIN deps[cur] /\ dep' = dep + 1 /\ entry' = 1
    BY <1>3 DEF MergeDep
  <2>2. cur \in Target /\ deps[cur] \in Seq(Package)
    BY <2>1, GraphsAssumption DEF TypeOK
  <2>3. dep' <= Len(deps[cur]) + 1
    BY <2>1, <2>2
  <2>4. ASSUME dep + 1 \in DOMAIN deps[cur]
        PROVE  1 <= Len(info[DepTarget(cur, dep + 1)].topo) + 1
    BY <2>1, <2>2, <2>4, DepTargetType, InfoType DEF CurOK
  <2>5. \A k : DepTarget(cur, k)' = DepTarget(cur, k)
    BY <2>1 DEF DepTarget, DepOf, DepLabel, Br2Dep
  <2>6. dep' \in DOMAIN deps'[cur'] => entry' <= Len(CurTopo') + 1
    BY <2>1, <2>4 DEF CurTopo, DepTarget, DepOf, DepLabel, Br2Dep
  <2>7. QED
    BY <2>1, <2>3, <2>5, <2>6 DEF CurOK, Exists, Analysed
<1>4. CASE Finish
  BY <1>4 DEF Finish, CurOK
<1>5. CASE Relabel
  BY <1>5, Relabelled DEF CurOK
<1>6. CASE UNCHANGED vars
  BY <1>6 DEF vars, CurOK, Exists, Analysed, DepTarget, DepOf, DepLabel, Br2Dep, CurTopo
<1>7. QED
  BY <1>1, <1>2, <1>3, <1>4, <1>5, <1>6 DEF Next, Analyse, Relabel

\* Analysis keeps its state well typed for every graph, native list and
\* configuration (the Starlark of _br2_package_impl and _br2_native_package_impl).
THEOREM TypeCorrect == Spec => []TypeOK
<1>1. TypeOK /\ CurOK /\ [Next]_vars => (TypeOK /\ CurOK)'
  BY TypeStep, CurStep
<1>2. QED
  BY <1>1, InitType, PTL DEF Spec
------------------------------------------------------------------------------
(***************************************************************************)
(* Order, and uniqueness in the accumulator.                               *)
(***************************************************************************)
LEMMA OrderInit == Init => OrderInv
<1> SUFFICES ASSUME Init PROVE OrderInv
  OBVIOUS
<1>1. cur = None /\ \A t \in Target : ~Analysed(t)
  BY DEF Init, Analysed
<1>2. QED
  BY <1>1, InitType DEF OrderInv, InfoOK, AccTopo, AccRead, Analysed

LEMMA OrderBegin ==
  ASSUME OrderInv, NEW t \in Target, Begin(t)
  PROVE  InfoOK' /\ AccTopo' /\ AccRead'
<1>1. /\ UNCHANGED <<graph, info>> /\ cur' = t /\ dep' = 1 /\ entry' = 1
      /\ acc'.topo = <<>>
  BY DEF Begin, Empty
<1>2. InfoOK'
  BY <1>1 DEF OrderInv, InfoOK, TopoOK, Exists
<1>3. AccTopo'
  BY <1>1 DEF AccTopo, UniqueNames, OrderedBy
<1>4. AccRead'
  <2>1. deps'[t] \in Seq(Package)
    BY <1>1, GraphsAssumption DEF OrderInv, TypeOK
  <2>2. ASSUME 1 \in DOMAIN deps[t]
        PROVE  info[DepTarget(t, 1)].topo \in Seq(Target)
    BY <2>2, DepTargetType, InfoType DEF OrderInv, Begin
  <2>3. ~(\E k \in DOMAIN deps'[cur'] : k < dep')
    BY <1>1, <2>1
  <2>4. dep' \in DOMAIN deps'[cur'] => ~(\E k \in DOMAIN CurTopo' : k < entry')
    BY <1>1, <2>2 DEF CurTopo, DepTarget, DepOf, Br2Dep, DepLabel
  <2>5. QED
    BY <2>3, <2>4 DEF AccRead
<1>5. QED
  BY <1>2, <1>3, <1>4

LEMMA OrderMergeEntry ==
  ASSUME OrderInv, MergeEntry
  PROVE  InfoOK' /\ AccTopo' /\ AccRead'
<1> DEFINE e == CurTopo[entry]
<1> USE DEF OrderInv
<1>1. /\ cur # None /\ cur \in Target /\ dep \in DOMAIN deps[cur] /\ entry \in DOMAIN CurTopo
      /\ UNCHANGED <<graph, info, cur, dep>> /\ entry' = entry + 1
  BY DEF MergeEntry, CurTopo, TypeOK
<1>2. acc' = IF e.name \in Names(acc.topo) THEN acc ELSE [acc EXCEPT !.topo = Append(acc.topo, e)]
  BY DEF MergeEntry, CurTopo
<1>3. /\ DepTarget(cur, dep) \in Target /\ Analysed(DepTarget(cur, dep))
      /\ CurTopo \in Seq(Target) /\ e \in Target
  BY <1>1, MergedType DEF CurOK
<1>4. TopoOK(info, deps, native, rendered, DepTarget(cur, dep))
  BY <1>3 DEF InfoOK, Analysed
<1>5. info[e] # None
  BY <1>1, <1>4 DEF TopoOK, CurTopo
<1>6. \A m \in DOMAIN deps[e] : deps[e][m] \in Names(acc.topo)
  <2> TAKE m \in DOMAIN deps[e]
  <2>1. PICK l \in DOMAIN CurTopo : l < entry /\ CurTopo[l].name = deps[e][m]
    BY <1>1, <1>4 DEF TopoOK, OrderedBy, CurTopo
  <2>2. QED
    BY <1>1, <2>1 DEF AccRead
<1>7. InfoOK'
  BY <1>1 DEF InfoOK, TopoOK, Exists
<1>8. acc.topo \in Seq(Target)
  BY AccType
<1>9. CurTopo' = CurTopo
  BY <1>1 DEF CurTopo, DepTarget, DepOf, Br2Dep, DepLabel
<1>10. CASE e.name \in Names(acc.topo)
  <2>1. acc' = acc
    BY <1>2, <1>10
  <2>2. AccTopo'
    BY <1>1, <2>1 DEF AccTopo
  <2>3. AccRead'
    BY <1>1, <1>3, <1>9, <1>10, <2>1 DEF AccRead, TypeOK
  <2>4. QED
    BY <1>7, <2>2, <2>3
<1>11. CASE e.name \notin Names(acc.topo)
  <2>1. acc'.topo = Append(acc.topo, e)
    BY <1>2, <1>11 DEF TypeOK, Provider
  <2> DEFINE u == Append(acc.topo, e)
  <2>2. /\ u \in Seq(Target) /\ DOMAIN u = 1..Len(acc.topo)+1 /\ u[Len(acc.topo)+1] = e
        /\ DOMAIN acc.topo = 1..Len(acc.topo)
        /\ \A k \in DOMAIN acc.topo : u[k] = acc.topo[k]
    BY <1>3, <1>8
  <2>3. \A k \in DOMAIN u : k \in DOMAIN acc.topo \/ k = Len(acc.topo)+1
    BY <2>2, <1>8
  <2>4. OrderedBy(deps, u)
    BY <1>1, <1>3, <1>6, <1>8, AppendOrdered DEF AccTopo
  <2> HIDE DEF u
  <2>5. \A k \in DOMAIN u : info[u[k]] # None
    BY <1>1, <1>5, <2>2, <2>3 DEF AccTopo
  <2>6. UniqueNames(u)
    BY <1>1, <1>11, <2>2, <2>3 DEF AccTopo, UniqueNames, Names
  <2>7. AccTopo'
    BY <1>1, <2>1, <2>4, <2>5, <2>6 DEF u, AccTopo
  <2>8. AccRead'
    <3>1. Names(acc'.topo) = Names(acc.topo) \cup {e.name}
      BY <1>3, <1>8, <2>1, AppendMembers
    <3>2. QED
      BY <1>1, <1>3, <1>9, <3>1 DEF AccRead, TypeOK
  <2>9. QED
    BY <1>7, <2>7, <2>8
<1>12. QED
  BY <1>10, <1>11

LEMMA OrderMergeDep ==
  ASSUME OrderInv, MergeDep
  PROVE  InfoOK' /\ AccTopo' /\ AccRead'
<1> USE DEF OrderInv
<1>1. /\ cur # None /\ cur \in Target /\ dep \in DOMAIN deps[cur] /\ entry \notin DOMAIN CurTopo
      /\ UNCHANGED <<graph, info, cur>> /\ dep' = dep + 1 /\ entry' = 1
  BY DEF MergeDep, CurTopo, TypeOK
<1>2. acc'.topo = acc.topo
  BY DEF MergeDep, TypeOK, Provider
<1>3. /\ DepTarget(cur, dep) \in Target /\ Analysed(DepTarget(cur, dep)) /\ CurTopo \in Seq(Target)
  BY <1>1, MergedType DEF CurOK
<1>4. deps[cur][dep] \in Names(acc.topo)
  <2>1. TopoOK(info, deps, native, rendered, DepTarget(cur, dep))
    BY <1>3 DEF InfoOK, Analysed
  <2>2. Len(CurTopo) \in DOMAIN CurTopo /\ Len(CurTopo) < entry
    BY <1>1, <1>3, <2>1 DEF TopoOK, CurTopo, CurOK, TypeOK
  <2>3. CurTopo[Len(CurTopo)].name = deps[cur][dep]
    BY <1>1, <2>1, DepTargetType DEF TopoOK, CurTopo
  <2>4. QED
    BY <1>1, <2>2, <2>3 DEF AccRead
<1>5. InfoOK'
  BY <1>1 DEF InfoOK, TopoOK, Exists
<1>6. AccTopo'
  BY <1>1, <1>2 DEF AccTopo
<1>7. AccRead'
  <2>1. deps[cur] \in Seq(Package) /\ dep \in Nat
    BY <1>1, GraphsAssumption DEF TypeOK
  <2>2. \A k \in DOMAIN deps[cur] : k < dep + 1 => deps[cur][k] \in Names(acc.topo)
    BY <1>1, <1>4, <2>1 DEF AccRead
  <2>3. ASSUME dep + 1 \in DOMAIN deps[cur]
        PROVE  ~(\E k \in DOMAIN info[DepTarget(cur, dep + 1)].topo : k < 1)
    BY <1>1, <2>3, DepTargetType, InfoType DEF CurOK
  <2>4. dep' \in DOMAIN deps'[cur'] => ~(\E k \in DOMAIN CurTopo' : k < entry')
    BY <1>1, <2>3 DEF CurTopo, DepTarget, DepOf, Br2Dep, DepLabel
  <2>5. QED
    BY <1>1, <1>2, <2>2, <2>4 DEF AccRead
<1>8. QED
  BY <1>5, <1>6, <1>7

\* What the rule returns, with the facts about it that every part below needs.
LEMMA Finished ==
  ASSUME TypeOK, CurOK, Finish
  PROVE  /\ cur # None /\ cur \in Target /\ dep \notin DOMAIN deps[cur]
         /\ UNCHANGED graph /\ cur' = None
         /\ info'[cur].topo = Append(acc.topo, cur) /\ info'[cur] # None
         /\ \A t \in Target : t # cur => info'[t] = info[t]
<1> DEFINE p == [topo  |-> Append(acc.topo, cur), dirs  |-> acc.dirs \cup Own(cur).dirs,
                 links |-> acc.links \cup Own(cur).links]
<1>1. /\ cur # None /\ cur \in Target /\ dep \notin DOMAIN deps[cur]
      /\ UNCHANGED graph /\ cur' = None
  BY DEF Finish, TypeOK
<1>2. info' = [info EXCEPT ![cur] = p]
  BY DEF Finish
<1>3. Append(acc.topo, cur) \in Seq(Target) /\ cur.name \in Package
  BY <1>1, AccType DEF Target
<1>4. p \in Provider
  BY <1>1, <1>3, AccType, GraphAssumption DEF Provider, Own
<1>5. p.topo = Append(acc.topo, cur)
  OBVIOUS
<1> HIDE DEF p
<1>6. info'[cur] = p /\ p # None /\ \A t \in Target : t # cur => info'[t] = info[t]
  BY <1>1, <1>2, <1>4, NoneAssumption DEF TypeOK
<1>7. QED
  BY <1>1, <1>5, <1>6

LEMMA OrderFinish ==
  ASSUME OrderInv, Finish
  PROVE  InfoOK' /\ AccTopo' /\ AccRead'
<1> USE DEF OrderInv
<1> DEFINE u == Append(acc.topo, cur)
<1>1. /\ cur # None /\ cur \in Target /\ dep \notin DOMAIN deps[cur]
      /\ UNCHANGED graph /\ cur' = None
  BY Finished
<1>2. /\ info'[cur].topo = u /\ info'[cur] # None
      /\ \A t \in Target : t # cur => info'[t] = info[t]
  BY Finished
<1>3. acc.topo \in Seq(Target)
  BY AccType
<1>4. /\ u \in Seq(Target) /\ DOMAIN u = 1..Len(acc.topo)+1 /\ u[Len(acc.topo)+1] = cur
      /\ Len(u) = Len(acc.topo) + 1
      /\ DOMAIN acc.topo = 1..Len(acc.topo)
      /\ \A k \in DOMAIN acc.topo : u[k] = acc.topo[k]
  BY <1>1, <1>3
<1>5. \A k \in DOMAIN u : k \in DOMAIN acc.topo \/ k = Len(acc.topo)+1
  BY <1>4, <1>3
<1>6. \A m \in DOMAIN deps[cur] : deps[cur][m] \in Names(acc.topo)
  <2>1. deps[cur] \in Seq(Package) /\ dep \in Nat \ {0}
    BY <1>1, GraphsAssumption DEF TypeOK
  <2>2. \A m \in DOMAIN deps[cur] : m < dep
    BY <1>1, <2>1 DEF CurOK
  <2>3. QED
    BY <1>1, <2>2 DEF AccRead
<1>7. OrderedBy(deps, u)
  BY <1>1, <1>3, <1>6, AppendOrdered DEF AccTopo
<1> HIDE DEF u
<1>8. \A k \in DOMAIN u : info'[u[k]] # None
  <2>1. \A k \in DOMAIN acc.topo : acc.topo[k] \in Target /\ info[acc.topo[k]] # None
    BY <1>1, <1>3 DEF AccTopo
  <2>2. QED
    BY <1>2, <1>4, <1>5, <2>1
<1>9. \A t \in Target : info[t] # None => info'[t] # None
  BY <1>2
<1>10. \A t \in Target : \A m \in DOMAIN deps[t] : DepBy(deps, native, rendered, t, m) \in Target
  BY DepTargetType, SameLabels
<1>11. InfoOK'
  <2> SUFFICES ASSUME NEW t \in Target, info'[t] # None
               PROVE  TopoOK(info, deps, native, rendered, t)'
    BY <1>1 DEF InfoOK
  <2>1. CASE t = cur
    <3>1. Exists(t)' /\ \A m \in DOMAIN deps[t] : info[DepBy(deps, native, rendered, t, m)] # None
      BY <1>1, <2>1, SameLabels DEF CurOK, Exists, Analysed
    <3>2. \A m \in DOMAIN deps[t] : info'[DepBy(deps, native, rendered, t, m)] # None
      BY <1>1, <1>9, <1>10, <3>1
    <3>3. /\ deps' = deps /\ info'[t].topo = u /\ Len(u) > 0 /\ u[Len(u)] = t
          /\ \A m : DepBy(deps, native, rendered, t, m)' = DepBy(deps, native, rendered, t, m)
      BY <1>1, <1>2, <1>3, <1>4, <2>1 DEF DepBy
    <3>4. QED
      BY <1>7, <1>8, <2>1, <3>1, <3>2, <3>3 DEF TopoOK
  <2>2. CASE t # cur
    <3>1. info'[t] = info[t] /\ info[t] # None
      BY <1>2, <2>2
    <3>2. TopoOK(info, deps, native, rendered, t) /\ info[t].topo \in Seq(Target)
      BY <3>1, InfoType DEF InfoOK, Analysed
    <3>3. \A k \in DOMAIN info[t].topo : info'[info[t].topo[k]] # None
      BY <1>9, <3>2 DEF TopoOK
    <3>4. \A m \in DOMAIN deps[t] : info'[DepBy(deps, native, rendered, t, m)] # None
      BY <1>9, <1>10, <3>2 DEF TopoOK
    <3>5. Exists(t)'
      BY <1>1, <3>2 DEF TopoOK, Exists
    <3>6. /\ deps' = deps
          /\ \A m : DepBy(deps, native, rendered, t, m)' = DepBy(deps, native, rendered, t, m)
      BY <1>1 DEF DepBy
    <3>7. QED
      BY <3>1, <3>2, <3>3, <3>4, <3>5, <3>6 DEF TopoOK
  <2>3. QED
    BY <2>1, <2>2
<1>12. AccTopo' /\ AccRead'
  BY <1>1 DEF AccTopo, AccRead
<1>13. QED
  BY <1>11, <1>12

LEMMA OrderStep == OrderInv /\ [Next]_vars => OrderInv'
<1> SUFFICES ASSUME OrderInv, [Next]_vars PROVE OrderInv'
  OBVIOUS
<1>1. TypeOK' /\ CurOK'
  BY TypeStep, CurStep DEF OrderInv
<1>2. CASE Relabel
  BY <1>1, <1>2, Relabelled DEF OrderInv, InfoOK, AccTopo, AccRead
<1>3. CASE UNCHANGED vars
  <2>1. CurTopo' = CurTopo
    BY <1>3 DEF vars, CurTopo, DepTarget, DepOf, Br2Dep, DepLabel
  <2>2. InfoOK' /\ AccTopo'
    BY <1>3 DEF vars, OrderInv, InfoOK, AccTopo, TopoOK, Exists
  <2>3. AccRead'
    BY <1>3, <2>1 DEF vars, OrderInv, AccRead
  <2>4. QED
    BY <1>1, <2>2, <2>3 DEF OrderInv
<1>4. QED
  BY <1>1, <1>2, <1>3, OrderBegin, OrderMergeEntry, OrderMergeDep, OrderFinish
     DEF OrderInv, Next, Analyse, Relabel

LEMMA OrderInvariant == Spec => []OrderInv
BY OrderInit, OrderStep, PTL DEF Spec

\* Every merged closure ends with its target and lists dependencies first, for
\* every graph, every order of the dependency lists, and whenever the project
\* was last rendered (_merge_topo).
THEOREM ClosuresOrdered == Spec => []TopoOrdered
<1>1. OrderInv => TopoOrdered
  BY DEF OrderInv, InfoOK, TopoOK, TopoOrdered, Analysed, Ordered, DepsBefore, OrderedBy
<1>2. QED
  BY <1>1, OrderInvariant, PTL
------------------------------------------------------------------------------
(***************************************************************************)
(* Selection.                                                              *)
(***************************************************************************)
LEMMA SelectMergeEntry ==
  ASSUME OrderInv, SelectInv, MergeEntry
  PROVE  SelectInv'
<1> DEFINE e == CurTopo[entry]
<1> SUFFICES ASSUME RenderIsCurrent PROVE SelectInv'
  BY DEF MergeEntry, SelectInv, RenderIsCurrent
<1> USE DEF OrderInv
<1>1. /\ cur # None /\ cur \in Target /\ dep \in DOMAIN deps[cur] /\ entry \in DOMAIN CurTopo
      /\ UNCHANGED <<graph, info, cur, dep>>
  BY DEF MergeEntry, CurTopo, TypeOK
<1>2. acc' = acc \/ acc' = [acc EXCEPT !.topo = Append(acc.topo, e)]
  BY DEF MergeEntry, CurTopo
<1>3. /\ DepTarget(cur, dep) \in Target /\ info[DepTarget(cur, dep)] # None
      /\ CurTopo \in Seq(Target) /\ e \in Target
  BY <1>1, MergedType DEF CurOK, Analysed
<1>4. /\ TopoOK(info, deps, native, rendered, DepTarget(cur, dep))
      /\ SelectedTopo(native, rendered, CurTopo, DepTarget(cur, dep))
  BY <1>3 DEF InfoOK, SelectInv, CurTopo
<1>5. e = SelectedBy(native, rendered, e.name)
  <2>1. CASE entry \in Prefix(CurTopo)
    BY <1>4, <2>1 DEF SelectedTopo
  <2>2. CASE entry \notin Prefix(CurTopo)
    <3>1. entry = Len(CurTopo)
      BY <1>1, <1>3, <2>2 DEF Prefix
    <3>2. e = DepTarget(cur, dep) /\ Exists(DepTarget(cur, dep))
      BY <1>4, <3>1 DEF TopoOK, CurTopo
    <3>3. e = DepLabel(deps[cur][dep]) /\ e.name = deps[cur][dep]
      BY <1>1, <3>2, DepSelected, DepTargetType
    <3>4. QED
      BY <3>3, SameLabels
  <2>3. QED
    BY <2>1, <2>2
<1>6. acc.topo \in Seq(Target) /\ \A k \in DOMAIN acc.topo : acc.topo[k] = SelectedBy(native, rendered, acc.topo[k].name)
  BY <1>1, AccType DEF SelectInv
<1>7. \A k \in DOMAIN acc'.topo : acc'.topo[k] = SelectedBy(native, rendered, acc'.topo[k].name)
  <2>1. CASE acc' = acc
    BY <1>6, <2>1
  <2>2. CASE acc' = [acc EXCEPT !.topo = Append(acc.topo, e)]
    <3>1. acc'.topo = Append(acc.topo, e)
      BY <2>2 DEF TypeOK, Provider
    <3>2. QED
      BY <1>3, <1>5, <1>6, <3>1
  <2>3. QED
    BY <1>2, <2>1, <2>2
<1>8. QED
  BY <1>1, <1>7 DEF SelectInv

LEMMA SelectFinish ==
  ASSUME OrderInv, SelectInv, Finish
  PROVE  SelectInv'
<1> SUFFICES ASSUME RenderIsCurrent PROVE SelectInv'
  BY DEF Finish, SelectInv, RenderIsCurrent
<1> USE DEF OrderInv
<1> DEFINE u == Append(acc.topo, cur)
<1>1. /\ cur # None /\ cur \in Target /\ UNCHANGED graph /\ cur' = None
      /\ info'[cur].topo = u /\ \A t \in Target : t # cur => info'[t] = info[t]
  BY Finished
<1>2. acc.topo \in Seq(Target)
  BY AccType
<1>3. /\ u \in Seq(Target) /\ DOMAIN u = 1..Len(acc.topo)+1 /\ u[Len(acc.topo)+1] = cur
      /\ Len(u) = Len(acc.topo) + 1
      /\ DOMAIN acc.topo = 1..Len(acc.topo)
      /\ \A k \in DOMAIN acc.topo : u[k] = acc.topo[k]
  BY <1>1, <1>2
<1>4. \A k \in DOMAIN u : k \in DOMAIN acc.topo \/ k = Len(acc.topo)+1
  BY <1>3, <1>2
<1> HIDE DEF u
<1>5. \A k \in DOMAIN acc.topo : acc.topo[k] = SelectedBy(native, rendered, acc.topo[k].name)
  BY <1>1 DEF SelectInv
<1>6. \A k \in Prefix(u) : u[k] = SelectedBy(native, rendered, u[k].name)
  <2>1. \A k \in Prefix(u) : k \in DOMAIN acc.topo
    BY <1>2, <1>3, <1>4 DEF Prefix
  <2>2. QED
    BY <1>3, <1>5, <2>1
<1>7. cur = SelectedBy(native, rendered, cur.name) => UniqueNames(u)
  <2> SUFFICES ASSUME cur = SelectedBy(native, rendered, cur.name),
                      NEW k \in DOMAIN u, NEW l \in DOMAIN u, u[k].name = u[l].name
               PROVE  k = l
    BY DEF UniqueNames
  <2>1. \A m \in DOMAIN acc.topo : acc.topo[m].name # cur.name
    BY <1>1, <1>5 DEF AccTopo, CurOK, Analysed
  <2>2. CASE k \in DOMAIN acc.topo /\ l \in DOMAIN acc.topo
    BY <1>1, <1>3, <2>2 DEF AccTopo, UniqueNames
  <2>3. QED
    BY <1>3, <1>4, <2>1, <2>2
<1>8. ASSUME NEW t \in Target, info'[t] # None
      PROVE  SelectedTopo(native, rendered, info'[t].topo, t)
  <2>1. CASE t = cur
    BY <1>1, <1>6, <1>7, <2>1 DEF SelectedTopo
  <2>2. CASE t # cur
    BY <1>1, <1>8, <2>2 DEF SelectInv
  <2>3. QED
    BY <2>1, <2>2
<1>9. QED
  BY <1>1, <1>8 DEF SelectInv

LEMMA SelectStep == OrderInv /\ SelectInv /\ [Next]_vars => SelectInv'
<1> SUFFICES ASSUME OrderInv, SelectInv, [Next]_vars PROVE SelectInv'
  OBVIOUS
<1>1. ASSUME NEW t \in Target, Begin(t) PROVE SelectInv'
  BY <1>1 DEF Begin, Empty, SelectInv, RenderIsCurrent
<1>2. CASE MergeDep
  <2>1. UNCHANGED <<graph, info, cur>> /\ acc'.topo = acc.topo
    BY <1>2 DEF MergeDep, OrderInv, TypeOK, Provider
  <2>2. QED
    BY <2>1 DEF SelectInv, RenderIsCurrent
<1>3. CASE Relabel
  BY <1>3, Relabelled DEF SelectInv
<1>4. CASE UNCHANGED vars
  BY <1>4 DEF vars, SelectInv, RenderIsCurrent
<1>5. QED
  BY <1>1, <1>2, <1>3, <1>4, SelectMergeEntry, SelectFinish DEF Next, Analyse, Relabel

LEMMA SelectInvariant == Spec => [](OrderInv /\ SelectInv)
<1>1. Init => SelectInv
  BY DEF Init, SelectInv
<1>2. QED
  BY <1>1, OrderInit, OrderStep, SelectStep, PTL DEF Spec

\* While the render is current, no closure of a selected target holds a package
\* twice or by the target the configuration did not select (br2_dep's promise).
THEOREM ClosuresHaveNoDoubles == Spec => []NoDoublePackage
<1>1. OrderInv /\ SelectInv => NoDoublePackage
  <2> SUFFICES ASSUME OrderInv, SelectInv, NEW t \in Target,
                      RenderIsCurrent, Analysed(t), t = DepLabel(t.name)
               PROVE  UniqueNames(info[t].topo) /\ Selected(info[t].topo)
    BY DEF NoDoublePackage
  <2>1. /\ TopoOK(info, deps, native, rendered, t) /\ info[t].topo \in Seq(Target)
        /\ SelectedTopo(native, rendered, info[t].topo, t)
    BY InfoType DEF OrderInv, InfoOK, SelectInv, Analysed
  <2>2. \A k \in DOMAIN info[t].topo : k \in Prefix(info[t].topo) \/ k = Len(info[t].topo)
    BY <2>1 DEF Prefix
  <2>3. QED
    BY <2>1, <2>2, SameLabels DEF TopoOK, SelectedTopo, Selected
<1>2. QED
  BY <1>1, SelectInvariant, PTL
------------------------------------------------------------------------------
(***************************************************************************)
(* Directories.  While a rule runs, a directory of the accumulator's topo  *)
(* is already in its dirs or comes from the dependency being read.         *)
(***************************************************************************)
DirsInv == ViewMatchesClosure /\ AccDirs

LEMMA NameDirs ==
  ASSUME NEW s, NEW u, Names(s) \subseteq Names(u)
  PROVE  DirsOf(s) \subseteq DirsOf(u)
BY DEF Names, DirsOf

LEMMA DirsStep == OrderInv /\ DirsInv /\ [Next]_vars => DirsInv'
<1> SUFFICES ASSUME OrderInv, DirsInv, [Next]_vars PROVE DirsInv'
  OBVIOUS
<1> USE DEF OrderInv
<1>1. ASSUME NEW t \in Target, Begin(t) PROVE DirsInv'
  <2>1. UNCHANGED <<info, deps>> /\ acc' = Empty
    BY <1>1 DEF Begin
  <2>2. ViewMatchesClosure'
    BY <2>1 DEF DirsInv, ViewMatchesClosure, Analysed, DirsOf
  <2>3. AccDirs'
    BY <2>1 DEF AccDirs, DirsOf, Empty
  <2>4. QED
    BY <2>2, <2>3 DEF DirsInv
<1>2. CASE MergeEntry
  <2> DEFINE e == CurTopo[entry]
             d == info[DepTarget(cur, dep)]
  <2>1. /\ cur # None /\ cur \in Target /\ dep \in DOMAIN deps[cur] /\ entry \in DOMAIN CurTopo
        /\ UNCHANGED <<graph, info, cur, dep>>
    BY <1>2 DEF MergeEntry, CurTopo, TypeOK
  <2>2. acc' = acc \/ acc' = [acc EXCEPT !.topo = Append(acc.topo, e)]
    BY <1>2 DEF MergeEntry, CurTopo
  <2>3. /\ DepTarget(cur, dep) \in Target /\ Analysed(DepTarget(cur, dep))
        /\ CurTopo \in Seq(Target) /\ e \in Target
    BY <2>1, MergedType DEF CurOK
  <2>4. DirOf[e.name] \in d.dirs
    BY <2>1, <2>3 DEF DirsInv, ViewMatchesClosure, DirsOf, CurTopo
  <2>5. acc.topo \in Seq(Target)
    BY AccType
  <2>6. acc'.dirs = acc.dirs /\ (DirsOf(acc'.topo) = DirsOf(acc.topo)
                                \/ DirsOf(acc'.topo) = DirsOf(acc.topo) \cup {DirOf[e.name]})
    <3>1. CASE acc' = acc
      BY <3>1
    <3>2. CASE acc' = [acc EXCEPT !.topo = Append(acc.topo, e)]
      <4>1. acc'.topo = Append(acc.topo, e) /\ acc'.dirs = acc.dirs
        BY <3>2 DEF TypeOK, Provider
      <4>2. QED
        BY <4>1, <2>3, <2>5, AppendMembers
    <3>3. QED
      BY <2>2, <3>1, <3>2
  <2>7. DepTarget(cur, dep)' = DepTarget(cur, dep)
    BY <2>1 DEF DepTarget, DepOf, Br2Dep, DepLabel
  <2>8. AccDirs'
    BY <2>1, <2>4, <2>6, <2>7 DEF DirsInv, AccDirs
  <2>9. ViewMatchesClosure'
    BY <2>1 DEF DirsInv, ViewMatchesClosure, Analysed, DirsOf
  <2>10. QED
    BY <2>8, <2>9 DEF DirsInv
<1>3. CASE MergeDep
  <2> DEFINE d == info[DepTarget(cur, dep)]
  <2>1. /\ cur # None /\ cur \in Target /\ dep \in DOMAIN deps[cur] /\ entry \notin DOMAIN CurTopo
        /\ UNCHANGED <<graph, info, cur>>
    BY <1>3 DEF MergeDep, CurTopo, TypeOK
  <2>2. acc'.topo = acc.topo /\ acc'.dirs = acc.dirs \cup d.dirs
    BY <1>3 DEF MergeDep, TypeOK, Provider
  <2>3. /\ DepTarget(cur, dep) \in Target /\ Analysed(DepTarget(cur, dep))
        /\ CurTopo \in Seq(Target)
    BY <2>1, MergedType DEF CurOK
  <2>4. \A k \in DOMAIN CurTopo : k < entry
    BY <2>1, <2>3 DEF TypeOK, CurOK
  <2>5. Names(CurTopo) \subseteq Names(acc.topo)
    BY <2>1, <2>4 DEF AccRead, Names
  <2>6. DirsOf(CurTopo) \subseteq DirsOf(acc.topo)
    BY <2>5, NameDirs
  <2>7. d.dirs = DirsOf(CurTopo)
    BY <2>3 DEF DirsInv, ViewMatchesClosure, CurTopo
  <2>8. AccDirs'
    BY <2>1, <2>2, <2>6, <2>7 DEF DirsInv, AccDirs, DirsOf
  <2>9. ViewMatchesClosure'
    BY <2>1 DEF DirsInv, ViewMatchesClosure, Analysed, DirsOf
  <2>10. QED
    BY <2>8, <2>9 DEF DirsInv
<1>4. CASE Finish
  <2> DEFINE p == [topo  |-> Append(acc.topo, cur),
                   dirs  |-> acc.dirs \cup Own(cur).dirs,
                   links |-> acc.links \cup Own(cur).links]
  <2>1. cur \in Target /\ dep \notin DOMAIN deps[cur] /\ cur # None /\ cur' = None
    BY <1>4 DEF Finish, TypeOK
  <2>2. info' = [info EXCEPT ![cur] = p]
    BY <1>4 DEF Finish
  <2>3. acc.dirs = DirsOf(acc.topo)
    BY <2>1 DEF DirsInv, AccDirs
  <2>4. DirsOf(p.topo) = DirsOf(acc.topo) \cup {DirOf[cur.name]}
    BY <2>1, AccType, AppendMembers
  <2>5. p.dirs = DirsOf(p.topo)
    BY <2>3, <2>4 DEF Own
  <2> HIDE DEF p
  <2>6. info'[cur] = p /\ \A t \in Target : t # cur => info'[t] = info[t]
    BY <2>1, <2>2 DEF TypeOK
  <2>7. \A t \in Target : info'[t] # None => info'[t].dirs = DirsOf(info'[t].topo)
    BY <2>5, <2>6 DEF DirsInv, ViewMatchesClosure, Analysed
  <2>8. ViewMatchesClosure'
    BY <2>7 DEF ViewMatchesClosure, Analysed, DirsOf
  <2>9. QED
    BY <2>1, <2>8 DEF DirsInv, AccDirs
<1>5. CASE Relabel
  BY <1>5, Relabelled DEF DirsInv, ViewMatchesClosure, AccDirs, Analysed
<1>6. CASE UNCHANGED vars
  <2>1. DepTarget(cur, dep)' = DepTarget(cur, dep)
    BY <1>6 DEF vars, DepTarget, DepOf, Br2Dep, DepLabel
  <2>2. ViewMatchesClosure'
    BY <1>6 DEF vars, DirsInv, ViewMatchesClosure, Analysed, DirsOf
  <2>3. AccDirs'
    BY <1>6, <2>1 DEF vars, DirsInv, AccDirs, DirsOf
  <2>4. QED
    BY <2>2, <2>3 DEF DirsInv
<1>7. QED
  BY <1>1, <1>2, <1>3, <1>4, <1>5, <1>6 DEF Next, Analyse, Relabel

\* What make may see is exactly the directories of the closure, for every
\* graph and any mix of wrapped and native packages (_merge_dirs, bdir).
THEOREM ViewsMatchClosures == Spec => []ViewMatchesClosure
<1>1. Init => DirsInv
  BY DEF Init, DirsInv, ViewMatchesClosure, AccDirs, Analysed
<1>2. DirsInv => ViewMatchesClosure
  BY DEF DirsInv
<1>3. QED
  BY <1>1, <1>2, DirsStep, OrderInvariant, PTL DEF Spec
------------------------------------------------------------------------------
(***************************************************************************)
(* Minimality.                                                             *)
(***************************************************************************)
ClosedBy(dps, nat, ren, S) == \A t \in S : \A k \in DOMAIN dps[t] : DepBy(dps, nat, ren, t, k) \in S

LEMMA SameClosed == \A S : ClosedUnderDeps(S) <=> ClosedBy(deps, native, rendered, S)
BY SameLabels DEF ClosedUnderDeps, ClosedBy

InfoMinimal(inf, dps, nat, ren) ==
  \A t \in Target : inf[t] # None =>
    \A S \in SUBSET Target :
      t \in S /\ ClosedBy(dps, nat, ren, S) => Members(inf[t].topo) \subseteq S

AccMinimalBy(dps, nat, ren, c, a) ==
  c # None =>
    \A S \in SUBSET Target :
      ClosedBy(dps, nat, ren, S) /\ (\A k \in DOMAIN dps[c] : DepBy(dps, nat, ren, c, k) \in S)
        => Members(a.topo) \subseteq S

MinInv == InfoMinimal(info, deps, native, rendered) /\ AccMinimalBy(deps, native, rendered, cur, acc)

LEMMA MinStep == OrderInv /\ MinInv /\ [Next]_vars => MinInv'
<1> SUFFICES ASSUME OrderInv, MinInv, [Next]_vars PROVE MinInv'
  OBVIOUS
<1> USE DEF OrderInv
<1>1. ASSUME NEW t \in Target, Begin(t) PROVE MinInv'
  <2>1. UNCHANGED <<graph, info>> /\ Members(acc'.topo) = {}
    BY <1>1 DEF Begin, Empty, Members
  <2>2. QED
    BY <2>1 DEF MinInv, AccMinimalBy
<1>2. CASE MergeEntry
  <2> DEFINE d == DepTarget(cur, dep)
             e == CurTopo[entry]
  <2>1. /\ cur # None /\ cur \in Target /\ dep \in DOMAIN deps[cur] /\ entry \in DOMAIN CurTopo
        /\ UNCHANGED <<graph, info, cur, dep>>
    BY <1>2 DEF MergeEntry, CurTopo, TypeOK
  <2>2. acc' = acc \/ acc' = [acc EXCEPT !.topo = Append(acc.topo, e)]
    BY <1>2 DEF MergeEntry, CurTopo
  <2>3. d \in Target /\ info[d] # None /\ CurTopo \in Seq(Target) /\ e \in Target /\ e \in Members(CurTopo)
    BY <2>1, MergedType DEF CurOK, Members, Analysed
  <2>4. Members(acc'.topo) \subseteq Members(acc.topo) \cup {e}
    <3>1. CASE acc' = acc
      BY <3>1
    <3>2. CASE acc' = [acc EXCEPT !.topo = Append(acc.topo, e)]
      <4>1. acc'.topo = Append(acc.topo, e)
        BY <3>2 DEF TypeOK, Provider
      <4>2. QED
        BY <4>1, <2>3, AccType, AppendMembers
    <3>3. QED
      BY <2>2, <3>1, <3>2
  <2>5. d = DepBy(deps, native, rendered, cur, dep)
    BY SameLabels
  <2>6. AccMinimalBy(deps, native, rendered, cur, acc')
    <3> SUFFICES ASSUME NEW S \in SUBSET Target, ClosedBy(deps, native, rendered, S),
                        \A k \in DOMAIN deps[cur] : DepBy(deps, native, rendered, cur, k) \in S
                 PROVE  Members(acc'.topo) \subseteq S
      BY DEF AccMinimalBy
    <3>1. d \in S
      BY <2>1, <2>5
    <3>2. Members(CurTopo) \subseteq S
      BY <2>3, <3>1 DEF MinInv, InfoMinimal, CurTopo
    <3>3. Members(acc.topo) \subseteq S
      BY <2>1 DEF MinInv, AccMinimalBy
    <3>4. QED
      BY <2>3, <2>4, <3>2, <3>3
  <2>7. QED
    BY <2>1, <2>6 DEF MinInv
<1>3. CASE MergeDep
  <2>1. UNCHANGED <<graph, info, cur>> /\ acc'.topo = acc.topo
    BY <1>3 DEF MergeDep, TypeOK, Provider
  <2>2. QED
    BY <2>1 DEF MinInv, AccMinimalBy
<1>4. CASE Finish
  <2> DEFINE p == [topo  |-> Append(acc.topo, cur),
                   dirs  |-> acc.dirs \cup Own(cur).dirs,
                   links |-> acc.links \cup Own(cur).links]
  <2>1. cur \in Target /\ cur # None /\ cur' = None /\ UNCHANGED graph
    BY <1>4 DEF Finish, TypeOK
  <2>2. info' = [info EXCEPT ![cur] = p]
    BY <1>4 DEF Finish
  <2>3. Members(p.topo) = Members(acc.topo) \cup {cur}
    BY <2>1, AccType, AppendMembers
  <2> HIDE DEF p
  <2>4. info'[cur] = p /\ \A t \in Target : t # cur => info'[t] = info[t]
    BY <2>1, <2>2 DEF TypeOK
  <2>5. ASSUME NEW S \in SUBSET Target, cur \in S, ClosedBy(deps, native, rendered, S)
        PROVE  Members(p.topo) \subseteq S
    <3>1. \A k \in DOMAIN deps[cur] : DepBy(deps, native, rendered, cur, k) \in S
      BY <2>5 DEF ClosedBy
    <3>2. Members(acc.topo) \subseteq S
      BY <2>1, <2>5, <3>1 DEF MinInv, AccMinimalBy
    <3>3. QED
      BY <2>3, <2>5, <3>2
  <2>6. InfoMinimal(info', deps, native, rendered)
    BY <2>4, <2>5 DEF MinInv, InfoMinimal
  <2>7. QED
    BY <2>1, <2>6 DEF MinInv, AccMinimalBy
<1>5. CASE Relabel
  BY <1>5, Relabelled DEF MinInv, InfoMinimal, AccMinimalBy
<1>6. CASE UNCHANGED vars
  BY <1>6 DEF vars, MinInv
<1>7. QED
  BY <1>1, <1>2, <1>3, <1>4, <1>5, <1>6 DEF Next, Analyse, Relabel

\* A closure holds nothing but transitive dependencies, for every graph: an
\* edit outside them cannot enter a package's inputs ("Narrow inputs").
THEOREM ClosuresMinimal == Spec => []ClosureMinimal
<1>1. Init => MinInv
  BY DEF Init, MinInv, InfoMinimal, AccMinimalBy
<1>2. MinInv => ClosureMinimal
  BY SameClosed DEF MinInv, InfoMinimal, ClosureMinimal, Analysed
<1>3. QED
  BY <1>1, <1>2, MinStep, OrderInvariant, PTL DEF Spec
------------------------------------------------------------------------------
(***************************************************************************)
(* Links.  Every wrapped member of a closure has brought its directory's   *)
(* links, whichever of several closures it came with first.                *)
(***************************************************************************)
Brought(s, links) == \A x \in Members(s) : x.kind = "wrapped" => LinksOf[DirOf[x.name]] \subseteq links

InfoLinks(inf) == \A t \in Target : inf[t] # None => Brought(inf[t].topo, inf[t].links)

DepLinks == IF dep \in DOMAIN deps[cur] THEN info[DepTarget(cur, dep)].links ELSE {}

LinksInv == InfoLinks(info) /\ (cur # None => Brought(acc.topo, acc.links \cup DepLinks))

LEMMA BroughtMore ==
  ASSUME NEW s, NEW u, NEW A, NEW B, Brought(s, A), A \subseteq B,
         \A x \in Members(u) : x \in Members(s) \/ (x.kind = "wrapped" => LinksOf[DirOf[x.name]] \subseteq B)
  PROVE  Brought(u, B)
BY DEF Brought

LEMMA LinksStep == OrderInv /\ LinksInv /\ [Next]_vars => LinksInv'
<1> SUFFICES ASSUME OrderInv, LinksInv, [Next]_vars PROVE LinksInv'
  OBVIOUS
<1> USE DEF OrderInv
<1>1. ASSUME NEW t \in Target, Begin(t) PROVE LinksInv'
  <2>1. UNCHANGED info /\ Members(acc'.topo) = {}
    BY <1>1 DEF Begin, Empty, Members
  <2>2. QED
    BY <2>1 DEF LinksInv, Brought
<1>2. CASE MergeEntry
  <2> DEFINE d == DepTarget(cur, dep)
             e == CurTopo[entry]
  <2>1. /\ cur # None /\ cur \in Target /\ dep \in DOMAIN deps[cur] /\ entry \in DOMAIN CurTopo
        /\ UNCHANGED <<graph, info, cur, dep>>
    BY <1>2 DEF MergeEntry, CurTopo, TypeOK
  <2>2. acc' = acc \/ acc' = [acc EXCEPT !.topo = Append(acc.topo, e)]
    BY <1>2 DEF MergeEntry, CurTopo
  <2>3. d \in Target /\ info[d] # None /\ e \in Target /\ e \in Members(CurTopo)
    BY <2>1, MergedType DEF CurOK, Members, Analysed
  <2>4. Brought(CurTopo, info[d].links)
    BY <2>3 DEF LinksInv, InfoLinks, CurTopo
  <2>5. e.kind = "wrapped" => LinksOf[DirOf[e.name]] \subseteq info[d].links
    BY <2>3, <2>4 DEF Brought
  <2>6. DepLinks = info[d].links /\ DepLinks' = DepLinks
    BY <2>1 DEF DepLinks, DepTarget, DepOf, Br2Dep, DepLabel
  <2>7. acc'.links = acc.links /\ Members(acc'.topo) \subseteq Members(acc.topo) \cup {e}
    <3>1. CASE acc' = acc
      BY <3>1
    <3>2. CASE acc' = [acc EXCEPT !.topo = Append(acc.topo, e)]
      <4>1. acc'.topo = Append(acc.topo, e) /\ acc'.links = acc.links
        BY <3>2 DEF TypeOK, Provider
      <4>2. QED
        BY <4>1, <2>3, AccType, AppendMembers
    <3>3. QED
      BY <2>2, <3>1, <3>2
  <2>8. \A x \in Members(acc'.topo) : x \in Members(acc.topo)
          \/ (x.kind = "wrapped" => LinksOf[DirOf[x.name]] \subseteq acc.links \cup DepLinks)
    BY <2>5, <2>6, <2>7
  <2>9. Brought(acc.topo, acc.links \cup DepLinks)
    BY <2>1 DEF LinksInv
  <2>10. Brought(acc'.topo, acc.links \cup DepLinks)
    BY <2>8, <2>9, BroughtMore
  <2>11. QED
    BY <2>1, <2>6, <2>7, <2>10 DEF LinksInv
<1>3. CASE MergeDep
  <2> DEFINE d == DepTarget(cur, dep)
  <2>1. /\ cur # None /\ dep \in DOMAIN deps[cur] /\ UNCHANGED <<info, cur>>
        /\ acc'.topo = acc.topo /\ acc'.links = acc.links \cup info[d].links
    BY <1>3 DEF MergeDep, TypeOK, Provider
  <2>2. Brought(acc.topo, acc.links \cup DepLinks) /\ DepLinks = info[d].links
    BY <2>1 DEF LinksInv, DepLinks
  <2>3. Brought(acc'.topo, acc'.links \cup DepLinks')
    BY <2>1, <2>2 DEF Brought
  <2>4. QED
    BY <2>1, <2>3 DEF LinksInv
<1>4. CASE Finish
  <2> DEFINE p == [topo  |-> Append(acc.topo, cur),
                   dirs  |-> acc.dirs \cup Own(cur).dirs,
                   links |-> acc.links \cup Own(cur).links]
  <2>1. cur \in Target /\ cur # None /\ cur' = None /\ dep \notin DOMAIN deps[cur]
    BY <1>4 DEF Finish, TypeOK
  <2>2. info' = [info EXCEPT ![cur] = p]
    BY <1>4 DEF Finish
  <2>3. Members(p.topo) = Members(acc.topo) \cup {cur}
    BY <2>1, AccType, AppendMembers
  <2>4. Brought(acc.topo, acc.links)
    BY <2>1 DEF LinksInv, DepLinks, Brought
  <2>5. Brought(p.topo, p.links)
    BY <2>3, <2>4 DEF Brought, Own
  <2> HIDE DEF p
  <2>6. info'[cur] = p /\ \A t \in Target : t # cur => info'[t] = info[t]
    BY <2>1, <2>2 DEF TypeOK
  <2>7. InfoLinks(info')
    BY <2>5, <2>6 DEF LinksInv, InfoLinks
  <2>8. QED
    BY <2>1, <2>7 DEF LinksInv
<1>5. CASE Relabel
  BY <1>5, Relabelled DEF LinksInv, InfoLinks
<1>6. CASE UNCHANGED vars
  <2>1. DepLinks' = DepLinks
    BY <1>6 DEF vars, DepLinks, DepTarget, DepOf, Br2Dep, DepLabel
  <2>2. QED
    BY <1>6, <2>1 DEF vars, LinksInv
<1>7. QED
  BY <1>1, <1>2, <1>3, <1>4, <1>5, <1>6 DEF Next, Analyse, Relabel

\* A view that shows a directory of a wrapped closure shows what its links
\* lead to, for every graph and every native list (_merge_links).
THEOREM ViewsHaveNoDanglingLinks == Spec => []WrappedLinksShown
<1>1. Init => LinksInv
  BY DEF Init, LinksInv, InfoLinks
<1>2. Init => DirsInv
  BY DEF Init, DirsInv, ViewMatchesClosure, AccDirs, Analysed
<1>3. DirsInv /\ LinksInv => WrappedLinksShown
  BY DEF DirsInv, ViewMatchesClosure, LinksInv, InfoLinks, Brought, WrappedLinksShown, LinksShown,
         DirsOf, Members, Analysed
<1>4. QED
  BY <1>1, <1>2, <1>3, LinksStep, DirsStep, OrderInvariant, PTL DEF Spec

------------------------------------------------------------------------------
(***************************************************************************)
(* Trees and deltas (DeltaTree): the inductive invariant.                  *)
(***************************************************************************)

\* What an entry of a work directory holds.
Seen(e) ==
  IF e = Absent THEN Absent
  ELSE IF e.kind = "file" THEN [kind |-> "file", data |-> disk[e.ino]] ELSE e

\* Nothing on which packages of S disagree, and nothing they lost.
CleanIn(S, f) == \A y \in S : ~Disputed(y, f) /\ ~Lost(y, f)

\* What make's merge gives a package: only what a delta below it brought, and where
\* nothing below it is lost or disputed, what some direct dependency has.
GivenFrom(x, g) ==
  \A f \in Path :
    /\ g[f] # Absent => \E y \in ToSet(Below[x]) : built[y].delta[f] = g[f]
    /\ CleanIn(ToSet(Below[x]), f) =>
         IF g[f] = Absent THEN \A d \in ToSet(Deps[x]) : built[d].tree[f] = Absent
                          ELSE \E d \in ToSet(Deps[x]) : built[d].tree[f] = g[f]

\* Of each artifact.
DeltaOf(x) == \A f \in Path : built[x].delta[f] # Absent => built[x].delta[f] = built[x].tree[f]

Past ==
  \A x \in Pkg : built[x] # Nothing =>
    /\ \A y \in ToSet(Below[x]) : built[y] # Nothing
    /\ DeltaOf(x)
    /\ GivenFrom(x, built[x].given)

\* Of the work directory's owner.
Turn ==
  /\ actor = Nothing <=> phase = "idle"
  /\ actor \in Pkg /\ phase # "made" => built[actor] = Nothing
  /\ actor # Nothing => \A q \in ClosureOf(actor) : built[q] # Nothing
  /\ phase \in {"indexed", "making", "made"} => actor \in Pkg
  /\ phase = "hosted" => actor = Rootfs
  /\ phase \in {"unpacked", "overlaid", "indexed"} => did = <<>>

\* The files are the deltas' until make runs.
Seeded ==
  phase \in {"unpacked", "overlaid", "indexed", "hosted"} =>
    \A q \in ClosureOf(actor), f \in Path :
      built[q].delta[f] # Absent => disk[<<q, f>>] = built[q].delta[f].data

\* t is x's complete tree again.
Restored(x, t) ==
  \A f \in Path :
    /\ t[f] # Absent => \E y \in Closed(x) : t[f] = Unpacked(y)[f]
    /\ CleanIn(Closed(x), f) => Seen(t[f]) = built[x].tree[f]

Staging ==
  phase = "unpacked" =>
    /\ \A q \in ClosureOf(actor) : per[q] = Unpacked(q)
    /\ \A x \in DirectOf(actor) : stage[x] # Absent => Restored(x, stage[x])

Overlaid ==
  phase \in {"overlaid", "indexed"} => \A x \in DirectOf(actor) : Restored(x, per[x])

\* An inode of the index is a dependency's file for the same path; a link of it is
\* in a dependency's tree, where nothing is lost or disputed.
IndexKnows ==
  phase \in {"indexed", "making"} =>
    \A f \in Path :
      /\ \A i \in index[f].files : \E y \in ToSet(Below[actor]) : i = <<y, f>>
      /\ CleanIn(ToSet(Below[actor]), f) =>
           \A l \in index[f].links : \E d \in ToSet(Deps[actor]) : built[d].tree[f] = [kind |-> "link", data |-> l]

InIndex(f, e) == IF e.kind = "file" THEN e.ino \in index[f].files ELSE e.data \in index[f].links

IndexComplete ==
  phase = "indexed" =>
    \A d \in ToSet(Deps[actor]), f \in Path : per[d][f] # Absent => InIndex(f, per[d][f])

Touched(f) == \E c \in ToSet(did) : c.path = f
OnlyWrites(f) == \A c \in ToSet(did) : c.path = f => c.op = "write"

\* The running package's tree at f: inherited or its own, what the merge gave unless a
\* command touched it, and its own where commands only create.
MakingAt(f) ==
  LET e == per[actor][f] IN
  /\ e # Absent /\ e.kind = "file" =>
       /\ e.ino = <<actor, f>> \/ e.ino \in index[f].files
       /\ disk[e.ino] \in Data
  /\ ~Touched(f) => Seen(e) = given[f]
  /\ Touched(f) /\ OnlyWrites(f) => e # Absent /\ (e.kind = "file" => e.ino = <<actor, f>>)
  /\ given[f] # Absent /\ given[f].kind = "link" => given[f].data \in index[f].links

Making ==
  phase = "making" => GivenFrom(actor, given) /\ \A f \in Path : MakingAt(f)

Known ==
  /\ TreesTypeOK
  /\ Past
  /\ LostOnlyIfDisputed
  /\ Turn
  /\ Seeded
  /\ Staging
  /\ Overlaid
  /\ IndexKnows
  /\ IndexComplete
  /\ Making
  /\ HostToolsKept
  /\ OnlyOwnWork

------------------------------------------------------------------------------
LEMMA LowestNat ==
  ASSUME NEW N, N \subseteq Nat, N # {}
  PROVE  \E n \in N : \A m \in N : n <= m
<1>1. IsWellFoundedOn(OpToRel(<, Nat), Nat)
  BY NatLessThanWellFounded
<1>2. PICK n \in N : \A m \in N : <<m, n>> \notin OpToRel(<, Nat)
  BY <1>1, WFMin
<1>3. \A m \in N : ~(m < n)
  BY <1>2 DEF OpToRel
<1> QED
  BY <1>3

------------------------------------------------------------------------------
(* Overlays.                                                               *)

LEMMA HoldsIs == ASSUME NEW t, NEW f \in Path PROVE Holds(t)[f] = Seen(t[f])
BY DEF Holds, Seen

LEMMA RsyncIs ==
  ASSUME NEW src, NEW dst
  PROVE  /\ Rsync(src, dst) = [f \in Path |-> Rsync(src, dst)[f]]
         /\ \A f \in Path :
              Rsync(src, dst)[f] = IF src[f] = Absent \/ Seen(src[f]) = Seen(dst[f]) THEN dst[f] ELSE src[f]
<1>1. \A f \in Path : Holds(src)[f] = Seen(src[f]) /\ Holds(dst)[f] = Seen(dst[f])
  BY HoldsIs
<1> DEFINE same == {f \in Path : Holds(src)[f] = Holds(dst)[f]}
<1>2. Rsync(src, dst) = [f \in Path |-> IF src[f] = Absent \/ f \in same THEN dst[f] ELSE src[f]]
  BY DEF Rsync
<1>3. \A f \in Path : f \in same <=> Seen(src[f]) = Seen(dst[f])
  BY <1>1
<1> HIDE DEF same
<1> QED
  BY <1>2, <1>3

\* The recursion of OverlayOf, up to n.
Layers(t, order, n, g) ==
  g = [i \in 0..n |-> IF i = 0 THEN Bare ELSE Rsync(t[order[i]], g[i - 1])]

LEMMA LayersExist ==
  ASSUME NEW t, NEW order, NEW n \in Nat
  PROVE  \E g : Layers(t, order, n, g)
<1> DEFINE N == {m \in Nat : ~ \E g : Layers(t, order, m, g)}
<1> SUFFICES ASSUME N # {} PROVE FALSE
  OBVIOUS
<1>1. PICK m \in N : \A k \in N : m <= k
  BY LowestNat
<1>2. CASE m = 0
  <2> DEFINE g == [i \in 0..0 |-> Bare]
  <2>1. g = [i \in 0..0 |-> IF i = 0 THEN Bare ELSE Rsync(t[order[i]], g[i - 1])]
    OBVIOUS
  <2>2. Layers(t, order, 0, g)
    BY <2>1 DEF Layers
  <2> QED
    BY <1>2, <2>2
<1>3. CASE m # 0
  <2>1. m \in Nat /\ m - 1 \in Nat /\ m - 1 \notin N
    BY <1>1, <1>3
  <2>2. PICK h : Layers(t, order, m - 1, h)
    BY <2>1
  <2>3. h = [i \in 0..(m - 1) |-> IF i = 0 THEN Bare ELSE Rsync(t[order[i]], h[i - 1])]
    BY <2>2 DEF Layers
  <2> DEFINE g == [i \in 0..m |-> IF i = 0 THEN Bare ELSE Rsync(t[order[i]], h[i - 1])]
  <2>4. \A i \in 0..(m - 1) : g[i] = h[i]
    BY <2>1, <2>3
  <2>5. \A i \in 0..m : i # 0 => g[i - 1] = h[i - 1]
    BY <2>1, <2>4
  <2>6. g = [i \in 0..m |-> IF i = 0 THEN Bare ELSE Rsync(t[order[i]], g[i - 1])]
    BY <2>5
  <2>7. Layers(t, order, m, g)
    BY <2>6 DEF Layers
  <2> QED
    BY <1>1, <2>7
<1> QED
  BY <1>2, <1>3

LEMMA OverlayIs ==
  ASSUME NEW t, NEW order, Len(order) \in Nat
  PROVE  \E g : Layers(t, order, Len(order), g) /\ OverlayOf(t, order) = g[Len(order)]
<1> DEFINE u == CHOOSE g : Layers(t, order, Len(order), g)
<1>1. Layers(t, order, Len(order), u)
  BY LayersExist
<1>2. OverlayOf(t, order) = u[Len(order)]
  BY DEF OverlayOf, Layers
<1> QED
  BY <1>1, <1>2

\* What an overlay has at f, after n layers.
Laid(t, order, f, n, o) ==
  /\ o[f] = Absent \/ \E i \in 1..n : o[f] = t[order[i]][f]
  /\ (\E i \in 1..n : t[order[i]][f] # Absent) => o[f] # Absent
  /\ \A i \in 1..n :
       t[order[i]][f] # Absent /\ (\A j \in (i + 1)..n : t[order[j]][f] = Absent)
         => Seen(o[f]) = Seen(t[order[i]][f])

LEMMA OverlayLaid ==
  ASSUME NEW t, NEW order, Len(order) \in Nat, NEW f \in Path,
         \A i \in 1..Len(order) : t[order[i]][f] # Absent => Seen(t[order[i]][f]) # Absent
  PROVE  Laid(t, order, f, Len(order), OverlayOf(t, order))
<1>1. PICK g : Layers(t, order, Len(order), g) /\ OverlayOf(t, order) = g[Len(order)]
  BY OverlayIs
<1> DEFINE N == {n \in 0..Len(order) : ~Laid(t, order, f, n, g[n])}
<1> SUFFICES ASSUME N # {} PROVE FALSE
  BY <1>1
<1>2. N \subseteq Nat
  OBVIOUS
<1>3. PICK n \in N : \A k \in N : n <= k
  BY <1>2, LowestNat
<1>4. n \in Nat /\ n <= Len(order)
  BY <1>3
<1>5. CASE n = 0
  <2>1. g[0] = Bare
    BY <1>1 DEF Layers
  <2>2. g[0][f] = Absent
    BY <2>1 DEF Bare
  <2>3. Laid(t, order, f, 0, g[0])
    BY <2>2 DEF Laid
  <2> QED
    BY <1>3, <1>5, <2>3
<1>6. CASE n # 0
  <2> DEFINE m == n - 1
             src == t[order[n]]
  <2>1. m \in Nat /\ n = m + 1 /\ m < n /\ m \in 0..Len(order) /\ n \in 1..Len(order)
    BY <1>4, <1>6
  <2>2. Laid(t, order, f, m, g[m])
    <3> SUFFICES ASSUME ~Laid(t, order, f, m, g[m]) PROVE FALSE
      OBVIOUS
    <3>1. m \in N
      BY <2>1
    <3> HIDE DEF N
    <3>2. n <= m
      BY <1>3, <3>1
    <3> HIDE DEF m
    <3> QED
      BY <1>4, <2>1, <3>2
  <2>3. g[n] = Rsync(src, g[m])
    BY <1>1, <2>1 DEF Layers
  <2>4. g[n][f] = IF src[f] = Absent \/ Seen(src[f]) = Seen(g[m][f]) THEN g[m][f] ELSE src[f]
    BY <2>3, RsyncIs
  <2> HIDE DEF m
  <2>5. CASE src[f] = Absent
    BY <2>1, <2>2, <2>4, <2>5 DEF Laid
  <2>6. CASE src[f] # Absent
    <3>1. Seen(src[f]) # Absent
      BY <2>1, <2>6
    <3>2. Seen(g[n][f]) = Seen(src[f]) /\ g[n][f] # Absent
      BY <2>4, <2>6, <3>1 DEF Seen
    <3>3. \E i \in 1..n : g[n][f] = t[order[i]][f]
      <4>1. CASE g[n][f] = src[f]
        BY <2>1, <4>1
      <4>2. CASE g[n][f] = g[m][f]
        BY <2>1, <2>2, <3>2, <4>2 DEF Laid
      <4> QED
        BY <2>4, <4>1, <4>2
    <3>4. \A i \in 1..n : (\A j \in (i + 1)..n : t[order[j]][f] = Absent) => i = n
      BY <2>1, <2>6
    <3>5. Laid(t, order, f, n, g[n])
      BY <3>2, <3>3, <3>4 DEF Laid
    <3> QED
      BY <1>3, <3>5
  <2>7. Laid(t, order, f, n, g[n]) => FALSE
    BY <1>3
  <2> QED
    BY <2>1, <2>2, <2>4, <2>5, <2>6, <2>7 DEF Laid
<1> QED
  BY <1>5, <1>6

LEMMA OverlayType ==
  ASSUME NEW t, NEW order, Len(order) \in Nat, NEW S, Absent \in S,
         \A i \in 1..Len(order) : t[order[i]] \in [Path -> S]
  PROVE  OverlayOf(t, order) \in [Path -> S]
<1>1. PICK g : Layers(t, order, Len(order), g) /\ OverlayOf(t, order) = g[Len(order)]
  BY OverlayIs
<1> DEFINE N == {n \in 0..Len(order) : g[n] \notin [Path -> S]}
<1> SUFFICES ASSUME N # {} PROVE FALSE
  BY <1>1
<1>2. N \subseteq Nat
  OBVIOUS
<1>3. PICK n \in N : \A k \in N : n <= k
  BY <1>2, LowestNat
<1>4. n \in Nat /\ n <= Len(order)
  BY <1>3
<1>5. CASE n = 0
  <2>1. g[0] = Bare
    BY <1>1 DEF Layers
  <2> QED
    BY <1>3, <1>5, <2>1 DEF Bare
<1>6. CASE n # 0
  <2>1. n - 1 \in 0..Len(order) /\ n \in 1..Len(order) /\ g[n - 1] \in [Path -> S]
    BY <1>3, <1>4, <1>6
  <2>2. g[n] = Rsync(t[order[n]], g[n - 1])
    BY <1>1, <2>1 DEF Layers
  <2>3. Rsync(t[order[n]], g[n - 1]) \in [Path -> S]
    BY <2>1, RsyncIs
  <2> QED
    BY <1>3, <2>2, <2>3
<1> QED
  BY <1>5, <1>6

------------------------------------------------------------------------------
(* Closures.                                                               *)
LEMMA SetOfAppend ==
  ASSUME NEW S, NEW s \in Seq(S), NEW e
  PROVE  ToSet(Append(s, e)) = ToSet(s) \cup {e}
<1> DEFINE a == Append(s, e)
<1>1. /\ Len(s) \in Nat
      /\ DOMAIN s = 1..Len(s)
      /\ DOMAIN a = 1..(Len(s) + 1)
      /\ \A i \in 1..Len(s) : a[i] = s[i]
      /\ a[Len(s) + 1] = e
  BY s \in Seq(S \cup {e})
<1> HIDE DEF a
<1>2. \A v \in ToSet(a) : v \in ToSet(s) \/ v = e
  <2> TAKE v \in ToSet(a)
  <2>1. PICK i \in 1..(Len(s) + 1) : v = a[i]
    BY <1>1 DEF ToSet
  <2>2. CASE i \in 1..Len(s)
    BY <1>1, <2>1, <2>2 DEF ToSet
  <2>3. CASE i = Len(s) + 1
    BY <1>1, <2>1, <2>3
  <2> QED
    BY <1>1, <2>1, <2>2, <2>3
<1>3. \A v \in ToSet(s) : v \in ToSet(a)
  <2> TAKE v \in ToSet(s)
  <2>1. PICK i \in 1..Len(s) : v = s[i]
    BY <1>1 DEF ToSet
  <2>2. i \in DOMAIN a /\ a[i] = v
    BY <1>1, <2>1
  <2> QED
    BY <2>2 DEF ToSet
<1>4. e \in ToSet(a)
  <2>1. Len(s) + 1 \in DOMAIN a
    BY <1>1
  <2> QED
    BY <1>1, <2>1 DEF ToSet
<1>5. ToSet(a) = ToSet(s) \cup {e}
  BY <1>2, <1>3, <1>4
<1> QED
  BY <1>5 DEF a

LEMMA ToSetIs ==
  ASSUME NEW S, NEW s \in Seq(S)
  PROVE  /\ Len(s) \in Nat
         /\ DOMAIN s = 1..Len(s)
         /\ ToSet(s) \subseteq S
         /\ \A v \in ToSet(s) : \E i \in 1..Len(s) : s[i] = v
         /\ \A i \in 1..Len(s) : s[i] \in ToSet(s) /\ s[i] \in S
<1>1. Len(s) \in Nat /\ DOMAIN s = 1..Len(s) /\ \A i \in 1..Len(s) : s[i] \in S
  OBVIOUS
<1> QED
  BY <1>1 DEF ToSet

LEMMA ClosuresGiven ==
  /\ Deps \in [Pkg -> Seq(Pkg)]
  /\ Below \in [Pkg -> Seq(Pkg)]
  /\ ByName \in Seq(Pkg) /\ ToSet(ByName) = Pkg
  /\ \A p \in Pkg : ToSet(Below[p]) = UNION {ToSet(Below[d]) \cup {d} : d \in ToSet(Deps[p])}
  /\ \A p \in Pkg : \A i, j \in DOMAIN Below[p] : Below[p][i] = Below[p][j] => i = j
  /\ \A p \in Pkg : \A i \in DOMAIN Below[p] :
       \A q \in ToSet(Below[Below[p][i]]) : \E j \in 1..(i - 1) : Below[p][j] = q
BY ClosuresAssumption DEF Closures

LEMMA DepsBelow ==
  ASSUME NEW x \in Pkg, NEW d \in ToSet(Deps[x])
  PROVE  d \in Pkg /\ Closed(d) \subseteq ToSet(Below[x])
<1>1. Deps[x] \in Seq(Pkg)
  BY ClosuresGiven
<1>2. d \in Pkg
  BY <1>1, ToSetIs
<1>3. ToSet(Below[x]) = UNION {ToSet(Below[e]) \cup {e} : e \in ToSet(Deps[x])}
  BY ClosuresGiven
<1> QED
  BY <1>2, <1>3 DEF Closed

LEMMA BelowDeps ==
  ASSUME NEW x \in Pkg, NEW y \in ToSet(Below[x])
  PROVE  \E d \in ToSet(Deps[x]) : y \in Closed(d)
<1>1. ToSet(Below[x]) = UNION {ToSet(Below[e]) \cup {e} : e \in ToSet(Deps[x])}
  BY ClosuresGiven
<1> QED
  BY <1>1 DEF Closed

LEMMA ClosedType ==
  ASSUME NEW x \in Pkg
  PROVE  ToSet(Below[x]) \subseteq Pkg /\ Closed(x) \subseteq Pkg
<1>1. Below[x] \in Seq(Pkg)
  BY ClosuresGiven
<1> QED
  BY <1>1, ToSetIs DEF Closed

LEMMA ClosureType ==
  ASSUME NEW a \in Pkg \cup {Rootfs}
  PROVE  ClosureOf(a) \subseteq Pkg /\ DirectOf(a) \subseteq Pkg
<1>1. CASE a = Rootfs
  BY <1>1 DEF ClosureOf, DirectOf
<1>2. CASE a # Rootfs
  BY <1>2, ClosedType, DepsBelow DEF ClosureOf, DirectOf
<1> QED
  BY <1>1, <1>2

LEMMA DirectClosed ==
  ASSUME NEW a \in Pkg \cup {Rootfs}, NEW x \in DirectOf(a)
  PROVE  x \in Pkg /\ Closed(x) \subseteq ClosureOf(a)
<1>1. CASE a = Rootfs
  BY <1>1, ClosedType DEF ClosureOf, DirectOf
<1>2. CASE a # Rootfs
  BY <1>2, DepsBelow DEF ClosureOf, DirectOf
<1> QED
  BY <1>1, <1>2

\* The order in which the tree of x is overlaid.
OrderOf(x) == Append(Below[x], x)

LEMMA OrderIs ==
  ASSUME NEW x \in Pkg
  PROVE  LET o == OrderOf(x)
             n == Len(Below[x]) + 1 IN
           /\ o \in Seq(Pkg)
           /\ Len(Below[x]) \in Nat
           /\ Len(o) = n
           /\ o[n] = x
           /\ \A i \in 1..(n - 1) : o[i] = Below[x][i]
           /\ \A i \in 1..n : o[i] \in Closed(x)
           /\ \A y \in Closed(x) : \E i \in 1..n : o[i] = y
           /\ \A i \in 1..n : \A q \in ToSet(Below[o[i]]) : \E j \in 1..(i - 1) : o[j] = q
           /\ \A i, j \in 1..n : o[i] = o[j] => i = j
<1> DEFINE o == OrderOf(x)
           b == Below[x]
           n == Len(b) + 1
<1>1. b \in Seq(Pkg)
  BY ClosuresGiven
<1>2. Len(b) \in Nat /\ DOMAIN b = 1..Len(b)
  BY <1>1, ToSetIs
<1>3. o \in Seq(Pkg) /\ Len(o) = n /\ o[n] = x /\ \A i \in 1..(n - 1) : o[i] = b[i]
  BY <1>1, <1>2 DEF OrderOf
<1>4. \A i \in 1..Len(b) : b[i] \in ToSet(b)
  BY <1>1, ToSetIs
<1>5. \A v \in ToSet(b) : \E i \in 1..Len(b) : b[i] = v
  BY <1>1, ToSetIs
<1>6. \A i \in 1..Len(b) : \A q \in ToSet(Below[b[i]]) : \E j \in 1..(i - 1) : b[j] = q
  BY <1>2, ClosuresGiven
<1>7. \A i, j \in 1..Len(b) : b[i] = b[j] => i = j
  BY <1>2, ClosuresGiven
<1>8. x \notin ToSet(b)
  <2> SUFFICES ASSUME x \in ToSet(b) PROVE FALSE
    OBVIOUS
  <2>1. PICK i \in 1..Len(b) : b[i] = x
    BY <1>5
  <2>2. PICK j \in 1..(i - 1) : b[j] = x
    BY <1>6, <2>1
  <2>3. j \in 1..Len(b) /\ j # i
    BY <1>2, <2>1, <2>2
  <2> QED
    BY <1>7, <2>1, <2>2, <2>3
<1>9. Closed(x) = ToSet(b) \cup {x}
  BY DEF Closed
<1> HIDE DEF o, b
<1>10. \A i \in 1..n : o[i] \in Closed(x)
  BY <1>2, <1>3, <1>4, <1>9
<1>11. \A y \in Closed(x) : \E i \in 1..n : o[i] = y
  BY <1>2, <1>3, <1>5, <1>9
<1>12. \A i \in 1..n : \A q \in ToSet(Below[o[i]]) : \E j \in 1..(i - 1) : o[j] = q
  <2> TAKE i \in 1..n
  <2>1. CASE i = n
    <3> SUFFICES ASSUME NEW q \in ToSet(Below[x]) PROVE \E j \in 1..(i - 1) : o[j] = q
      BY <1>3, <2>1
    <3>1. PICK j \in 1..Len(b) : b[j] = q
      BY <1>5 DEF b
    <3> QED
      BY <1>2, <1>3, <2>1, <3>1
  <2>2. CASE i # n
    <3>1. i \in 1..Len(b) /\ o[i] = b[i]
      BY <1>2, <1>3, <2>2
    <3> SUFFICES ASSUME NEW q \in ToSet(Below[b[i]]) PROVE \E j \in 1..(i - 1) : o[j] = q
      BY <3>1
    <3>2. PICK j \in 1..(i - 1) : b[j] = q
      BY <1>6, <3>1
    <3>3. j \in 1..(n - 1)
      BY <1>2, <3>1, <3>2
    <3> QED
      BY <1>3, <3>2, <3>3
  <2> QED
    BY <2>1, <2>2
<1>13. \A i, j \in 1..n : o[i] = o[j] => i = j
  <2> TAKE i, j \in 1..n
  <2>1. CASE i = n /\ j # n
    BY <1>2, <1>3, <1>4, <1>8, <2>1
  <2>2. CASE j = n /\ i # n
    BY <1>2, <1>3, <1>4, <1>8, <2>2
  <2>3. CASE i # n /\ j # n
    <3>1. i \in 1..Len(b) /\ j \in 1..Len(b) /\ o[i] = b[i] /\ o[j] = b[j]
      BY <1>2, <1>3, <2>3
    <3> QED
      BY <1>7, <3>1
  <2> QED
    BY <2>1, <2>2, <2>3
<1> QED
  BY <1>2, <1>3, <1>10, <1>11, <1>12, <1>13 DEF o, b

LEMMA NotBelowItself ==
  ASSUME NEW x \in Pkg
  PROVE  x \notin ToSet(Below[x])
<1> DEFINE o == OrderOf(x)
           n == Len(Below[x]) + 1
<1> SUFFICES ASSUME x \in ToSet(Below[x]) PROVE FALSE
  OBVIOUS
<1>1. Len(Below[x]) \in Nat /\ o[n] = x
  BY OrderIs
<1>2. \A i \in 1..n : \A q \in ToSet(Below[o[i]]) : \E j \in 1..(i - 1) : o[j] = q
  BY OrderIs
<1>3. \A i, j \in 1..n : o[i] = o[j] => i = j
  BY OrderIs
<1>4. n \in 1..n
  BY <1>1
<1> HIDE DEF o
<1>5. PICK j \in 1..(n - 1) : o[j] = x
  BY <1>1, <1>2, <1>4
<1>6. j \in 1..n /\ j # n
  BY <1>1, <1>5
<1> QED
  BY <1>1, <1>3, <1>4, <1>5, <1>6

------------------------------------------------------------------------------
(* Entries and artifacts.                                                  *)
LEMMA ContentIs ==
  ASSUME NEW c \in Content
  PROVE  /\ c # Absent
         /\ c = [kind |-> c.kind, data |-> c.data]
         /\ c.kind \in {"file", "link"}
         /\ c.data \in Data
BY ValuesAssumption DEF Content

LEMMA EntryIs ==
  ASSUME NEW e \in Entry
  PROVE  /\ e # Absent
         /\ e.kind \in {"file", "link"}
         /\ e.kind = "file" => e.ino \in Inode
         /\ e.kind = "link" => e.data \in Data /\ e \in Content
<1>1. e # Absent
  BY ValuesAssumption
<1>2. CASE e \in [kind : {"file"}, ino : Inode]
  BY <1>1, <1>2
<1>3. CASE e \in [kind : {"link"}, data : Data]
  BY <1>1, <1>3 DEF Content
<1> QED
  BY <1>2, <1>3 DEF Entry

LEMMA ArtifactType ==
  ASSUME TreesTypeOK, NEW q \in Pkg, built[q] # Nothing
  PROVE  /\ built[q].delta \in Tree
         /\ built[q].tree \in Tree
         /\ built[q].given \in Tree
         /\ built[q].did \in Seq(Command)
         /\ \A f \in Path : /\ built[q].delta[f] \in Content \cup {Absent}
                            /\ built[q].tree[f] \in Content \cup {Absent}
                            /\ built[q].given[f] \in Content \cup {Absent}
<1>1. built[q] \in [tree : Tree, given : Tree, delta : Tree, did : Seq(Command)]
  BY DEF TreesTypeOK
<1>2. /\ built[q].delta \in Tree
      /\ built[q].tree \in Tree
      /\ built[q].given \in Tree
      /\ built[q].did \in Seq(Command)
  BY <1>1
<1> QED
  BY <1>2 DEF Tree

LEMMA UnpackedIs ==
  ASSUME TreesTypeOK, NEW q \in Pkg, built[q] # Nothing
  PROVE  /\ Unpacked(q) \in WorkTree
         /\ \A f \in Path :
              /\ Unpacked(q)[f] = Absent <=> built[q].delta[f] = Absent
              /\ Unpacked(q)[f] # Absent /\ Unpacked(q)[f].kind = "file" =>
                   Unpacked(q)[f].ino = <<q, f>> /\ built[q].delta[f].kind = "file"
              /\ Unpacked(q)[f] # Absent /\ Unpacked(q)[f].kind # "file" =>
                   Unpacked(q)[f] = built[q].delta[f]
<1> DEFINE D(f) == built[q].delta[f]
           E(f) == IF D(f) = Absent THEN Absent
                   ELSE IF D(f).kind = "file" THEN [kind |-> "file", ino |-> <<q, f>>] ELSE D(f)
<1>1. Unpacked(q) = [f \in Path |-> E(f)]
  BY DEF Unpacked
<1>2. ASSUME NEW f \in Path
      PROVE  /\ E(f) \in Entry \cup {Absent}
             /\ E(f) = Absent <=> D(f) = Absent
             /\ E(f) # Absent /\ E(f).kind = "file" => E(f).ino = <<q, f>> /\ D(f).kind = "file"
             /\ E(f) # Absent /\ E(f).kind # "file" => E(f) = D(f)
  <2>1. D(f) \in Content \cup {Absent}
    BY ArtifactType
  <2>2. CASE D(f) = Absent
    BY <2>2
  <2>3. CASE D(f) # Absent /\ D(f).kind = "file"
    <3>1. E(f) = [kind |-> "file", ino |-> <<q, f>>]
      BY <2>3
    <3>2. <<q, f>> \in Inode
      BY DEF Inode
    <3>3. E(f) \in Entry
      BY <3>1, <3>2 DEF Entry
    <3> QED
      BY <2>3, <3>1, <3>3, EntryIs
  <2>4. CASE D(f) # Absent /\ D(f).kind # "file"
    <3>1. E(f) = D(f) /\ D(f) \in Content /\ D(f).kind = "link"
      BY <2>1, <2>4, ContentIs
    <3>2. E(f) \in Entry
      BY <3>1 DEF Entry, Content
    <3> QED
      BY <2>4, <3>1, <3>2
  <2> QED
    BY <2>2, <2>3, <2>4
<1> HIDE DEF D, E
<1>3. \A f \in Path : Unpacked(q)[f] = E(f)
  BY <1>1
<1>4. Unpacked(q) \in WorkTree
  BY <1>1, <1>2 DEF WorkTree
<1>5. \A f \in Path : D(f) = built[q].delta[f]
  BY DEF D
<1> QED
  BY <1>2, <1>3, <1>4, <1>5

LEMMA SeenUnpacked ==
  ASSUME TreesTypeOK, NEW q \in Pkg, built[q] # Nothing, NEW f \in Path,
         built[q].delta[f] # Absent => disk[<<q, f>>] = built[q].delta[f].data
  PROVE  /\ Seen(Unpacked(q)[f]) = built[q].delta[f]
         /\ Unpacked(q)[f] # Absent /\ Unpacked(q)[f].kind = "file" => disk[<<q, f>>] \in Data
<1> DEFINE D == built[q].delta[f]
           E == Unpacked(q)[f]
<1>1. D \in Content \cup {Absent}
  BY ArtifactType
<1>2. /\ E = Absent <=> D = Absent
      /\ E # Absent /\ E.kind = "file" => E.ino = <<q, f>> /\ D.kind = "file"
      /\ E # Absent /\ E.kind # "file" => E = D
  BY UnpackedIs
<1>3. D # Absent => D = [kind |-> D.kind, data |-> D.data] /\ D.data \in Data
  BY <1>1, ContentIs
<1> HIDE DEF D, E
<1>4. D # Absent => disk[<<q, f>>] = D.data
  BY DEF D
<1>5. Seen(E) = D /\ (E # Absent /\ E.kind = "file" => disk[<<q, f>>] \in Data)
  BY <1>2, <1>3, <1>4 DEF Seen
<1> QED
  BY <1>5 DEF D, E

\* A package brings f and none that has it below brings f.
Newest(x, y, f) ==
  /\ y \in Closed(x)
  /\ built[y].delta[f] # Absent
  /\ \A z \in Closed(x) : built[z].delta[f] # Absent => y \notin ToSet(Below[z])

LEMMA ClosedMonotonic ==
  ASSUME NEW x \in Pkg, NEW y \in Closed(x)
  PROVE  y \in Pkg /\ Closed(y) \subseteq Closed(x)
<1> DEFINE o == OrderOf(x)
           n == Len(Below[x]) + 1
<1>1. y \in Pkg
  BY ClosedType
<1>8. \A v \in Closed(x) : \E i \in 1..n : o[i] = v
  BY OrderIs
<1>2. PICK i \in 1..n : o[i] = y
  BY <1>8
<1>9. \A k \in 1..n : \A q \in ToSet(Below[o[k]]) : \E j \in 1..(k - 1) : o[j] = q
  BY OrderIs
<1>3. \A q \in ToSet(Below[o[i]]) : \E j \in 1..(i - 1) : o[j] = q
  BY <1>9
<1>4. \A j \in 1..n : o[j] \in Closed(x)
  BY OrderIs
<1>5. Len(Below[x]) \in Nat
  BY OrderIs
<1>6. \A j \in 1..(i - 1) : j \in 1..n
  BY <1>5
<1> HIDE DEF o, n
<1>7. ToSet(Below[y]) \subseteq Closed(x)
  BY <1>2, <1>3, <1>4, <1>6
<1> QED
  BY <1>1, <1>7 DEF Closed

LEMMA ClosedBuilt ==
  ASSUME Past, NEW x \in Pkg, built[x] # Nothing, NEW y \in Closed(x)
  PROVE  y \in Pkg /\ built[y] # Nothing
BY ClosedType DEF Closed, Past

\* Where a closure has nothing lost and nothing disputed, its newest deltas are what
\* make left.
LEMMA NewestIsTree ==
  ASSUME TreesTypeOK, Past, NEW x \in Pkg, built[x] # Nothing, NEW f \in Path,
         CleanIn(Closed(x), f), NEW y, Newest(x, y, f)
  PROVE  built[y].delta[f] = built[x].tree[f]
<1> DEFINE o == OrderOf(x)
           n == Len(Below[x]) + 1
           Good(z) == \A w : Newest(z, w, f) => built[w].delta[f] = built[z].tree[f]
           N == {i \in 1..n : ~Good(o[i])}
<1>1. Len(Below[x]) \in Nat /\ n \in 1..n /\ o[n] = x
  BY OrderIs
<1>2. \A i \in 1..n : o[i] \in Closed(x)
  BY OrderIs
<1>3. \A i \in 1..n : \A q \in ToSet(Below[o[i]]) : \E j \in 1..(i - 1) : o[j] = q
  BY OrderIs
<1>4. N \subseteq Nat
  BY <1>1
<1> SUFFICES ASSUME N # {} PROVE FALSE
  BY <1>1
<1>5. PICK i \in N : \A k \in N : i <= k
  BY <1>4, LowestNat
<1> DEFINE z == o[i]
<1>6. i \in 1..n /\ ~Good(z)
  BY <1>5
<1>7. z \in Pkg /\ built[z] # Nothing /\ Closed(z) \subseteq Closed(x)
  BY <1>2, <1>6, ClosedBuilt, ClosedMonotonic
<1>8. \A q \in ToSet(Below[z]) : Good(q)
  <2> TAKE q \in ToSet(Below[z])
  <2>1. PICK j \in 1..(i - 1) : o[j] = q
    BY <1>3, <1>6
  <2>2. j \in 1..n /\ ~(i <= j)
    BY <1>1, <1>6, <2>1
  <2>3. j \notin N
    BY <1>5, <2>2
  <2> QED
    BY <2>1, <2>2, <2>3
<1> HIDE DEF o, n, N, z
<1>9. PICK w : Newest(z, w, f) /\ built[w].delta[f] # built[z].tree[f]
  BY <1>6
<1>10. CASE built[z].delta[f] # Absent
  <2>1. z \in Closed(z)
    BY DEF Closed
  <2>2. w = z
    BY <1>9, <1>10, <2>1 DEF Newest, Closed
  <2>3. built[z].delta[f] = built[z].tree[f]
    BY <1>7, <1>10 DEF Past, DeltaOf
  <2> QED
    BY <1>9, <2>2, <2>3
<1>11. CASE built[z].delta[f] = Absent
  <2>1. z \in Closed(x)
    BY <1>7 DEF Closed
  <2>2. ~Disputed(z, f) /\ ~Lost(z, f)
    BY <2>1 DEF CleanIn
  <2>3. built[z].tree[f] = built[z].given[f]
    BY <1>11, <2>2 DEF Lost
  <2>4. CleanIn(ToSet(Below[z]), f)
    BY <1>7 DEF CleanIn, Closed
  <2>5. w \in ToSet(Below[z])
    BY <1>9, <1>11 DEF Newest, Closed
  <2>6. PICK d \in ToSet(Deps[z]) : w \in Closed(d)
    BY <1>7, <2>5, BelowDeps
  <2>7. d \in Pkg /\ Closed(d) \subseteq ToSet(Below[z]) /\ d \in ToSet(Below[z])
    BY <1>7, DepsBelow DEF Closed
  <2>8. Newest(d, w, f)
    BY <1>9, <2>6, <2>7 DEF Newest, Closed
  <2>9. built[w].delta[f] = built[d].tree[f] /\ built[d].tree[f] # Absent
    BY <1>8, <2>7, <2>8 DEF Newest
  <2>10. GivenFrom(z, built[z].given)
    BY <1>7 DEF Past
  <2>11. built[z].given[f] # Absent
    BY <2>4, <2>9, <2>10 DEF GivenFrom
  <2>12. PICK e \in ToSet(Deps[z]) : built[e].tree[f] = built[z].given[f]
    BY <2>4, <2>10, <2>11 DEF GivenFrom
  <2>13. built[e].tree[f] = built[d].tree[f]
    BY <1>11, <2>2, <2>9, <2>11, <2>12 DEF Disputed
  <2> QED
    BY <1>9, <2>3, <2>9, <2>12, <2>13
<1> QED
  BY <1>10, <1>11

LEMMA HighestNat ==
  ASSUME NEW n \in Nat, NEW N, N \subseteq 1..n, N # {}
  PROVE  \E i \in N : \A j \in N : j <= i
<1> DEFINE R == {n - i : i \in N}
<1>7. \A i \in N : i \in Nat /\ n - i \in Nat
  OBVIOUS
<1>1. R \subseteq Nat /\ R # {}
  BY <1>7
<1>2. PICK r \in R : \A s \in R : r <= s
  BY <1>1, LowestNat
<1>3. PICK i \in N : r = n - i
  BY <1>2
<1>4. \A j \in N : n - i <= n - j
  BY <1>2, <1>3
<1>5. i \in Nat
  BY <1>3, <1>7
<1>6. \A j \in N : j <= i
  <2> TAKE j \in N
  <2>1. j \in Nat /\ n - i <= n - j
    BY <1>4, <1>7
  <2> QED
    BY <1>5, <2>1
<1> QED
  BY <1>3, <1>6

LEMMA SomeDelta ==
  ASSUME TreesTypeOK, Past, NEW x \in Pkg, built[x] # Nothing, NEW f \in Path,
         built[x].tree[f] # Absent, ~Lost(x, f)
  PROVE  \E y \in Closed(x) : built[y].delta[f] = built[x].tree[f]
<1>1. CASE built[x].delta[f] # Absent
  BY <1>1 DEF Past, DeltaOf, Closed
<1>2. CASE built[x].delta[f] = Absent
  <2>1. built[x].given[f] = built[x].tree[f]
    BY <1>2 DEF Lost
  <2>2. GivenFrom(x, built[x].given)
    BY DEF Past
  <2>3. \E y \in ToSet(Below[x]) : built[y].delta[f] = built[x].given[f]
    BY <2>1, <2>2 DEF GivenFrom
  <2> QED
    BY <2>1, <2>3 DEF Closed
<1> QED
  BY <1>1, <1>2

\* overlay_complete's order ends with x and respects the closures: the last delta for
\* f in it is a newest one.
LEMMA OverlayRestores ==
  ASSUME TreesTypeOK, Past, NEW x \in Pkg, built[x] # Nothing,
         \A q \in Closed(x) : per[q] = Unpacked(q),
         \A q \in Closed(x), f \in Path :
           built[q].delta[f] # Absent => disk[<<q, f>>] = built[q].delta[f].data
  PROVE  Overlay(OrderOf(x)) \in WorkTree /\ Restored(x, Overlay(OrderOf(x)))
<1> DEFINE o == OrderOf(x)
           n == Len(Below[x]) + 1
           t == OverlayOf(per, o)
<1>1. Len(o) = n /\ Len(Below[x]) \in Nat /\ n \in Nat
  BY OrderIs
<1>2. \A i \in 1..n : o[i] \in Closed(x)
  BY OrderIs
<1>3. \A y \in Closed(x) : \E i \in 1..n : o[i] = y
  BY OrderIs
<1>4. \A i \in 1..n : \A q \in ToSet(Below[o[i]]) : \E j \in 1..(i - 1) : o[j] = q
  BY OrderIs
<1>5. \A i, j \in 1..n : o[i] = o[j] => i = j
  BY OrderIs
<1>6. \A i \in 1..n : o[i] \in Pkg /\ built[o[i]] # Nothing
  BY <1>2, ClosedBuilt
<1> HIDE DEF o, n
<1>7. ASSUME NEW i \in 1..n, NEW f \in Path
      PROVE  /\ per[o[i]][f] = Unpacked(o[i])[f]
             /\ Seen(per[o[i]][f]) = built[o[i]].delta[f]
             /\ per[o[i]][f] = Absent <=> built[o[i]].delta[f] = Absent
  <2>1. per[o[i]] = Unpacked(o[i])
    BY <1>2
  <2>2. built[o[i]].delta[f] # Absent => disk[<<o[i], f>>] = built[o[i]].delta[f].data
    BY <1>2
  <2>3. Seen(Unpacked(o[i])[f]) = built[o[i]].delta[f]
    BY <1>6, <2>2, SeenUnpacked
  <2>4. Unpacked(o[i])[f] = Absent <=> built[o[i]].delta[f] = Absent
    BY <1>6, UnpackedIs
  <2> QED
    BY <2>1, <2>3, <2>4
<1>8. t \in WorkTree
  <2>1. \A i \in 1..Len(o) : per[o[i]] \in [Path -> Entry \cup {Absent}]
    BY <1>1, <1>2, <1>6, UnpackedIs DEF WorkTree
  <2> QED
    BY <1>1, <2>1, OverlayType DEF WorkTree
<1>9. ASSUME NEW f \in Path
      PROVE  /\ t[f] # Absent => \E y \in Closed(x) : t[f] = Unpacked(y)[f]
             /\ CleanIn(Closed(x), f) => Seen(t[f]) = built[x].tree[f]
  <2>1. \A i \in 1..Len(o) : per[o[i]][f] # Absent => Seen(per[o[i]][f]) # Absent
    BY <1>1, <1>7
  <2>2. Laid(per, o, f, n, t)
    BY <1>1, <2>1, OverlayLaid
  <2> HIDE DEF t
  <2>3. t[f] # Absent => \E y \in Closed(x) : t[f] = Unpacked(y)[f]
    <3> SUFFICES ASSUME t[f] # Absent PROVE \E y \in Closed(x) : t[f] = Unpacked(y)[f]
      OBVIOUS
    <3>1. PICK i \in 1..n : t[f] = per[o[i]][f]
      BY <2>2 DEF Laid
    <3> QED
      BY <1>2, <1>7, <3>1
  <2>4. CleanIn(Closed(x), f) => Seen(t[f]) = built[x].tree[f]
    <3> SUFFICES ASSUME CleanIn(Closed(x), f) PROVE Seen(t[f]) = built[x].tree[f]
      OBVIOUS
    <3> DEFINE N == {i \in 1..n : built[o[i]].delta[f] # Absent}
    <3>1. CASE N = {}
      <4>1. \A i \in 1..n : built[o[i]].delta[f] = Absent
        BY <3>1
      <4>2. \A y \in Closed(x) : built[y].delta[f] = Absent
        BY <1>3, <4>1
      <4>3. x \in Closed(x)
        BY DEF Closed
      <4>4. ~Lost(x, f)
        BY <4>3 DEF CleanIn
      <4>5. built[x].tree[f] = Absent
        BY <4>2, <4>4, SomeDelta
      <4>6. t[f] = Absent
        BY <1>7, <2>2, <4>1 DEF Laid
      <4> QED
        BY <4>5, <4>6 DEF Seen
    <3>2. CASE N # {}
      <4>1. N \subseteq 1..n
        OBVIOUS
      <4>2. PICK i \in N : \A j \in N : j <= i
        BY <1>1, <3>2, <4>1, HighestNat
      <4>3. i \in 1..n /\ built[o[i]].delta[f] # Absent
        BY <4>2
      <4>4. \A j \in (i + 1)..n : built[o[j]].delta[f] = Absent
        <5> TAKE j \in (i + 1)..n
        <5>1. j \in 1..n /\ ~(j <= i)
          BY <1>1, <4>3
        <5>2. j \notin N
          BY <4>2, <5>1
        <5> QED
          BY <5>1, <5>2
      <4> HIDE DEF N
      <4>5. \A j \in (i + 1)..n : per[o[j]][f] = Absent
        <5> TAKE j \in (i + 1)..n
        <5>1. j \in 1..n
          BY <1>1, <4>3
        <5> QED
          BY <1>7, <4>4, <5>1
      <4>6. Seen(t[f]) = Seen(per[o[i]][f])
        BY <1>7, <2>2, <4>3, <4>5 DEF Laid
      <4>7. Newest(x, o[i], f)
        <5>1. ASSUME NEW z \in Closed(x), built[z].delta[f] # Absent, o[i] \in ToSet(Below[z])
              PROVE  FALSE
          <6>1. PICK j \in 1..n : o[j] = z
            BY <1>3
          <6>2. PICK k \in 1..(j - 1) : o[k] = o[i]
            BY <1>4, <5>1, <6>1
          <6>3. k = i
            BY <1>1, <1>5, <4>3, <6>1, <6>2
          <6>4. j \in (i + 1)..n
            BY <1>1, <6>1, <6>2, <6>3
          <6> QED
            BY <4>4, <5>1, <6>1, <6>4
        <5> QED
          BY <1>2, <4>3, <5>1 DEF Newest
      <4>8. built[o[i]].delta[f] = built[x].tree[f]
        BY <4>7, NewestIsTree
      <4> QED
        BY <1>7, <4>3, <4>6, <4>8
    <3> QED
      BY <3>1, <3>2
  <2> QED
    BY <2>3, <2>4
<1>10. Restored(x, t)
  BY <1>9 DEF Restored
<1> QED
  BY <1>8, <1>10 DEF Overlay, o

------------------------------------------------------------------------------
(* Steps that leave the artifacts alone leave what is known of them alone. *)
LEMMA CleanSame ==
  ASSUME built' = built, NEW S, NEW f
  PROVE  CleanIn(S, f)' <=> CleanIn(S, f)
BY DEF CleanIn, Disputed, Lost

LEMMA GivenSame ==
  ASSUME built' = built, NEW x, NEW g
  PROVE  GivenFrom(x, g)' <=> GivenFrom(x, g)
BY CleanSame DEF GivenFrom

LEMMA PastSame ==
  ASSUME built' = built, Past, LostOnlyIfDisputed
  PROVE  Past' /\ LostOnlyIfDisputed'
<1>1. \A x \in Pkg : DeltaOf(x)' <=> DeltaOf(x)
  BY DEF DeltaOf
<1>2. \A x \in Pkg : GivenFrom(x, built[x].given)' <=> GivenFrom(x, built[x].given)
  BY GivenSame
<1>3. Past'
  BY <1>1, <1>2 DEF Past
<1>4. \A y, f : (Disputed(y, f)' <=> Disputed(y, f)) /\ (Lost(y, f)' <=> Lost(y, f))
  BY DEF Disputed, Lost
<1>5. LostOnlyIfDisputed'
  BY <1>4 DEF LostOnlyIfDisputed
<1> QED
  BY <1>3, <1>5

LEMMA UnpackedSame ==
  ASSUME built' = built, NEW q
  PROVE  Unpacked(q)' = Unpacked(q)
BY DEF Unpacked

LEMMA RestoredSame ==
  ASSUME built' = built, disk' = disk, NEW x, NEW t
  PROVE  Restored(x, t)' <=> Restored(x, t)
<1>1. \A e : Seen(e)' = Seen(e)
  BY DEF Seen
<1> QED
  BY <1>1, CleanSame, UnpackedSame DEF Restored

\* A step to another phase than these has nothing to show of them.
LEMMA Nowhere ==
  /\ phase \notin {"unpacked", "overlaid", "indexed", "hosted"} => Seeded
  /\ phase # "unpacked" => Staging
  /\ phase \notin {"overlaid", "indexed"} => Overlaid
  /\ phase \notin {"indexed", "making"} => IndexKnows
  /\ phase # "indexed" => IndexComplete
  /\ phase # "making" => Making
  /\ phase # "hosted" => HostToolsKept
  /\ phase # "made" => OnlyOwnWork
BY DEF Seeded, Staging, Overlaid, IndexKnows, IndexComplete, Making, HostToolsKept, OnlyOwnWork

\* An entry of a restored tree, while the files are the deltas'.
LEMMA RestoredEntry ==
  ASSUME TreesTypeOK, Past, Turn, Seeded, phase \in {"unpacked", "overlaid", "indexed"},
         actor # Nothing, NEW x \in DirectOf(actor), NEW t, Restored(x, t), NEW f \in Path
  PROVE  /\ Seen(t[f]) \in Content \cup {Absent}
         /\ t[f] # Absent => Seen(t[f]) # Absent
         /\ t[f] # Absent =>
              \E y \in Closed(x) :
                /\ built[y].delta[f] = Seen(t[f])
                /\ t[f].kind = "file" => t[f].ino = <<y, f>> /\ disk[<<y, f>>] \in Data
                /\ t[f].kind # "file" => t[f].kind = "link" /\ t[f].data \in Data
                                         /\ t[f] = [kind |-> "link", data |-> t[f].data]
<1>1. CASE t[f] = Absent
  BY <1>1 DEF Seen
<1>2. CASE t[f] # Absent
  <2>1. PICK y \in Closed(x) : t[f] = Unpacked(y)[f]
    BY <1>2 DEF Restored
  <2>2. actor \in Pkg \cup {Rootfs}
    BY DEF TreesTypeOK
  <2>3. y \in ClosureOf(actor)
    BY <2>2, DirectClosed
  <2>4. y \in Pkg /\ built[y] # Nothing
    BY <2>2, <2>3, ClosureType DEF Turn
  <2>5. built[y].delta[f] # Absent => disk[<<y, f>>] = built[y].delta[f].data
    BY <2>3 DEF Seeded
  <2>6. Seen(t[f]) = built[y].delta[f] /\ (t[f].kind = "file" => disk[<<y, f>>] \in Data)
    BY <1>2, <2>1, <2>4, <2>5, SeenUnpacked
  <2>7. built[y].delta[f] \in Content /\ built[y].delta[f] # Absent
    BY <1>2, <2>1, <2>4, UnpackedIs, ArtifactType
  <2>8. t[f].kind = "file" => t[f].ino = <<y, f>>
    BY <1>2, <2>1, <2>4, UnpackedIs
  <2>9. t[f].kind # "file" => t[f] = built[y].delta[f]
    BY <1>2, <2>1, <2>4, UnpackedIs
  <2>10. t[f].kind # "file" => t[f].kind = "link" /\ t[f].data \in Data
                               /\ t[f] = [kind |-> "link", data |-> t[f].data]
    BY <2>7, <2>9, ContentIs
  <2> QED
    BY <2>6, <2>7, <2>8, <2>10
<1> QED
  BY <1>1, <1>2

------------------------------------------------------------------------------
(* The actions.                                                            *)
LEMMA KnownInit == TreesInit => Known
<1> SUFFICES ASSUME TreesInit PROVE Known
  OBVIOUS
<1>1. Bare \in WorkTree /\ Bare \in Tree
  BY DEF Bare, WorkTree, Tree
<1>2. TreesTypeOK
  BY <1>1, ValuesAssumption DEF TreesInit, TreesTypeOK, Phases
<1>3. Past /\ LostOnlyIfDisputed
  BY DEF TreesInit, Past, LostOnlyIfDisputed
<1>4. Turn
  BY ValuesAssumption DEF TreesInit, Turn
<1>5. phase = "idle"
  BY DEF TreesInit
<1> QED
  BY <1>2, <1>3, <1>4, <1>5, Nowhere DEF Known

LEMMA KnownSeed ==
  ASSUME Known, NEW a \in Pkg \cup {Rootfs}, Seed(a)
  PROVE  Known'
<1> USE DEF Known
<1>1. built' = built /\ actor' = a /\ phase' = "unpacked"
  BY DEF Seed
<1>2. Past' /\ LostOnlyIfDisputed'
  BY <1>1, PastSame
<1>3. ClosureOf(a) \subseteq Pkg /\ \A q \in ClosureOf(a) : built[q] # Nothing
  BY ClosureType DEF Seed
<1>4. \A q \in ClosureOf(a), f \in Path :
        built[q].delta[f] # Absent => disk'[<<q, f>>] = built[q].delta[f].data
  BY <1>3 DEF Seed, Inode
<1>5. per' \in [Pkg -> WorkTree]
  <2>1. \A q \in ClosureOf(a) : Unpacked(q) \in WorkTree
    BY <1>3, UnpackedIs
  <2>2. Bare \in WorkTree
    BY DEF Bare, WorkTree
  <2> QED
    BY <2>1, <2>2 DEF Seed
<1>6. disk' \in [Inode -> Data \cup {Absent}]
  <2> DEFINE data(i) == IF i[1] \in ClosureOf(a) /\ built[i[1]].delta[i[2]] # Absent
                          THEN built[i[1]].delta[i[2]].data ELSE Absent
  <2>1. \A i \in Inode : data(i) \in Data \cup {Absent}
    <3> TAKE i \in Inode
    <3>1. i[2] \in Path
      BY DEF Inode
    <3> SUFFICES ASSUME i[1] \in ClosureOf(a), built[i[1]].delta[i[2]] # Absent
                 PROVE  built[i[1]].delta[i[2]].data \in Data
      OBVIOUS
    <3>2. i[1] \in Pkg /\ built[i[1]] # Nothing
      BY <1>3
    <3>3. built[i[1]].delta[i[2]] \in Content
      BY <3>1, <3>2, ArtifactType
    <3> QED
      BY <3>3, ContentIs
  <2>2. disk' = [i \in Inode |-> data(i)]
    BY DEF Seed
  <2> HIDE DEF data
  <2> QED
    BY <2>1, <2>2
<1>7. TreesTypeOK'
  <2>1. stage' \in [Pkg -> WorkTree \cup {Absent}] /\ did' = <<>>
    BY DEF Seed
  <2>2. did' \in Seq(Command) /\ Len(did') <= MaxOps
    BY <2>1, ValuesAssumption
  <2>3. UNCHANGED <<index, given, host>>
    BY DEF Seed
  <2> QED
    BY <1>1, <1>5, <1>6, <2>1, <2>2, <2>3 DEF TreesTypeOK, Phases
<1>8. Turn'
  <2>1. a # Nothing
    BY ValuesAssumption
  <2>2. a \in Pkg => built[a] = Nothing
    BY DEF Seed
  <2>3. ClosureOf(actor)' = ClosureOf(a)
    BY <1>1 DEF ClosureOf
  <2>4. did' = <<>>
    BY DEF Seed
  <2> QED
    BY <1>1, <1>3, <2>1, <2>2, <2>3, <2>4 DEF Turn
<1>9. Seeded'
  BY <1>1, <1>4 DEF Seeded, ClosureOf
<1>10. Staging'
  <2>1. \A q \in ClosureOf(a) : per'[q] = Unpacked(q)
    BY <1>3 DEF Seed
  <2>2. \A x \in Pkg : stage'[x] = Absent
    BY DEF Seed
  <2>3. \A q : Unpacked(q)' = Unpacked(q)
    BY <1>1, UnpackedSame
  <2>4. DirectOf(a) \subseteq Pkg
    BY ClosureType
  <2>5. (\A q \in ClosureOf(actor) : per[q] = Unpacked(q))'
    BY <1>1, <2>1, <2>3 DEF ClosureOf
  <2>6. (\A x \in DirectOf(actor) : stage[x] # Absent => Restored(x, stage[x]))'
    BY <1>1, <2>2, <2>4 DEF DirectOf
  <2> QED
    BY <2>5, <2>6 DEF Staging
<1>11. Overlaid' /\ IndexKnows' /\ IndexComplete' /\ Making' /\ HostToolsKept' /\ OnlyOwnWork'
  BY <1>1 DEF Overlaid, IndexKnows, IndexComplete, Making, HostToolsKept, OnlyOwnWork
<1> QED
  BY <1>2, <1>7, <1>8, <1>9, <1>10, <1>11

LEMMA KnownStageTree ==
  ASSUME Known, NEW x \in Pkg, StageTree(x)
  PROVE  Known'
<1> USE DEF Known
<1>1. /\ phase = "unpacked" /\ phase' = "unpacked"
      /\ x \in DirectOf(actor)
      /\ UNCHANGED <<built, actor, per, disk, index, given, did, host>>
      /\ stage' = [stage EXCEPT ![x] = Overlay(OrderOf(x))]
  BY DEF StageTree, OrderOf
<1>2. Past' /\ LostOnlyIfDisputed'
  BY <1>1, PastSame
<1>3. actor \in Pkg \cup {Rootfs}
  BY <1>1 DEF TreesTypeOK, Turn
<1>4. Closed(x) \subseteq ClosureOf(actor)
  BY <1>1, <1>3, DirectClosed
<1>5. x \in Closed(x)
  BY DEF Closed
<1>6. built[x] # Nothing
  BY <1>3, <1>4, <1>5, ValuesAssumption DEF Turn
<1>7. \A q \in Closed(x) : per[q] = Unpacked(q)
  BY <1>1, <1>4 DEF Staging
<1>8. \A q \in Closed(x), f \in Path :
        built[q].delta[f] # Absent => disk[<<q, f>>] = built[q].delta[f].data
  BY <1>1, <1>4 DEF Seeded
<1>9. Overlay(OrderOf(x)) \in WorkTree /\ Restored(x, Overlay(OrderOf(x)))
  BY <1>6, <1>7, <1>8, OverlayRestores
<1> DEFINE t == Overlay(OrderOf(x))
<1>10. stage' = [stage EXCEPT ![x] = t]
  BY <1>1
<1> HIDE DEF t
<1>11. TreesTypeOK'
  <2>1. stage' \in [Pkg -> WorkTree \cup {Absent}]
    BY <1>9, <1>10 DEF TreesTypeOK, t
  <2> QED
    BY <1>1, <2>1 DEF TreesTypeOK
<1>12. Turn' /\ Seeded'
  BY <1>1 DEF Turn, Seeded, ClosureOf
<1>13. Staging'
  <2>1. (\A q \in ClosureOf(actor) : per[q] = Unpacked(q))'
    BY <1>1, UnpackedSame DEF Staging, ClosureOf
  <2>2. ASSUME NEW y \in DirectOf(actor), stage'[y] # Absent
        PROVE  Restored(y, stage'[y])
    <3>1. y \in Pkg
      BY <1>3, ClosureType
    <3>2. CASE y = x
      BY <1>9, <1>10, <3>2 DEF TreesTypeOK, t
    <3>3. CASE y # x
      BY <1>1, <1>10, <2>2, <3>1, <3>3 DEF TreesTypeOK, Staging
    <3> QED
      BY <3>2, <3>3
  <2>3. (\A y \in DirectOf(actor) : stage[y] # Absent => Restored(y, stage[y]))'
    BY <1>1, <2>2, RestoredSame DEF DirectOf
  <2> QED
    BY <2>1, <2>3 DEF Staging
<1>14. Overlaid' /\ IndexKnows' /\ IndexComplete' /\ Making' /\ HostToolsKept' /\ OnlyOwnWork'
  BY <1>1 DEF Overlaid, IndexKnows, IndexComplete, Making, HostToolsKept, OnlyOwnWork
<1> QED
  BY <1>2, <1>11, <1>12, <1>13, <1>14

LEMMA KnownSwapTrees ==
  ASSUME Known, SwapTrees
  PROVE  Known'
<1> USE DEF Known
<1>1. /\ phase = "unpacked" /\ phase' = "overlaid"
      /\ \A x \in DirectOf(actor) : stage[x] # Absent
      /\ UNCHANGED <<built, actor, disk, stage, index, given, did, host>>
      /\ per' = [x \in Pkg |-> IF x \in DirectOf(actor) THEN stage[x] ELSE per[x]]
  BY DEF SwapTrees
<1>2. Past' /\ LostOnlyIfDisputed'
  BY <1>1, PastSame
<1>3. actor \in Pkg \cup {Rootfs}
  BY <1>1 DEF TreesTypeOK, Turn
<1>4. DirectOf(actor) \subseteq Pkg
  BY <1>3, ClosureType
<1>5. TreesTypeOK'
  <2>1. per' \in [Pkg -> WorkTree]
    BY <1>1, <1>4 DEF TreesTypeOK
  <2> QED
    BY <1>1, <2>1 DEF TreesTypeOK, Phases
<1>6. Turn' /\ Seeded'
  BY <1>1 DEF Turn, Seeded, ClosureOf
<1>7. Overlaid'
  <2>1. \A x \in DirectOf(actor) : Restored(x, per'[x])
    BY <1>1, <1>4 DEF Staging
  <2> QED
    BY <1>1, <2>1, RestoredSame DEF Overlaid, DirectOf
<1>8. Staging' /\ IndexKnows' /\ IndexComplete' /\ Making' /\ HostToolsKept' /\ OnlyOwnWork'
  BY <1>1 DEF Staging, IndexKnows, IndexComplete, Making, HostToolsKept, OnlyOwnWork
<1> QED
  BY <1>2, <1>5, <1>6, <1>7, <1>8

LEMMA KnownIndex ==
  ASSUME Known, Index
  PROVE  Known'
<1> USE DEF Known
<1> DEFINE found(f) == {per[d][f] : d \in DirectOf(actor)} \ {Absent}
           files(f) == {e.ino : e \in {g \in found(f) : g.kind = "file"}}
           links(f) == {e.data : e \in {g \in found(f) : g.kind = "link"}}
<1>1. /\ phase = "overlaid" /\ phase' = "indexed"
      /\ actor \in Pkg
      /\ UNCHANGED <<built, actor, per, disk, stage, given, did, host>>
      /\ index' = [f \in Path |-> [files |-> files(f), links |-> links(f)]]
  BY DEF Index
<1>2. Past' /\ LostOnlyIfDisputed'
  BY <1>1, PastSame
<1>3. DirectOf(actor) = ToSet(Deps[actor]) /\ ToSet(Deps[actor]) \subseteq Pkg
  BY <1>1, DepsBelow, ValuesAssumption DEF DirectOf
<1>4. actor # Nothing
  BY <1>1, ValuesAssumption
<1>5. \A f \in Path : \A e \in found(f) :
        \E d \in ToSet(Deps[actor]) : per[d][f] = e /\ e # Absent
  BY <1>3
<1>6. \A d \in ToSet(Deps[actor]), f \in Path : per[d][f] # Absent => per[d][f] \in found(f)
  BY <1>3
<1> HIDE DEF found
<1>7. ASSUME NEW f \in Path, NEW d \in ToSet(Deps[actor]), per[d][f] # Absent
      PROVE  \E y \in Closed(d) :
               /\ built[y].delta[f] = Seen(per[d][f])
               /\ per[d][f].kind = "file" => per[d][f].ino = <<y, f>> /\ disk[<<y, f>>] \in Data
               /\ per[d][f].kind # "file" => per[d][f].kind = "link" /\ per[d][f].data \in Data
                                        /\ per[d][f] = [kind |-> "link", data |-> per[d][f].data]
  <2>1. Restored(d, per[d])
    BY <1>1, <1>3 DEF Overlaid
  <2> QED
    BY <1>1, <1>3, <1>4, <1>7, <2>1, RestoredEntry
<1>8. \A f \in Path : \A i \in files(f) : \E y \in ToSet(Below[actor]) : i = <<y, f>>
  <2> TAKE f \in Path
  <2> TAKE i \in files(f)
  <2>1. PICK e \in found(f) : e.kind = "file" /\ i = e.ino
    OBVIOUS
  <2>2. PICK d \in ToSet(Deps[actor]) : per[d][f] = e /\ e # Absent
    BY <1>5
  <2>3. PICK y \in Closed(d) : e.ino = <<y, f>>
    BY <1>7, <2>1, <2>2
  <2>4. y \in ToSet(Below[actor])
    BY <1>1, DepsBelow
  <2> QED
    BY <2>1, <2>3, <2>4
<1>9. \A f \in Path : \A l \in links(f) :
        \E d \in ToSet(Deps[actor]) :
          l \in Data /\ per[d][f] = [kind |-> "link", data |-> l]
  <2> TAKE f \in Path
  <2> TAKE l \in links(f)
  <2>1. PICK e \in found(f) : e.kind = "link" /\ l = e.data
    OBVIOUS
  <2>2. PICK d \in ToSet(Deps[actor]) : per[d][f] = e /\ e # Absent
    BY <1>5
  <2>3. e.data \in Data /\ e = [kind |-> "link", data |-> e.data]
    BY <1>7, <2>1, <2>2
  <2> QED
    BY <2>1, <2>2, <2>3
<1>10. \A d \in ToSet(Deps[actor]), f \in Path : per[d][f] # Absent =>
         IF per[d][f].kind = "file" THEN per[d][f].ino \in files(f) ELSE per[d][f].data \in links(f)
  <2> TAKE d \in ToSet(Deps[actor]), f \in Path
  <2> SUFFICES ASSUME per[d][f] # Absent
               PROVE IF per[d][f].kind = "file" THEN per[d][f].ino \in files(f) ELSE per[d][f].data \in links(f)
    OBVIOUS
  <2>1. per[d][f] \in found(f)
    BY <1>6
  <2>2. per[d][f].kind \in {"file", "link"}
    BY <1>7
  <2> QED
    BY <2>1, <2>2
<1> HIDE DEF files, links
<1>11. \A f \in Path : index'[f].files = files(f) /\ index'[f].links = links(f)
  BY <1>1
<1>12. TreesTypeOK'
  <2>1. \A f \in Path : files(f) \subseteq Inode /\ links(f) \subseteq Data
    <3> TAKE f \in Path
    <3>1. \A i \in files(f) : i \in Inode
      BY <1>1, <1>8, ClosedType DEF Inode
    <3> QED
      BY <1>9, <3>1
  <2>2. index' \in [Path -> [files : SUBSET Inode, links : SUBSET Data]]
    BY <1>1, <2>1
  <2> QED
    BY <1>1, <2>2 DEF TreesTypeOK, Phases
<1>13. Turn' /\ Seeded'
  BY <1>1 DEF Turn, Seeded, ClosureOf
<1>14. Overlaid'
  <2>1. \A x \in DirectOf(actor) : Restored(x, per[x])
    BY <1>1 DEF Overlaid
  <2> QED
    BY <1>1, <2>1, RestoredSame DEF Overlaid, DirectOf
<1>15. IndexKnows'
  <2>1. ASSUME NEW f \in Path, CleanIn(ToSet(Below[actor]), f), NEW l \in links(f)
        PROVE  \E d \in ToSet(Deps[actor]) : built[d].tree[f] = [kind |-> "link", data |-> l]
    <3>1. PICK d \in ToSet(Deps[actor]) : per[d][f] = [kind |-> "link", data |-> l] /\ l \in Data
      BY <1>9, <2>1
    <3>2. CleanIn(Closed(d), f)
      BY <1>1, <2>1, DepsBelow DEF CleanIn
    <3>3. Restored(d, per[d])
      BY <1>1, <1>3 DEF Overlaid
    <3>4. Seen(per[d][f]) = built[d].tree[f]
      BY <3>2, <3>3 DEF Restored
    <3>5. per[d][f] # Absent
      BY <3>1, ContentIs DEF Content
    <3>6. Seen(per[d][f]) = [kind |-> "link", data |-> l]
      BY <3>1, <3>5 DEF Seen
    <3> QED
      BY <3>4, <3>6
  <2>2. ASSUME NEW f \in Path
        PROVE  /\ \A i \in index'[f].files : \E y \in ToSet(Below[actor]) : i = <<y, f>>
               /\ CleanIn(ToSet(Below[actor]), f)' =>
                    \A l \in index'[f].links :
                      \E d \in ToSet(Deps[actor]) : built[d].tree[f] = [kind |-> "link", data |-> l]
    <3>1. (CleanIn(ToSet(Below[actor]), f))' <=> CleanIn(ToSet(Below[actor]), f)
      BY <1>1, CleanSame
    <3> QED
      BY <1>8, <1>11, <2>1, <3>1
  <2> QED
    BY <1>1, <2>2 DEF IndexKnows
<1>16. IndexComplete'
  BY <1>1, <1>10, <1>11 DEF IndexComplete, InIndex
<1>17. Staging' /\ Making' /\ HostToolsKept' /\ OnlyOwnWork'
  BY <1>1 DEF Staging, Making, HostToolsKept, OnlyOwnWork
<1> QED
  BY <1>2, <1>12, <1>13, <1>14, <1>15, <1>16, <1>17

LEMMA KnownMerge ==
  ASSUME Known, Merge
  PROVE  Known'
<1> USE DEF Known
<1> DEFINE s == Deps[actor]
           n == Len(s)
           tree == Overlay(s)
<1>1. /\ phase = "indexed" /\ phase' = "making"
      /\ UNCHANGED <<built, actor, disk, stage, index, did, host>>
      /\ per' = [per EXCEPT ![actor] = tree]
      /\ given' = Holds(tree)
  BY DEF Merge
<1>2. Past' /\ LostOnlyIfDisputed'
  BY <1>1, PastSame
<1>3. actor \in Pkg /\ did = <<>>
  BY <1>1 DEF Turn
<1>4. DirectOf(actor) = ToSet(s) /\ ToSet(s) \subseteq Pkg
  BY <1>3, DepsBelow, ValuesAssumption DEF DirectOf
<1>5. /\ n \in Nat
      /\ \A v \in ToSet(s) : \E i \in 1..n : s[i] = v
      /\ \A i \in 1..n : s[i] \in ToSet(s)
  <2>1. s \in Seq(Pkg)
    BY <1>3, ClosuresGiven
  <2> HIDE DEF s
  <2> QED
    BY <2>1, ToSetIs
<1>6. tree = OverlayOf(per, s)
  BY DEF Overlay
<1> HIDE DEF s
<1>7. ASSUME NEW d \in ToSet(s), NEW f \in Path
      PROVE  /\ Seen(per[d][f]) \in Content \cup {Absent}
             /\ per[d][f] # Absent => Seen(per[d][f]) # Absent
             /\ per[d][f] # Absent =>
                  \E y \in Closed(d) :
                    /\ built[y].delta[f] = Seen(per[d][f])
                    /\ per[d][f].kind = "file" => per[d][f].ino = <<y, f>> /\ disk[<<y, f>>] \in Data
                    /\ per[d][f].kind # "file" => per[d][f].kind = "link" /\ per[d][f].data \in Data
                                               /\ per[d][f] = [kind |-> "link", data |-> per[d][f].data]
  <2>1. Restored(d, per[d]) /\ actor # Nothing
    BY <1>1, <1>3, <1>4, ValuesAssumption DEF Overlaid
  <2> QED
    BY <1>1, <1>4, <2>1, RestoredEntry
<1>8. tree \in WorkTree
  <2>1. \A i \in 1..n : per[s[i]] \in [Path -> Entry \cup {Absent}]
    BY <1>4, <1>5 DEF TreesTypeOK, WorkTree
  <2>2. OverlayOf(per, s) \in [Path -> Entry \cup {Absent}]
    BY <1>5, <2>1, OverlayType
  <2> QED
    BY <1>6, <2>2 DEF WorkTree
<1>9. ASSUME NEW f \in Path
      PROVE  /\ tree[f] # Absent => \E d \in ToSet(s) : tree[f] = per[d][f]
             /\ tree[f] = Absent => \A d \in ToSet(s) : per[d][f] = Absent
  <2>1. \A i \in 1..n : per[s[i]][f] # Absent => Seen(per[s[i]][f]) # Absent
    BY <1>5, <1>7
  <2>2. Laid(per, s, f, n, tree)
    BY <1>5, <1>6, <2>1, OverlayLaid
  <2> HIDE DEF tree, n
  <2>3. tree[f] # Absent => \E i \in 1..n : tree[f] = per[s[i]][f]
    BY <2>2 DEF Laid
  <2>4. tree[f] = Absent => \A i \in 1..n : per[s[i]][f] = Absent
    BY <2>2 DEF Laid
  <2> QED
    BY <1>5, <2>3, <2>4
<1> HIDE DEF tree, n
<1>10. \A f \in Path : given'[f] = Seen(tree[f])
  BY <1>1, HoldsIs
<1>11. \A f \in Path : Seen(tree[f]) \in Content \cup {Absent} /\ (tree[f] # Absent => Seen(tree[f]) # Absent)
  <2>1. Seen(Absent) = Absent
    BY DEF Seen
  <2> QED
    BY <1>7, <1>9, <2>1
<1>12. TreesTypeOK'
  <2>1. given' \in Tree
    <3>1. given' = [f \in Path |-> given'[f]]
      BY <1>1 DEF Holds
    <3> QED
      BY <1>10, <1>11, <3>1 DEF Tree
  <2>2. per' \in [Pkg -> WorkTree]
    BY <1>1, <1>3, <1>8 DEF TreesTypeOK
  <2> QED
    BY <1>1, <2>1, <2>2 DEF TreesTypeOK, Phases
<1>13. Turn'
  BY <1>1, <1>3 DEF Turn, ClosureOf
<1>14. IndexKnows'
  <2>1. \A f \in Path : CleanIn(ToSet(Below[actor]), f)' <=> CleanIn(ToSet(Below[actor]), f)
    BY <1>1, CleanSame
  <2> QED
    BY <1>1, <2>1 DEF IndexKnows
<1>15. GivenFrom(actor, given')
  <2>1. ASSUME NEW f \in Path, given'[f] # Absent
        PROVE  \E y \in ToSet(Below[actor]) : built[y].delta[f] = given'[f]
    <3>1. tree[f] # Absent
      BY <1>10, <2>1 DEF Seen
    <3>2. PICK d \in ToSet(s) : tree[f] = per[d][f]
      BY <1>9, <3>1
    <3>3. PICK y \in Closed(d) : built[y].delta[f] = Seen(per[d][f])
      BY <1>7, <3>1, <3>2
    <3>4. y \in ToSet(Below[actor])
      BY <1>3, DepsBelow DEF s
    <3> QED
      BY <1>10, <3>2, <3>3, <3>4
  <2>2. ASSUME NEW f \in Path, CleanIn(ToSet(Below[actor]), f), NEW d \in ToSet(s)
        PROVE  Seen(per[d][f]) = built[d].tree[f]
    <3>1. CleanIn(Closed(d), f)
      BY <1>3, <2>2, DepsBelow DEF CleanIn, s
    <3>2. Restored(d, per[d])
      BY <1>1, <1>4 DEF Overlaid
    <3> QED
      BY <3>1, <3>2 DEF Restored
  <2>3. ASSUME NEW f \in Path, CleanIn(ToSet(Below[actor]), f), given'[f] = Absent
        PROVE  \A d \in ToSet(s) : built[d].tree[f] = Absent
    <3>1. tree[f] = Absent
      BY <1>10, <1>11, <2>3
    <3>2. \A d \in ToSet(s) : Seen(per[d][f]) = Absent
      BY <1>9, <3>1 DEF Seen
    <3> QED
      BY <2>2, <2>3, <3>2
  <2>4. ASSUME NEW f \in Path, CleanIn(ToSet(Below[actor]), f), given'[f] # Absent
        PROVE  \E d \in ToSet(s) : built[d].tree[f] = given'[f]
    <3>1. tree[f] # Absent
      BY <1>10, <2>4 DEF Seen
    <3>2. PICK d \in ToSet(s) : tree[f] = per[d][f]
      BY <1>9, <3>1
    <3> QED
      BY <1>10, <2>2, <2>4, <3>2
  <2> QED
    BY <2>1, <2>3, <2>4 DEF GivenFrom, s
<1>16. ASSUME NEW f \in Path
       PROVE  MakingAt(f)'
  <2>1. per'[actor] = tree
    BY <1>1, <1>3 DEF TreesTypeOK
  <2>2. ~Touched(f)'
    BY <1>1, <1>3 DEF Touched, ToSet
  <2>3. ASSUME tree[f] # Absent
        PROVE  /\ tree[f].kind = "file" => tree[f].ino \in index[f].files /\ disk[tree[f].ino] \in Data
               /\ tree[f].kind # "file" => tree[f].data \in index[f].links /\ Seen(tree[f]) = tree[f]
    <3>1. PICK d \in ToSet(s) : tree[f] = per[d][f]
      BY <1>9, <2>3
    <3>2. InIndex(f, per[d][f])
      BY <1>1, <2>3, <3>1 DEF IndexComplete, s
    <3>3. tree[f].kind = "file" => disk[tree[f].ino] \in Data
      BY <1>7, <2>3, <3>1
    <3> QED
      BY <2>3, <3>1, <3>2, <3>3 DEF InIndex, Seen
  <2>4. given'[f] = Seen(tree[f])
    BY <1>10
  <2>6. \A e : Seen(e)' = Seen(e)
    BY <1>1 DEF Seen
  <2>7. Seen(per[actor][f])' = Seen(tree[f])
    BY <1>1, <2>1, <2>6
  <2>8. given'[f] # Absent /\ given'[f].kind = "link" => given'[f].data \in index[f].links
    <3> SUFFICES ASSUME given'[f] # Absent, given'[f].kind = "link" PROVE given'[f].data \in index[f].links
      OBVIOUS
    <3>1. tree[f] # Absent
      BY <2>4 DEF Seen
    <3>2. tree[f].kind # "file"
      BY <2>4, <3>1 DEF Seen
    <3> QED
      BY <2>3, <2>4, <3>1, <3>2
  <2> QED
    BY <1>1, <2>1, <2>2, <2>3, <2>4, <2>7, <2>8 DEF MakingAt
<1>17. Making'
  BY <1>1, <1>15, <1>16, GivenSame DEF Making
<1>18. Seeded' /\ Staging' /\ Overlaid' /\ IndexComplete' /\ HostToolsKept' /\ OnlyOwnWork'
  BY <1>1 DEF Seeded, Staging, Overlaid, IndexComplete, HostToolsKept, OnlyOwnWork
<1> QED
  BY <1>2, <1>12, <1>13, <1>14, <1>17, <1>18

\* An install command disturbs the running package's tree, the files and did only.
LEMMA KnownCommand ==
  ASSUME Known, phase = "making",
         UNCHANGED <<built, actor, phase, stage, index, given, host>>,
         per' \in [Pkg -> WorkTree],
         disk' \in [Inode -> Data \cup {Absent}],
         did' \in Seq(Command), Len(did') <= MaxOps,
         \A g \in Path : MakingAt(g)'
  PROVE  Known'
<1> USE DEF Known
<1>1. Past' /\ LostOnlyIfDisputed'
  BY PastSame
<1>2. TreesTypeOK'
  BY DEF TreesTypeOK
<1>3. Turn'
  BY DEF Turn, ClosureOf
<1>4. IndexKnows'
  <2>1. \A f \in Path : CleanIn(ToSet(Below[actor]), f)' <=> CleanIn(ToSet(Below[actor]), f)
    BY CleanSame
  <2> QED
    BY <2>1 DEF IndexKnows
<1>5. Making'
  <2>1. GivenFrom(actor, given)
    BY DEF Making
  <2> QED
    BY <2>1, GivenSame DEF Making
<1>6. Seeded' /\ Staging' /\ Overlaid' /\ IndexComplete' /\ HostToolsKept' /\ OnlyOwnWork'
  BY DEF Seeded, Staging, Overlaid, IndexComplete, HostToolsKept, OnlyOwnWork
<1> QED
  BY <1>1, <1>2, <1>3, <1>4, <1>5, <1>6

\* No two paths of the running package's tree share a file.
LEMMA InodePath ==
  ASSUME Known, phase = "making", NEW g \in Path,
         per[actor][g] # Absent, per[actor][g].kind = "file"
  PROVE  \E q \in Pkg : per[actor][g].ino = <<q, g>>
<1>1. MakingAt(g) /\ actor \in Pkg
  BY DEF Known, Making, Turn
<1>2. CASE per[actor][g].ino = <<actor, g>>
  BY <1>1, <1>2
<1>3. CASE per[actor][g].ino \in index[g].files
  BY <1>1, <1>3, ClosedType DEF Known, IndexKnows
<1> QED
  BY <1>1, <1>2, <1>3 DEF MakingAt

LEMMA CommandNoted ==
  ASSUME Known, NEW op, NEW f \in Path, Installs(op, f)
  PROVE  /\ did' \in Seq(Command) /\ Len(did') <= MaxOps
         /\ \A g : Touched(g)' <=> Touched(g) \/ g = f
         /\ \A g : OnlyWrites(g)' <=> OnlyWrites(g) /\ (g = f => op = "write")
<1> DEFINE c == [op |-> op, path |-> f]
<1>1. op \in Ops /\ Len(did) < MaxOps /\ did' = Append(did, c) /\ did \in Seq(Command)
  BY DEF Installs, Known, TreesTypeOK
<1>2. c \in Command
  BY <1>1 DEF Command
<1>3. c.op = op /\ c.path = f
  OBVIOUS
<1> HIDE DEF c
<1>4. ToSet(did') = ToSet(did) \cup {c}
  BY <1>1, SetOfAppend
<1>5. did' \in Seq(Command) /\ Len(did') <= MaxOps
  BY <1>1, <1>2, ValuesAssumption
<1>6. \A g : Touched(g)' <=> Touched(g) \/ g = f
  BY <1>3, <1>4 DEF Touched
<1>7. \A g : OnlyWrites(g)' <=> OnlyWrites(g) /\ (g = f => op = "write")
  BY <1>3, <1>4 DEF OnlyWrites
<1> QED
  BY <1>5, <1>6, <1>7

\* The paths that a command at f leaves alone.
LEMMA ElsewhereSame ==
  ASSUME Known, phase = "making", NEW op, NEW f \in Path, Installs(op, f),
         UNCHANGED <<actor, index, given>>,
         NEW g \in Path, g # f,
         per'[actor][g] = per[actor][g],
         \A q \in Pkg : disk'[<<q, g>>] = disk[<<q, g>>]
  PROVE  MakingAt(g)'
<1> DEFINE e == per[actor][g]
<1>1. MakingAt(g)
  BY DEF Known, Making
<1>2. e # Absent /\ e.kind = "file" => disk'[e.ino] = disk[e.ino]
  BY InodePath
<1>3. Seen(per[actor][g])' = Seen(e)
  BY <1>2 DEF Seen
<1>4. (Touched(g)' <=> Touched(g)) /\ (OnlyWrites(g)' <=> OnlyWrites(g))
  BY CommandNoted
<1> QED
  BY <1>1, <1>2, <1>3, <1>4 DEF MakingAt

LEMMA KnownWrite ==
  ASSUME Known, NEW f \in Path, NEW c \in Content, Write(f, c)
  PROVE  Known'
<1> DEFINE e == IF c.kind = "file" THEN [kind |-> "file", ino |-> <<actor, f>>] ELSE c
<1>1. /\ phase = "making"
      /\ Installs("write", f)
      /\ per' = [per EXCEPT ![actor][f] = e]
      /\ disk' = IF c.kind = "file" THEN [disk EXCEPT ![<<actor, f>>] = c.data] ELSE disk
      /\ UNCHANGED <<built, actor, phase, stage, index, given, host>>
  BY DEF Write, Installs
<1>2. actor \in Pkg /\ per \in [Pkg -> WorkTree] /\ disk \in [Inode -> Data \cup {Absent}]
  BY <1>1 DEF Known, Turn, TreesTypeOK
<1>3. <<actor, f>> \in Inode
  BY <1>2 DEF Inode
<1>4. c.data \in Data /\ c.kind \in {"file", "link"} /\ c # Absent
  BY ContentIs
<1>5. /\ e \in Entry /\ e # Absent
      /\ e.kind = "file" => e.ino = <<actor, f>> /\ c.kind = "file"
  <2>1. CASE c.kind = "file"
    <3>1. e \in Entry
      BY <1>3, <2>1 DEF Entry
    <3> QED
      BY <2>1, <3>1, EntryIs
  <2>2. CASE c.kind # "file"
    <3>1. e \in Entry
      BY <1>4, <2>2 DEF Entry, Content
    <3> QED
      BY <1>4, <2>2, <3>1
  <2> QED
    BY <2>1, <2>2
<1> HIDE DEF e
<1>6. per' \in [Pkg -> WorkTree]
  BY <1>1, <1>2, <1>5 DEF WorkTree
<1>7. per'[actor][f] = e /\ \A g \in Path : g # f => per'[actor][g] = per[actor][g]
  BY <1>1, <1>2 DEF WorkTree
<1>8. disk' \in [Inode -> Data \cup {Absent}]
  BY <1>1, <1>2, <1>4
<1>9. \A q \in Pkg, g \in Path : g # f => disk'[<<q, g>>] = disk[<<q, g>>]
  BY <1>1, <1>2 DEF Inode
<1>10. c.kind = "file" => disk'[<<actor, f>>] \in Data
  BY <1>1, <1>2, <1>3, <1>4
<1>11. MakingAt(f)'
  <2>1. Touched(f)'
    BY <1>1, CommandNoted
  <2>2. MakingAt(f)
    BY <1>1 DEF Known, Making
  <2> QED
    BY <1>1, <1>5, <1>7, <1>10, <2>1, <2>2 DEF MakingAt
<1>12. \A g \in Path : MakingAt(g)'
  BY <1>1, <1>7, <1>9, <1>11, ElsewhereSame
<1> QED
  BY <1>1, <1>6, <1>8, <1>12, CommandNoted, KnownCommand

LEMMA KnownWriteInPlace ==
  ASSUME Known, NEW f \in Path, NEW d \in Data, WriteInPlace(f, d)
  PROVE  Known'
<1> DEFINE e == per[actor][f]
<1>1. /\ phase = "making"
      /\ Installs("inplace", f)
      /\ e # Absent /\ e.kind = "file"
      /\ disk' = [disk EXCEPT ![e.ino] = d]
      /\ UNCHANGED <<built, actor, phase, per, stage, index, given, host>>
  BY DEF WriteInPlace, Installs
<1>2. actor \in Pkg /\ per \in [Pkg -> WorkTree] /\ disk \in [Inode -> Data \cup {Absent}]
  BY <1>1 DEF Known, Turn, TreesTypeOK
<1>3. PICK p \in Pkg : e.ino = <<p, f>>
  BY <1>1, InodePath
<1>4. <<p, f>> \in Inode
  BY DEF Inode
<1>5. disk' \in [Inode -> Data \cup {Absent}]
  BY <1>1, <1>2
<1>6. \A q \in Pkg, g \in Path : g # f => disk'[<<q, g>>] = disk[<<q, g>>]
  BY <1>1, <1>2, <1>3 DEF Inode
<1>7. disk'[e.ino] \in Data
  BY <1>1, <1>2, <1>3, <1>4
<1>8. MakingAt(f)'
  <2>1. Touched(f)' /\ ~OnlyWrites(f)'
    BY <1>1, CommandNoted
  <2>2. MakingAt(f)
    BY <1>1 DEF Known, Making
  <2> QED
    BY <1>1, <1>7, <2>1, <2>2 DEF MakingAt
<1>9. \A g \in Path : MakingAt(g)'
  BY <1>1, <1>6, <1>8, ElsewhereSame
<1> QED
  BY <1>1, <1>2, <1>5, <1>9, CommandNoted, KnownCommand

LEMMA KnownDelete ==
  ASSUME Known, NEW f \in Path, Delete(f)
  PROVE  Known'
<1>1. /\ phase = "making"
      /\ Installs("remove", f)
      /\ per' = [per EXCEPT ![actor][f] = Absent]
      /\ UNCHANGED <<built, actor, phase, disk, stage, index, given, host>>
  BY DEF Delete, Installs
<1>2. actor \in Pkg /\ per \in [Pkg -> WorkTree] /\ disk \in [Inode -> Data \cup {Absent}]
  BY <1>1 DEF Known, Turn, TreesTypeOK
<1>3. per' \in [Pkg -> WorkTree]
  BY <1>1, <1>2 DEF WorkTree
<1>4. per'[actor][f] = Absent /\ \A g \in Path : g # f => per'[actor][g] = per[actor][g]
  BY <1>1, <1>2 DEF WorkTree
<1>5. MakingAt(f)'
  <2>1. Touched(f)' /\ ~OnlyWrites(f)'
    BY <1>1, CommandNoted
  <2>2. MakingAt(f)
    BY <1>1 DEF Known, Making
  <2> QED
    BY <1>1, <1>4, <2>1, <2>2 DEF MakingAt
<1>6. \A g \in Path : MakingAt(g)'
  BY <1>1, <1>4, <1>5, ElsewhereSame
<1> QED
  BY <1>1, <1>2, <1>3, <1>6, CommandNoted, KnownCommand

LEMMA KnownPack ==
  ASSUME Known, Pack
  PROVE  Known'
<1> USE DEF Known
<1> DEFINE tree == per[actor]
           own == {f \in Path : tree[f] # Absent /\ ~Inherited(f, tree[f])}
           delta == [f \in Path |-> IF f \in own THEN Holds(tree)[f] ELSE Absent]
           r == [tree |-> Holds(tree), given |-> given, did |-> did, delta |-> delta]
<1>1. /\ phase = "making" /\ phase' = "made"
      /\ UNCHANGED <<actor, per, disk, stage, index, given, did, host>>
      /\ built' = [built EXCEPT ![actor] = r]
  BY DEF Pack
<1>2. /\ r.tree = Holds(tree) /\ r.given = given /\ r.did = did /\ r.delta = delta
  OBVIOUS
<1>3. \A f \in Path : /\ f \in own <=> tree[f] # Absent /\ ~Inherited(f, tree[f])
                      /\ delta[f] = IF f \in own THEN Holds(tree)[f] ELSE Absent
  OBVIOUS
<1>4. actor \in Pkg /\ actor # Nothing /\ built[actor] = Nothing
  BY <1>1, ValuesAssumption DEF Turn
<1>5. \A f \in Path : MakingAt(f)
  BY <1>1 DEF Making
<1>6. /\ per[actor] \in [Path -> Entry \cup {Absent}]
      /\ given \in Tree /\ did \in Seq(Command)
      /\ built \in [Pkg -> [tree : Tree, given : Tree, delta : Tree, did : Seq(Command)] \cup {Nothing}]
  BY <1>4 DEF TreesTypeOK, WorkTree
<1>7. \A f \in Path : Holds(tree)[f] = Seen(tree[f])
  BY HoldsIs
<1>8. \A f \in Path : Seen(tree[f]) \in Content \cup {Absent} /\ (tree[f] # Absent => Seen(tree[f]) # Absent)
  <2> TAKE f \in Path
  <2>1. CASE tree[f] = Absent
    BY <2>1 DEF Seen
  <2>2. CASE tree[f] # Absent /\ tree[f].kind = "file"
    <3>1. disk[tree[f].ino] \in Data
      BY <1>5, <2>2 DEF MakingAt
    <3>2. Seen(tree[f]) \in Content
      BY <2>2, <3>1 DEF Seen, Content
    <3> QED
      BY <3>2, ContentIs
  <2>3. CASE tree[f] # Absent /\ tree[f].kind # "file"
    <3>1. tree[f] \in Entry
      BY <1>6, <2>3
    <3> QED
      BY <2>3, <3>1, EntryIs DEF Seen
  <2> QED
    BY <2>1, <2>2, <2>3
<1>9. Holds(tree) \in Tree
  <2>1. Holds(tree) = [f \in Path |-> Holds(tree)[f]]
    BY DEF Holds
  <2> QED
    BY <1>7, <1>8, <2>1 DEF Tree
<1>10. delta \in Tree
  <2>1. \A f \in Path : (IF f \in own THEN Holds(tree)[f] ELSE Absent) \in Content \cup {Absent}
    BY <1>7, <1>8
  <2> QED
    BY <2>1 DEF Tree
<1>11. r \in [tree : Tree, given : Tree, delta : Tree, did : Seq(Command)]
  <2> HIDE DEF tree, own, delta
  <2> QED
    BY <1>6, <1>9, <1>10
<1> HIDE DEF tree, own, delta, r
<1>13. built'[actor] = r /\ \A x \in Pkg : x # actor => built'[x] = built[x]
  BY <1>1, <1>4, <1>6
<1>14. \A x \in Pkg : built[x] # Nothing => x # actor /\ \A y \in ToSet(Below[x]) : y \in Pkg /\ y # actor /\ built[y] # Nothing
  <2> TAKE x \in Pkg
  <2> SUFFICES ASSUME built[x] # Nothing
               PROVE  x # actor /\ \A y \in ToSet(Below[x]) : y \in Pkg /\ y # actor /\ built[y] # Nothing
    OBVIOUS
  <2>1. \A y \in ToSet(Below[x]) : built[y] # Nothing
    BY DEF Past
  <2> QED
    BY <1>4, <2>1, ClosedType
<1>15. \A y \in ToSet(Below[actor]) : y \in Pkg /\ y # actor /\ built[y] # Nothing
  <2>1. ClosureOf(actor) = ToSet(Below[actor])
    BY <1>4, ValuesAssumption DEF ClosureOf
  <2> QED
    BY <1>4, <2>1, ClosedType DEF Turn
\* What was known of finished packages stays.
<1>16. ASSUME NEW y \in Pkg, built[y] # Nothing, NEW f
       PROVE  (Disputed(y, f)' <=> Disputed(y, f)) /\ (Lost(y, f)' <=> Lost(y, f))
  <2>1. built'[y] = built[y]
    BY <1>13, <1>14, <1>16
  <2>2. \A d \in ToSet(Deps[y]) : built'[d] = built[d]
    <3> TAKE d \in ToSet(Deps[y])
    <3>1. d \in Pkg /\ d \in ToSet(Below[y])
      BY DepsBelow DEF Closed
    <3> QED
      BY <1>13, <1>14, <1>16, <3>1
  <2> QED
    BY <2>1, <2>2 DEF Disputed, Lost
<1>17. ASSUME NEW x \in Pkg, \A y \in ToSet(Below[x]) : y \in Pkg /\ y # actor /\ built[y] # Nothing, NEW g
       PROVE  GivenFrom(x, g)' <=> GivenFrom(x, g)
  <2>1. \A f : CleanIn(ToSet(Below[x]), f)' <=> CleanIn(ToSet(Below[x]), f)
    BY <1>16, <1>17 DEF CleanIn
  <2>2. \A y \in ToSet(Below[x]) : built'[y] = built[y]
    BY <1>13, <1>17
  <2>3. \A d \in ToSet(Deps[x]) : d \in ToSet(Below[x])
    BY DepsBelow DEF Closed
  <2> QED
    BY <2>1, <2>2, <2>3 DEF GivenFrom
<1>18. Past'
  <2>1. ASSUME NEW x \in Pkg, built'[x] # Nothing, x # actor
        PROVE  /\ \A y \in ToSet(Below[x]) : built'[y] # Nothing
               /\ DeltaOf(x)'
               /\ GivenFrom(x, built[x].given)'
    <3>1. built'[x] = built[x] /\ built[x] # Nothing
      BY <1>13, <2>1
    <3>2. DeltaOf(x) /\ GivenFrom(x, built[x].given)
      BY <3>1 DEF Past
    <3>3. DeltaOf(x)'
      BY <3>1, <3>2 DEF DeltaOf
    <3>4. \A y \in ToSet(Below[x]) : y \in Pkg /\ y # actor /\ built[y] # Nothing
      BY <1>14, <3>1
    <3>5. GivenFrom(x, built[x].given)'
      BY <1>17, <3>1, <3>2, <3>4
    <3>6. \A y \in ToSet(Below[x]) : built'[y] # Nothing
      BY <1>13, <3>4
    <3> QED
      BY <3>3, <3>5, <3>6
  <2>2. \A y \in ToSet(Below[actor]) : built'[y] # Nothing
    BY <1>13, <1>15
  <2>3. DeltaOf(actor)'
    BY <1>1, <1>2, <1>3, <1>13 DEF DeltaOf
  <2>4. GivenFrom(actor, built[actor].given)'
    <3>1. built'[actor].given = given
      BY <1>2, <1>13
    <3>2. GivenFrom(actor, given)
      BY <1>1 DEF Making
    <3>3. GivenFrom(actor, given)' <=> GivenFrom(actor, given)
      BY <1>1, <1>4, <1>15, <1>17
    <3> QED
      BY <1>1, <3>1, <3>2, <3>3
  <2> QED
    BY <1>1, <2>1, <2>2, <2>3, <2>4 DEF Past
\* The heart of it: where commands only create and nothing was disputed, what differs
\* from what the merge gave is in the delta.
<1>19. ASSUME NEW f \in Path, delta[f] = Absent, Seen(tree[f]) # given[f],
              CleanIn(ToSet(Below[actor]), f), OnlyWrites(f),
              \A d, e \in ToSet(Deps[actor]) :
                Absent \notin {built[d].tree[f], built[e].tree[f]} => built[d].tree[f] = built[e].tree[f]
       PROVE  FALSE
  <2>1. Touched(f)
    BY <1>5, <1>19 DEF MakingAt, tree
  <2>2. tree[f] # Absent /\ (tree[f].kind = "file" => tree[f].ino = <<actor, f>>)
    BY <1>5, <1>19, <2>1 DEF MakingAt, tree
  <2>3. Inherited(f, tree[f])
    BY <1>3, <1>7, <1>8, <1>19, <2>2
  <2>4. tree[f].kind # "file"
    <3> SUFFICES ASSUME tree[f].kind = "file" PROVE FALSE
      OBVIOUS
    <3>1. <<actor, f>> \in index[f].files
      BY <2>2, <2>3 DEF Inherited
    <3>2. \E y \in ToSet(Below[actor]) : <<actor, f>> = <<y, f>>
      BY <1>1, <3>1 DEF IndexKnows
    <3> QED
      BY <1>15, <3>2
  <2>5. tree[f].data \in index[f].links
    BY <2>3, <2>4 DEF Inherited
  <2>6. PICK d \in ToSet(Deps[actor]) : built[d].tree[f] = [kind |-> "link", data |-> tree[f].data]
    BY <1>1, <1>19, <2>5 DEF IndexKnows
  <2>7. tree[f] \in [kind : {"link"}, data : Data]
    BY <1>6, <2>2, <2>4 DEF Entry, tree
  <2>8. tree[f] = [kind |-> "link", data |-> tree[f].data] /\ Seen(tree[f]) = tree[f]
    BY <2>2, <2>4, <2>7 DEF Seen
  <2>9. built[d].tree[f] = Seen(tree[f]) /\ Seen(tree[f]) # Absent
    BY <2>2, <2>6, <2>8
  <2>10. GivenFrom(actor, given)
    BY <1>1 DEF Making
  <2>11. given[f] # Absent
    BY <1>19, <2>9, <2>10 DEF GivenFrom
  <2>12. PICK e \in ToSet(Deps[actor]) : built[e].tree[f] = given[f]
    BY <1>19, <2>10, <2>11 DEF GivenFrom
  <2> QED
    BY <1>19, <2>9, <2>11, <2>12
<1>20. LostOnlyIfDisputed'
  <2>1. ASSUME NEW p \in Pkg, p # actor, NEW f \in Path, built'[p] # Nothing, Lost(p, f)'
        PROVE  \E y \in Closed(p) : Disputed(y, f)' \/ \E c \in ToSet(built'[y].did) : c.path = f /\ c.op # "write"
    <3>1. built[p] # Nothing
      BY <1>13, <2>1
    <3>2. Lost(p, f)
      BY <1>16, <2>1, <3>1
    <3>3. PICK y \in Closed(p) : Disputed(y, f) \/ \E c \in ToSet(built[y].did) : c.path = f /\ c.op # "write"
      BY <3>1, <3>2 DEF LostOnlyIfDisputed
    <3>4. y \in Pkg /\ built[y] # Nothing /\ y # actor
      BY <1>14, <2>1, <3>1 DEF Closed
    <3> QED
      BY <1>13, <1>16, <3>3, <3>4
  <2>2. ASSUME NEW f \in Path, Lost(actor, f)',
               ~ \E y \in Closed(actor) : Disputed(y, f)' \/ \E c \in ToSet(built'[y].did) : c.path = f /\ c.op # "write"
        PROVE  FALSE
    <3>1. delta[f] = Absent /\ Seen(tree[f]) # given[f]
      BY <1>1, <1>2, <1>7, <1>13, <2>2 DEF Lost
    <3>2. \A y \in ToSet(Below[actor]) :
            ~Disputed(y, f) /\ \A c \in ToSet(built[y].did) : c.path = f => c.op = "write"
      <4> TAKE y \in ToSet(Below[actor])
      <4>1. y \in Pkg /\ y # actor /\ built[y] # Nothing /\ built'[y] = built[y]
        BY <1>13, <1>15
      <4>2. y \in Closed(actor)
        BY DEF Closed
      <4> QED
        BY <1>16, <2>2, <4>1, <4>2
    <3>3. CleanIn(ToSet(Below[actor]), f)
      <4>1. ASSUME NEW y \in ToSet(Below[actor]), Lost(y, f) PROVE FALSE
        <5>1. y \in Pkg /\ built[y] # Nothing
          BY <1>15
        <5>2. PICK z \in Closed(y) : Disputed(z, f) \/ \E c \in ToSet(built[z].did) : c.path = f /\ c.op # "write"
          BY <4>1, <5>1 DEF LostOnlyIfDisputed
        <5>3. PICK d \in ToSet(Deps[actor]) : y \in Closed(d)
          BY <1>4, BelowDeps
        <5>4. z \in ToSet(Below[actor])
          BY <1>4, <5>2, <5>3, ClosedMonotonic, DepsBelow
        <5> QED
          BY <3>2, <5>2, <5>4
      <4> QED
        BY <3>2, <4>1 DEF CleanIn
    <3>4. actor \in Closed(actor)
      BY DEF Closed
    <3>5. OnlyWrites(f)
      <4>1. built'[actor].did = did
        BY <1>2, <1>13
      <4> QED
        BY <2>2, <3>4, <4>1 DEF OnlyWrites
    <3>6. ~Disputed(actor, f)'
      BY <1>1, <2>2, <3>4
    <3>7. \A d \in ToSet(Deps[actor]) : built'[d] = built[d]
      <4> TAKE d \in ToSet(Deps[actor])
      <4>1. d \in ToSet(Below[actor])
        BY <1>4, DepsBelow DEF Closed
      <4> QED
        BY <1>13, <1>15, <4>1
    <3>8. built'[actor].delta[f] = Absent
      BY <1>2, <1>13, <3>1
    <3>9. \A d, e \in ToSet(Deps[actor]) :
            Absent \notin {built[d].tree[f], built[e].tree[f]} => built[d].tree[f] = built[e].tree[f]
      BY <1>1, <3>6, <3>7, <3>8 DEF Disputed
    <3> QED
      BY <1>19, <3>1, <3>3, <3>5, <3>9
  <2>3. ASSUME NEW f \in Path, Lost(actor, f)'
        PROVE  \E y \in Closed(actor) : Disputed(y, f)' \/ \E c \in ToSet(built'[y].did) : c.path = f /\ c.op # "write"
    BY <2>2, <2>3
  <2> QED
    BY <1>1, <2>1, <2>3 DEF LostOnlyIfDisputed
<1>21. OnlyOwnWork'
  <2>1. ASSUME NEW f \in Path, delta[f] # Absent
        PROVE  IF tree[f].kind = "file" THEN tree[f].ino = <<actor, f>> ELSE delta[f] # given[f]
    <3>1. tree[f] # Absent /\ ~Inherited(f, tree[f]) /\ delta[f] = Seen(tree[f])
      BY <1>3, <1>7, <2>1
    <3>2. CASE tree[f].kind = "file"
      BY <1>5, <3>1, <3>2 DEF MakingAt, Inherited, tree
    <3>3. CASE tree[f].kind # "file"
      <4>1. tree[f].kind = "link" /\ Seen(tree[f]) = tree[f]
        BY <1>6, <3>1, <3>3, EntryIs DEF Seen, tree
      <4>2. tree[f].data \notin index[f].links
        BY <3>1, <3>3 DEF Inherited
      <4> QED
        BY <1>5, <3>1, <3>3, <4>1, <4>2 DEF MakingAt
    <3> QED
      BY <3>2, <3>3
  <2>2. built'[actor].delta = delta
    BY <1>2, <1>13
  <2> QED
    BY <1>1, <2>1, <2>2 DEF OnlyOwnWork, tree
<1>22. TreesTypeOK'
  <2>1. built' \in [Pkg -> [tree : Tree, given : Tree, delta : Tree, did : Seq(Command)] \cup {Nothing}]
    BY <1>1, <1>4, <1>6, <1>11
  <2> QED
    BY <1>1, <2>1 DEF TreesTypeOK, Phases
<1>23. Turn'
  <2>1. \A q \in ClosureOf(actor) : built'[q] # Nothing
    BY <1>4, <1>13, <1>15, ValuesAssumption DEF ClosureOf
  <2>2. ClosureOf(actor)' = ClosureOf(actor)
    BY <1>1 DEF ClosureOf
  <2> QED
    BY <1>1, <1>4, <2>1, <2>2 DEF Turn
<1>24. Seeded' /\ Staging' /\ Overlaid' /\ IndexKnows' /\ IndexComplete' /\ Making' /\ HostToolsKept'
  BY <1>1 DEF Seeded, Staging, Overlaid, IndexKnows, IndexComplete, Making, HostToolsKept
<1> QED
  BY <1>18, <1>20, <1>21, <1>22, <1>23, <1>24

LEMMA KnownMergeHost ==
  ASSUME Known, MergeHost
  PROVE  Known'
<1> USE DEF Known
<1> DEFINE t == [y \in Pkg |-> Unpacked(y)]
           n == Len(ByName)
           h == OverlayOf(t, ByName)
<1>1. /\ phase = "overlaid" /\ phase' = "hosted" /\ actor = Rootfs
      /\ UNCHANGED <<built, actor, per, disk, stage, index, given, did>>
      /\ host' = h
  BY DEF MergeHost
<1>2. Past' /\ LostOnlyIfDisputed'
  BY <1>1, PastSame
<1>3. \A x \in Pkg : built[x] # Nothing
  BY <1>1, ValuesAssumption DEF Turn, ClosureOf
<1>4. \A y \in Pkg : t[y] = Unpacked(y)
  OBVIOUS
<1>5. /\ n \in Nat
      /\ \A v \in Pkg : \E i \in 1..n : ByName[i] = v
      /\ \A i \in 1..n : ByName[i] \in Pkg
  BY ClosuresGiven, ToSetIs
<1> HIDE DEF t, n, h
<1>6. ASSUME NEW y \in Pkg, NEW f \in Path
      PROVE  /\ Seen(t[y][f]) = built[y].delta[f]
             /\ t[y][f] = Absent <=> built[y].delta[f] = Absent
  <2>1. built[y].delta[f] # Absent => disk[<<y, f>>] = built[y].delta[f].data
    BY <1>1 DEF Seeded, ClosureOf
  <2> QED
    BY <1>3, <1>4, <2>1, SeenUnpacked, UnpackedIs
<1>7. h \in WorkTree
  <2>1. \A i \in 1..n : t[ByName[i]] \in [Path -> Entry \cup {Absent}]
    BY <1>3, <1>4, <1>5, UnpackedIs DEF WorkTree
  <2>2. OverlayOf(t, ByName) \in [Path -> Entry \cup {Absent}]
    BY <1>5, <2>1, OverlayType DEF n
  <2> QED
    BY <2>2 DEF WorkTree, h
<1>8. ASSUME NEW f \in Path
      PROVE  /\ h[f] = Absent \/ \E z \in Pkg : h[f] = t[z][f]
             /\ (\E z \in Pkg : t[z][f] # Absent) => h[f] # Absent
  <2>1. \A i \in 1..n : t[ByName[i]][f] # Absent => Seen(t[ByName[i]][f]) # Absent
    BY <1>5, <1>6
  <2>2. Laid(t, ByName, f, n, h)
    BY <1>5, <2>1, OverlayLaid DEF n, h
  <2>3. h[f] = Absent \/ \E i \in 1..n : h[f] = t[ByName[i]][f]
    BY <2>2 DEF Laid
  <2>4. (\E i \in 1..n : t[ByName[i]][f] # Absent) => h[f] # Absent
    BY <2>2 DEF Laid
  <2> QED
    BY <1>5, <2>3, <2>4
<1>9. ASSUME NEW x \in Pkg, NEW f \in Path, built[x].tree[f] # Absent, ~Contested(f),
             \A y \in Closed(x) : ~Lost(y, f)
      PROVE  Seen(h[f]) = built[x].tree[f]
  <2>1. x \in Closed(x)
    BY DEF Closed
  <2>2. PICK y \in Closed(x) : built[y].delta[f] = built[x].tree[f]
    BY <1>3, <1>9, <2>1, SomeDelta
  <2>3. y \in Pkg
    BY ClosedType
  <2>4. t[y][f] # Absent
    BY <1>6, <1>9, <2>2, <2>3
  <2>5. PICK z \in Pkg : h[f] = t[z][f] /\ t[z][f] # Absent
    BY <1>8, <2>3, <2>4
  <2>6. Seen(h[f]) = built[z].delta[f] /\ built[z].delta[f] # Absent
    BY <1>6, <2>5
  <2> QED
    BY <1>9, <2>2, <2>3, <2>6 DEF Contested
<1>10. HostToolsKept'
  <2>1. \A f \in Path : Holds(host)'[f] = Seen(h[f])
    BY <1>1 DEF Holds, Seen
  <2>2. \A y, f : Lost(y, f)' <=> Lost(y, f)
    BY <1>1 DEF Lost
  <2>3. \A f : Contested(f)' <=> Contested(f)
    BY <1>1 DEF Contested
  <2> QED
    BY <1>1, <1>9, <2>1, <2>2, <2>3 DEF HostToolsKept
<1>11. TreesTypeOK'
  BY <1>1, <1>7 DEF TreesTypeOK, Phases
<1>12. Turn' /\ Seeded'
  BY <1>1, ValuesAssumption DEF Turn, Seeded, ClosureOf
<1>13. Staging' /\ Overlaid' /\ IndexKnows' /\ IndexComplete' /\ Making' /\ OnlyOwnWork'
  BY <1>1 DEF Staging, Overlaid, IndexKnows, IndexComplete, Making, OnlyOwnWork
<1> QED
  BY <1>2, <1>10, <1>11, <1>12, <1>13

LEMMA KnownLeave ==
  ASSUME Known, Leave
  PROVE  Known'
<1> USE DEF Known
<1>1. /\ built' = built /\ actor' = Nothing /\ phase' = "idle"
      /\ per' = [p \in Pkg |-> Bare]
      /\ disk' = [i \in Inode |-> Absent]
      /\ stage' = [p \in Pkg |-> Absent]
      /\ index' = [f \in Path |-> [files |-> {}, links |-> {}]]
      /\ host' = Bare /\ given' = Bare /\ did' = <<>>
  BY DEF Leave
<1>2. Past' /\ LostOnlyIfDisputed'
  BY <1>1, PastSame
<1>3. Bare \in WorkTree /\ Bare \in Tree
  BY DEF Bare, WorkTree, Tree
<1>4. TreesTypeOK'
  BY <1>1, <1>3, ValuesAssumption DEF TreesTypeOK, Phases
<1>5. Turn'
  BY <1>1, ValuesAssumption DEF Turn
<1>6. /\ Seeded' /\ Staging' /\ Overlaid' /\ IndexKnows' /\ IndexComplete'
      /\ Making' /\ HostToolsKept' /\ OnlyOwnWork'
  BY <1>1 DEF Seeded, Staging, Overlaid, IndexKnows, IndexComplete, Making, HostToolsKept, OnlyOwnWork
<1> QED
  BY <1>2, <1>4, <1>5, <1>6

LEMMA KnownStutter ==
  ASSUME Known, UNCHANGED treesVars
  PROVE  Known'
<1> USE DEF Known
<1>1. UNCHANGED <<built, actor, phase, per, disk, stage, index, host, given, did>>
  BY DEF treesVars
<1>2. Past' /\ LostOnlyIfDisputed'
  BY <1>1, PastSame
<1>3. TreesTypeOK' /\ Turn' /\ Seeded'
  BY <1>1 DEF TreesTypeOK, Turn, Seeded, ClosureOf
<1>4. Staging' /\ Overlaid'
  BY <1>1, RestoredSame, UnpackedSame DEF Staging, Overlaid, ClosureOf, DirectOf
<1>5. IndexKnows' /\ IndexComplete'
  BY <1>1, CleanSame DEF IndexKnows, IndexComplete, InIndex
<1>6. Making'
  <2>1. \A f \in Path : MakingAt(f)' <=> MakingAt(f)
    BY <1>1 DEF MakingAt, Touched, OnlyWrites, Seen
  <2>2. GivenFrom(actor, given)' <=> GivenFrom(actor, given)
    BY <1>1, GivenSame
  <2> QED
    BY <1>1, <2>1, <2>2 DEF Making
<1>7. HostToolsKept' /\ OnlyOwnWork'
  BY <1>1 DEF HostToolsKept, OnlyOwnWork, Contested, Lost, Holds
<1> QED
  BY <1>2, <1>3, <1>4, <1>5, <1>6, <1>7

\* Known is inductive.
LEMMA TreesInvariant == TreesSpec => []Known
<1>1. Known /\ [TreesNext]_treesVars => Known'
  <2> SUFFICES ASSUME Known, [TreesNext]_treesVars PROVE Known'
    OBVIOUS
  <2>1. ASSUME NEW a \in Pkg \cup {Rootfs}, Seed(a) PROVE Known'
    BY <2>1, KnownSeed
  <2>2. ASSUME NEW x \in Pkg, StageTree(x) PROVE Known'
    BY <2>2, KnownStageTree
  <2>3. ASSUME NEW f \in Path, NEW c \in Content, Write(f, c) PROVE Known'
    BY <2>3, KnownWrite
  <2>4. ASSUME NEW f \in Path, NEW d \in Data, WriteInPlace(f, d) PROVE Known'
    BY <2>4, KnownWriteInPlace
  <2>5. ASSUME NEW f \in Path, Delete(f) PROVE Known'
    BY <2>5, KnownDelete
  <2> QED
    BY <2>1, <2>2, <2>3, <2>4, <2>5, KnownSwapTrees, KnownIndex, KnownMerge, KnownPack,
       KnownMergeHost, KnownLeave, KnownStutter DEF TreesNext
<1> QED
  BY <1>1, KnownInit, PTL DEF TreesSpec

\* Every state of any packages, paths and commands is well typed: an artifact's trees
\* hold files and links with their data, and a work directory's entries are inodes.
THEOREM TreesTypeCorrect == TreesSpec => []TreesTypeOK
<1>1. Known => TreesTypeOK
  BY DEF Known
<1> QED
  BY <1>1, TreesInvariant, PTL

\* What overlay_complete rebuilds of a dependency is what make had left, and the rootfs
\* action's host tree has what each package had, but at the paths that the properties
\* name: lost, disputed or contested ones.  There are no other losses, in any graph.
THEOREM TreesRebuilt == TreesSpec => []Rebuilt
<1>1. Known => Rebuilt
  <2> SUFFICES ASSUME Known PROVE Rebuilt
    OBVIOUS
  <2>1. RebuiltWherePossible
    <3> SUFFICES ASSUME phase = "overlaid", NEW x \in DirectOf(actor), NEW f \in Path,
                        CleanIn(Closed(x), f)
                 PROVE  Holds(per[x])[f] = built[x].tree[f]
      BY DEF RebuiltWherePossible, CleanIn
    <3>1. Restored(x, per[x])
      BY DEF Known, Overlaid
    <3> QED
      BY <3>1, HoldsIs DEF Restored
  <2> QED
    BY <2>1 DEF Rebuilt, Known
<1> QED
  BY <1>1, TreesInvariant, PTL

\* In a closure whose commands create what they install and where no package had to
\* choose, own_entries takes up every change, however many commands change a path.
THEOREM ChangesAreKept == TreesSpec => []LostOnlyIfDisputed
<1>1. Known => LostOnlyIfDisputed
  BY DEF Known
<1> QED
  BY <1>1, TreesInvariant, PTL

\* A tar holds nothing that its package inherits: files are its own inodes, links are not
\* what the merge gave.
THEOREM DeltasAreOwn == TreesSpec => []OnlyOwnWork
<1>1. Known => OnlyOwnWork
  BY DEF Known
<1> QED
  BY <1>1, TreesInvariant, PTL

------------------------------------------------------------------------------
(* What the analysis provides is what the trees assume of closures.        *)

\* The targets that a configuration selects and that are analysed, their dependencies,
\* and what their providers hold before themselves.
Chosen == {t \in Target : Analysed(t) /\ t = DepLabel(t.name)}
DirectDeps == [t \in Chosen |-> [k \in 1..Len(deps[t]) |-> DepTarget(t, k)]]
Before == [t \in Chosen |-> [k \in 1..(Len(info[t].topo) - 1) |-> info[t].topo[k]]]

CurrentInv == OrderInv /\ SelectInv /\ RenderIsCurrent

LEMMA ChosenTopo ==
  ASSUME CurrentInv, NEW t \in Chosen
  PROVE  LET s == info[t].topo IN
           /\ s \in Seq(Target) /\ Len(s) \in Nat /\ Len(s) > 0
           /\ DOMAIN s = 1..Len(s)
           /\ s[Len(s)] = t
           /\ \A k \in 1..Len(s) : s[k] \in Chosen
           /\ \A k, l \in 1..Len(s) : s[k] = s[l] => k = l
           /\ \A k \in 1..Len(s) : \A m \in DOMAIN deps[s[k]] :
                \E l \in 1..Len(s) : l < k /\ s[l] = DepTarget(s[k], m)
<1> DEFINE s == info[t].topo
<1>1. t \in Target /\ Analysed(t) /\ t = DepLabel(t.name) /\ TypeOK
  BY DEF Chosen, CurrentInv, OrderInv
<1>2. s \in Seq(Target)
  BY <1>1, InfoType
<1>3. TopoOK(info, deps, native, rendered, t) /\ SelectedTopo(native, rendered, s, t)
  BY <1>1 DEF CurrentInv, OrderInv, SelectInv, InfoOK, Analysed
<1>4. /\ Len(s) > 0 /\ s[Len(s)] = t
      /\ \A k \in DOMAIN s : info[s[k]] # None
      /\ \A k \in DOMAIN s : k < Len(s) => s[k] = SelectedBy(native, rendered, s[k].name)
      /\ OrderedBy(deps, s)
      /\ UniqueNames(s)
  BY <1>1, <1>3, SameLabels DEF TopoOK, SelectedTopo, Prefix
<1> HIDE DEF s
<1>5. Len(s) \in Nat /\ DOMAIN s = 1..Len(s) /\ \A k \in 1..Len(s) : s[k] \in Target
  BY <1>2
<1>6. \A k \in 1..Len(s) : s[k] \in Chosen
  <2> TAKE k \in 1..Len(s)
  <2>1. s[k] = DepLabel(s[k].name)
    BY <1>1, <1>4, <1>5, SameLabels
  <2> QED
    BY <1>4, <1>5, <2>1 DEF Chosen, Analysed
<1>7. \A k, l \in 1..Len(s) : s[k] = s[l] => k = l
  BY <1>4, <1>5 DEF UniqueNames
<1>8. \A k \in 1..Len(s) : \A m \in DOMAIN deps[s[k]] :
        \E l \in 1..Len(s) : l < k /\ s[l] = DepTarget(s[k], m)
  <2> TAKE k \in 1..Len(s)
  <2> TAKE m \in DOMAIN deps[s[k]]
  <2>1. PICK l \in 1..Len(s) : l < k /\ s[l].name = deps[s[k]][m]
    BY <1>4, <1>5 DEF OrderedBy
  <2>2. s[k] \in Target /\ info[s[k]] # None
    BY <1>4, <1>5
  <2>3. TopoOK(info, deps, native, rendered, s[k])
    BY <2>2 DEF CurrentInv, OrderInv, InfoOK
  <2>4. Analysed(DepTarget(s[k], m)) /\ DepTarget(s[k], m) \in Target
    BY <1>1, <2>2, <2>3, SameLabels, DepTargetType DEF TopoOK, Analysed
  <2>5. Exists(DepTarget(s[k], m))
    BY <2>4 DEF CurrentInv, OrderInv, InfoOK, TopoOK, Analysed
  <2>6. DepTarget(s[k], m) = DepLabel(deps[s[k]][m])
    BY <1>1, <2>2, <2>5, DepSelected DEF CurrentInv
  <2>7. s[l] = DepLabel(s[l].name)
    BY <1>6, <2>1 DEF Chosen
  <2> QED
    BY <2>1, <2>6, <2>7
<1> QED
  BY <1>2, <1>4, <1>5, <1>6, <1>7, <1>8 DEF s

LEMMA BeforeIs ==
  ASSUME CurrentInv, NEW t \in Chosen
  PROVE  LET n == Len(info[t].topo) - 1 IN
           /\ n \in Nat
           /\ Before[t] \in Seq(Chosen) /\ DOMAIN Before[t] = 1..n
           /\ \A k \in 1..n : Before[t][k] = info[t].topo[k]
           /\ ToSet(Before[t]) = {info[t].topo[k] : k \in 1..n}
           /\ Members(info[t].topo) = ToSet(Before[t]) \cup {t}
           /\ t \notin ToSet(Before[t])
<1> DEFINE s == info[t].topo
           n == Len(s) - 1
           b == Before[t]
<1>0. Len(s) \in Nat /\ Len(s) > 0 /\ s[Len(s)] = t
  BY ChosenTopo
<1>1. DOMAIN s = 1..Len(s)
  BY ChosenTopo
<1>2. \A k \in 1..Len(s) : s[k] \in Chosen
  BY ChosenTopo
<1>3. \A k, l \in 1..Len(s) : s[k] = s[l] => k = l
  BY ChosenTopo
<1>4. b = [k \in 1..n |-> s[k]]
  BY DEF Before
<1> HIDE DEF s, b
<1>5. n \in Nat /\ \A k \in 1..n : k \in 1..Len(s) /\ k # Len(s)
  BY <1>0
<1>6. b \in Seq(Chosen) /\ DOMAIN b = 1..n /\ \A k \in 1..n : b[k] = s[k]
  BY <1>2, <1>4, <1>5
<1>7. ToSet(b) = {s[k] : k \in 1..n}
  BY <1>6 DEF ToSet
<1>8. \A k \in 1..Len(s) : k \in 1..n \/ k = Len(s)
  BY <1>0
<1>9. Members(s) = ToSet(b) \cup {t}
  <2>1. \A x \in Members(s) : x \in ToSet(b) \cup {t}
    BY <1>0, <1>1, <1>7, <1>8 DEF Members
  <2>2. \A x \in ToSet(b) \cup {t} : x \in Members(s)
    <3>1. Len(s) \in 1..Len(s)
      BY <1>0
    <3> QED
      BY <1>0, <1>1, <1>5, <1>7, <3>1 DEF Members
  <2> QED
    BY <2>1, <2>2
<1>10. t \notin ToSet(b)
  <2> SUFFICES ASSUME NEW k \in 1..n, s[k] = t PROVE FALSE
    BY <1>7
  <2>1. k \in 1..Len(s) /\ Len(s) \in 1..Len(s) /\ k # Len(s)
    BY <1>0, <1>5
  <2> QED
    BY <1>0, <1>3, <2>1
<1> QED
  BY <1>5, <1>6, <1>7, <1>9, <1>10 DEF s, b

LEMMA EarlierClosure ==
  ASSUME CurrentInv, ClosureMinimal, NEW t \in Chosen, NEW i \in 1..Len(info[t].topo)
  PROVE  Members(info[info[t].topo[i]].topo) \subseteq {info[t].topo[j] : j \in 1..i}
<1> DEFINE s == info[t].topo
           S == {s[j] : j \in 1..i}
<1>1. Len(s) \in Nat
  BY ChosenTopo
<1>2. \A k \in 1..Len(s) : s[k] \in Chosen
  BY ChosenTopo
<1>3. \A k \in 1..Len(s) : \A m \in DOMAIN deps[s[k]] :
        \E l \in 1..Len(s) : l < k /\ s[l] = DepTarget(s[k], m)
  BY ChosenTopo
<1>4. i \in 1..Len(s)
  OBVIOUS
<1> HIDE DEF s
<1>5. \A j \in 1..i : j \in 1..Len(s)
  BY <1>1, <1>4
<1>6. S \in SUBSET Target
  BY <1>2, <1>5 DEF Chosen
<1>7. s[i] \in S
  BY <1>1, <1>4
<1>8. ClosedUnderDeps(S)
  <2> SUFFICES ASSUME NEW x \in S, NEW m \in DOMAIN deps[x] PROVE DepTarget(x, m) \in S
    BY DEF ClosedUnderDeps
  <2>1. PICK j \in 1..i : x = s[j]
    OBVIOUS
  <2>2. PICK l \in 1..Len(s) : l < j /\ s[l] = DepTarget(x, m)
    BY <1>3, <1>5, <2>1
  <2>3. l \in 1..i
    BY <1>1, <1>4, <2>1, <2>2
  <2> QED
    BY <2>2, <2>3
<1>9. s[i] \in Target /\ Analysed(s[i])
  BY <1>2, <1>4 DEF Chosen
<1>10. Members(info[s[i]].topo) \subseteq S
  BY <1>6, <1>7, <1>8, <1>9 DEF ClosureMinimal
<1> QED
  BY <1>10 DEF s

LEMMA ChosenDeps ==
  ASSUME CurrentInv, ClosureMinimal, NEW t \in Chosen
  PROVE  /\ DirectDeps[t] \in Seq(Chosen)
         /\ ToSet(DirectDeps[t]) = {DepTarget(t, m) : m \in DOMAIN deps[t]}
         /\ \A m \in DOMAIN deps[t] :
              /\ DepTarget(t, m) \in Chosen
              /\ Members(info[DepTarget(t, m)].topo) \subseteq ToSet(Before[t])
<1> DEFINE s == info[t].topo
           n == Len(s) - 1
<1>1. /\ Len(s) \in Nat /\ Len(s) > 0 /\ s[Len(s)] = t
  BY ChosenTopo
<1>2. \A k \in 1..Len(s) : s[k] \in Chosen
  BY ChosenTopo
<1>3. \A k \in 1..Len(s) : \A m \in DOMAIN deps[s[k]] :
        \E l \in 1..Len(s) : l < k /\ s[l] = DepTarget(s[k], m)
  BY ChosenTopo
<1>4. ToSet(Before[t]) = {s[k] : k \in 1..n}
  BY BeforeIs
<1>5. \A i \in 1..Len(s) : Members(info[s[i]].topo) \subseteq {s[j] : j \in 1..i}
  BY EarlierClosure
<1> HIDE DEF s
<1>6. ASSUME NEW m \in DOMAIN deps[t]
      PROVE  /\ DepTarget(t, m) \in Chosen
             /\ Members(info[DepTarget(t, m)].topo) \subseteq ToSet(Before[t])
  <2>1. Len(s) \in 1..Len(s)
    BY <1>1
  <2>2. PICK l \in 1..Len(s) : l < Len(s) /\ s[l] = DepTarget(t, m)
    BY <1>1, <1>3, <2>1
  <2>3. \A j \in 1..l : j \in 1..n
    BY <1>1, <2>2
  <2>4. {s[j] : j \in 1..l} \subseteq {s[k] : k \in 1..n}
    BY <2>3
  <2> QED
    BY <1>2, <1>4, <1>5, <2>2, <2>4
<1>7. Len(deps[t]) \in Nat /\ DOMAIN deps[t] = 1..Len(deps[t])
  <2>1. t \in Target /\ deps \in [Target -> Seq(Package)]
    BY GraphsAssumption DEF Chosen, CurrentInv, OrderInv, TypeOK
  <2>2. deps[t] \in Seq(Package)
    BY <2>1
  <2> QED
    BY <2>2
<1>8. DirectDeps[t] = [k \in 1..Len(deps[t]) |-> DepTarget(t, k)]
  BY DEF DirectDeps
<1>9. DirectDeps[t] \in Seq(Chosen) /\ ToSet(DirectDeps[t]) = {DepTarget(t, m) : m \in DOMAIN deps[t]}
  BY <1>6, <1>7, <1>8 DEF ToSet
<1> QED
  BY <1>6, <1>9

\* DeltaTree's assumption on closures, with targets for packages: what the package
\* actions rely on (dependencies first, nothing missing, nothing more, no package
\* twice) is what the rules provide, as long as the last render saw the native
\* rules that the list names (br2_dep).
THEOREM ActionsGetClosures == Spec => [](RenderIsCurrent => Closures(Chosen, DirectDeps, Before))
<1>1. CurrentInv /\ ClosureMinimal => Closures(Chosen, DirectDeps, Before)
  <2> SUFFICES ASSUME CurrentInv, ClosureMinimal PROVE Closures(Chosen, DirectDeps, Before)
    OBVIOUS
  <2>1. DirectDeps \in [Chosen -> Seq(Chosen)]
    <3>1. \A t \in Chosen : DirectDeps[t] \in Seq(Chosen)
      BY ChosenDeps
    <3>2. DirectDeps = [t \in Chosen |-> DirectDeps[t]]
      BY DEF DirectDeps
    <3> QED
      BY <3>1, <3>2
  <2>2. Before \in [Chosen -> Seq(Chosen)]
    <3>1. \A t \in Chosen : Before[t] \in Seq(Chosen)
      BY BeforeIs
    <3>2. Before = [t \in Chosen |-> Before[t]]
      BY DEF Before
    <3> QED
      BY <3>1, <3>2
  <2>3. ASSUME NEW t \in Chosen
        PROVE  ToSet(Before[t]) = UNION {ToSet(Before[d]) \cup {d} : d \in ToSet(DirectDeps[t])}
    <3> DEFINE U == UNION {Members(info[DepTarget(t, m)].topo) : m \in DOMAIN deps[t]}
    <3>1. \A m \in DOMAIN deps[t] :
            /\ DepTarget(t, m) \in Chosen
            /\ Members(info[DepTarget(t, m)].topo) \subseteq ToSet(Before[t])
      BY ChosenDeps
    <3>2. \A d \in Chosen : Members(info[d].topo) = ToSet(Before[d]) \cup {d}
      BY BeforeIs
    <3>3. ToSet(DirectDeps[t]) = {DepTarget(t, m) : m \in DOMAIN deps[t]}
      BY ChosenDeps
    <3>4. U = UNION {ToSet(Before[d]) \cup {d} : d \in ToSet(DirectDeps[t])}
      BY <3>1, <3>2, <3>3
    <3>5. U \subseteq ToSet(Before[t])
      BY <3>1
    <3>6. ClosedUnderDeps(U \cup {t})
      <4> SUFFICES ASSUME NEW x \in U \cup {t}, NEW k \in DOMAIN deps[x]
                   PROVE  DepTarget(x, k) \in U
        BY DEF ClosedUnderDeps
      <4>1. CASE x = t
        <5>1. DepTarget(t, k) \in Members(info[DepTarget(t, k)].topo)
          BY <3>1, <3>2, <4>1
        <5> QED
          BY <4>1, <5>1
      <4>2. CASE x \in U
        <5>1. PICK m \in DOMAIN deps[t] : x \in Members(info[DepTarget(t, m)].topo)
          BY <4>2
        <5> DEFINE s == info[DepTarget(t, m)].topo
        <5>2. DepTarget(t, m) \in Chosen
          BY <3>1
        <5>3. DOMAIN s = 1..Len(s)
          BY <5>2, ChosenTopo
        <5>4. \A i \in 1..Len(s) : \A j \in DOMAIN deps[s[i]] :
                \E l \in 1..Len(s) : l < i /\ s[l] = DepTarget(s[i], j)
          BY <5>2, ChosenTopo
        <5> HIDE DEF s
        <5>5. PICK i \in 1..Len(s) : x = s[i]
          BY <5>1, <5>3 DEF Members, s
        <5>6. PICK l \in 1..Len(s) : s[l] = DepTarget(x, k)
          BY <5>4, <5>5
        <5>7. DepTarget(x, k) \in Members(s)
          BY <5>3, <5>6 DEF Members
        <5> QED
          BY <5>7 DEF s
      <4> QED
        BY <4>1, <4>2
    <3>7. U \cup {t} \in SUBSET Target
      <4>1. \A d \in Chosen : ToSet(Before[d]) \subseteq Chosen
        <5> TAKE d \in Chosen
        <5>1. Before[d] \in Seq(Chosen)
          BY BeforeIs
        <5> QED
          BY <5>1, ToSetIs
      <4> QED
        BY <3>5, <4>1 DEF Chosen
    <3>8. Members(info[t].topo) \subseteq U \cup {t}
      BY <3>6, <3>7 DEF ClosureMinimal, Chosen
    <3>9. t \notin ToSet(Before[t])
      BY BeforeIs
    <3> HIDE DEF U
    <3>10. ToSet(Before[t]) \subseteq U
      BY <3>2, <3>8, <3>9
    <3> QED
      BY <3>4, <3>5, <3>10
  <2>4. ASSUME NEW t \in Chosen
        PROVE  /\ \A i, j \in DOMAIN Before[t] : Before[t][i] = Before[t][j] => i = j
               /\ \A i \in DOMAIN Before[t] :
                    \A q \in ToSet(Before[Before[t][i]]) : \E j \in 1..i-1 : Before[t][j] = q
    <3> DEFINE s == info[t].topo
               n == Len(s) - 1
               b == Before[t]
    <3>1. DOMAIN b = 1..n
      BY BeforeIs
    <3>2. \A k \in 1..n : b[k] = s[k]
      BY BeforeIs
    <3>3. Len(s) \in Nat /\ Len(s) > 0
      BY ChosenTopo
    <3>4. \A k, l \in 1..Len(s) : s[k] = s[l] => k = l
      BY ChosenTopo
    <3>5. \A k \in 1..Len(s) : s[k] \in Chosen
      BY ChosenTopo
    <3>6. \A i \in 1..Len(s) : Members(info[s[i]].topo) \subseteq {s[j] : j \in 1..i}
      BY EarlierClosure
    <3>7. \A d \in Chosen : Members(info[d].topo) = ToSet(Before[d]) \cup {d} /\ d \notin ToSet(Before[d])
      BY BeforeIs
    <3> HIDE DEF s, b
    <3>8. \A k \in 1..n : k \in 1..Len(s)
      BY <3>3
    <3>9. \A i, j \in DOMAIN b : b[i] = b[j] => i = j
      BY <3>1, <3>2, <3>4, <3>8
    <3>10. ASSUME NEW i \in DOMAIN b, NEW q \in ToSet(Before[b[i]])
           PROVE  \E j \in 1..i-1 : b[j] = q
      <4>1. i \in 1..n /\ i \in 1..Len(s) /\ b[i] = s[i] /\ s[i] \in Chosen
        BY <3>1, <3>2, <3>5, <3>8
      <4>2. q \in Members(info[s[i]].topo) /\ q # s[i]
        BY <3>7, <3>10, <4>1
      <4>3. PICK j \in 1..i : s[j] = q
        BY <3>6, <4>1, <4>2
      <4>4. j # i
        BY <4>2, <4>3
      <4>5. j \in 1..i-1 /\ j \in 1..n
        BY <3>3, <4>1, <4>3, <4>4
      <4> QED
        BY <3>2, <4>3, <4>5
    <3> QED
      BY <3>9, <3>10 DEF b
  <2> QED
    BY <2>1, <2>2, <2>3, <2>4 DEF Closures
<1>2. OrderInv /\ SelectInv /\ ClosureMinimal => (RenderIsCurrent => Closures(Chosen, DirectDeps, Before))
  BY <1>1 DEF CurrentInv
<1> QED
  BY <1>2, ClosuresMinimal, SelectInvariant, PTL
=============================================================================
