---------------------------- MODULE ClusterProofs ----------------------------
(***************************************************************************)
(* Proofs about what runs in the cluster: the golden Job (GoldenJob), for  *)
(* any clients, projects and commits, however they are written, any number *)
(* of failures and interruptions; and the worker pods (WorkerDrain), for   *)
(* every number of pods, containers, actions and ticks.                    *)
(*                                                                         *)
(* ResultsOfTheName is not inductive: Logs unpacks whatever the Job's      *)
(* template says.  Named adds what ties a Job to those who look for it by  *)
(* name: its template is the wish of somebody who looks for that name.     *)
(* OwnResults follows, because wishes that are Apart have different names: *)
(* that is NamesApart, about what is left of a name after the cut.         *)
(***************************************************************************)
EXTENDS GoldenJob, WorkerDrain, TLAPS

Job == [template : Wants, phase : {"new", "building", "succeeded", "failed"}]

Typed ==
  /\ want \in [Client -> Wants]
  /\ at \in [Client -> {"shell", "waiting", "log", "written", "done"}]
  /\ golden \in [Client -> [Variety -> Source \cup {Nothing}]]
  /\ pushed \subseteq Commit
  /\ job \in [Names -> Job \cup {Nothing}]
  /\ failures \in 0..MaxFailures
  /\ stops \in 0..MaxStops

\* Who has come to the deletion has results.
Written == \A c \in Client : at[c] \in {"written", "done"} => \E v \in Variety : golden[c][v] # Nothing

\* Somebody looks for the Job of template t under the name n.
Wished(t, n) == \E c \in Client : want[c] = t /\ NameOf(c) = n

Named == \A n \in Names : job[n] # Nothing => Wished(job[n].template, n)

IInv == Typed /\ Written /\ Named /\ ResultsOfTheName

LEMMA Wanted ==
  ASSUME Typed, NEW c \in Client
  PROVE  want[c] \in Wants /\ want[c] \in Template /\ NameOf(c) \in Names
BY GoldenJobAssumption DEF Typed, NameOf, Names

\* The Job that a client finds is what somebody who looks for the same name
\* wants.
LEMMA FoundIsWished ==
  ASSUME Typed, Named, NEW c \in Client, JobOf(c) # Nothing
  PROVE  /\ JobOf(c) \in Job
         /\ Wished(JobOf(c).template, NameOf(c))
BY Wanted DEF JobOf, Typed, Named

LEMMA Initially == JobInit => IInv
<1> SUFFICES ASSUME JobInit PROVE IInv
  OBVIOUS
<1>1. Typed
  BY GoldenJobAssumption DEF JobInit, Typed
<1>2. Written
  BY DEF JobInit, Written
<1>3. Named
  BY DEF JobInit, Named
<1>4. ResultsOfTheName
  BY DEF JobInit, ResultsOfTheName
<1> QED
  BY <1>1, <1>2, <1>3, <1>4 DEF IInv

\* Steps that unpack nothing keep the results, and Written if nobody comes to
\* the deletion by them.
LEMMA Unpacked ==
  ASSUME ResultsOfTheName, UNCHANGED <<want, golden>>
  PROVE  ResultsOfTheName'
BY DEF ResultsOfTheName, NameOf

\* Setting one Job whose template is wished for under its name, or none.
LEMMA OneJob ==
  ASSUME Typed, Named, UNCHANGED want, NEW n \in Names, NEW j \in Job \cup {Nothing}, SetJob(n, j),
         j # Nothing => Wished(j.template, n)
  PROVE  job' \in [Names -> Job \cup {Nothing}] /\ Named'
<1>1. job' = [job EXCEPT ![n] = j]
  BY DEF SetJob
<1>2. job' \in [Names -> Job \cup {Nothing}]
  BY <1>1 DEF Typed
<1>3. \A m \in Names : job'[m] = IF m = n THEN j ELSE job[m]
  BY <1>1 DEF Typed
<1>4. Named'
  BY <1>3 DEF Named, Wished, NameOf
<1> QED
  BY <1>2, <1>4

LEMMA Applied ==
  ASSUME IInv, NEW c \in Client, Apply(c)
  PROVE  IInv'
<1> USE DEF IInv
<1>1. want[c] \in Wants /\ NameOf(c) \in Names
  BY Wanted
<1>2. UNCHANGED <<want, golden>>
  BY DEF Apply
<1>3. job' \in [Names -> Job \cup {Nothing}] /\ Named'
  <2>1. CASE JobOf(c) = Nothing
    <3> DEFINE j == [template |-> want[c], phase |-> "new"]
    <3>1. j \in Job /\ j.template = want[c]
      BY <1>1 DEF Job
    <3>2. SetJob(NameOf(c), j)
      BY <2>1 DEF Apply
    <3> HIDE DEF j
    <3>3. Wished(j.template, NameOf(c))
      BY <3>1 DEF Wished
    <3> QED
      BY <1>1, <1>2, <3>1, <3>2, <3>3, OneJob
  <2>2. CASE JobOf(c) # Nothing
    <3>1. UNCHANGED job
      BY <2>2 DEF Apply
    <3> QED
      BY <1>2, <3>1 DEF Typed, Named, Wished, NameOf
  <2> QED
    BY <2>1, <2>2
<1>4. Typed'
  BY <1>3 DEF Typed, Apply, Goto
<1>5. Written'
  BY DEF Written, Typed, Apply, Goto
<1>6. ResultsOfTheName'
  BY <1>2, Unpacked
<1> QED
  BY <1>3, <1>4, <1>5, <1>6

LEMMA Fetched ==
  ASSUME IInv, NEW c \in Client, Logs(c)
  PROVE  IInv'
<1> USE DEF IInv
<1> DEFINE j == JobOf(c)
<1>1. UNCHANGED <<want, pushed, job, failures, stops>>
  BY DEF Logs
<1>2. Named'
  BY <1>1 DEF Named, Wished, NameOf
<1>3. CASE Succeeded(j) /\ Unpack(c, j.template) /\ Goto(c, "written")
  <2>1. /\ golden' = [golden EXCEPT ![c][j.template.variety] = SourceOf(j.template)]
        /\ at' = [at EXCEPT ![c] = "written"]
    BY <1>3 DEF Unpack, Goto
  <2>2. j \in Job /\ Wished(j.template, NameOf(c))
    BY <1>3, FoundIsWished DEF Succeeded
  <2> HIDE DEF j
  <2> DEFINE t == j.template
  <2>3. t.variety \in Variety /\ SourceOf(t) \in Source /\ SourceOf(t) # Nothing
    BY <2>2, GoldenJobAssumption DEF Job, Template, SourceOf, Source
  <2>4. \A d \in Client, v \in Variety :
          golden'[d][v] = IF d = c /\ v = t.variety THEN SourceOf(t) ELSE golden[d][v]
    BY <2>1, <2>3 DEF Typed
  <2>5. golden' \in [Client -> [Variety -> Source \cup {Nothing}]]
    BY <2>1, <2>3 DEF Typed
  <2>6. Typed'
    BY <1>1, <2>1, <2>5 DEF Typed
  <2> HIDE DEF t
  <2>7. Written'
    <3> SUFFICES ASSUME NEW d \in Client, at'[d] \in {"written", "done"}
                 PROVE  \E v \in Variety : golden'[d][v] # Nothing
      BY DEF Written
    <3>1. CASE d = c
      BY <2>3, <2>4, <3>1
    <3>2. CASE d # c
      BY <2>1, <2>4, <3>2 DEF Written, Typed
    <3> QED
      BY <3>1, <3>2
  <2>8. ResultsOfTheName'
    <3>1. PICK e \in Client : want[e] = t /\ NameOf(e) = NameOf(c)
      BY <2>2 DEF Wished, t
    <3> SUFFICES ASSUME NEW d \in Client, NEW v \in Variety, golden'[d][v] # Nothing
                 PROVE  \E f \in Client : NameOf(f)' = NameOf(d)' /\ want'[f].variety = v
                                         /\ golden'[d][v] = SourceOf(want'[f])
      BY DEF ResultsOfTheName
    <3>2. \A f \in Client : want'[f] = want[f] /\ NameOf(f)' = NameOf(f)
      BY <1>1 DEF NameOf
    <3>3. CASE d = c /\ v = t.variety
      BY <2>4, <3>1, <3>2, <3>3
    <3>4. CASE ~(d = c /\ v = t.variety)
      BY <2>4, <3>2, <3>4 DEF ResultsOfTheName
    <3> QED
      BY <3>3, <3>4
  <2> QED
    BY <1>2, <2>6, <2>7, <2>8
<1>4. CASE Goto(c, "shell") /\ UNCHANGED golden
  <2>1. at' = [at EXCEPT ![c] = "shell"] /\ UNCHANGED golden
    BY <1>4 DEF Goto
  <2>2. Typed' /\ Written'
    BY <1>1, <2>1 DEF Typed, Written
  <2>3. ResultsOfTheName'
    BY <1>1, <2>1, Unpacked
  <2> QED
    BY <1>2, <2>2, <2>3
<1> QED
  BY <1>3, <1>4 DEF Logs

\* The steps of a client that change no Job and unpack nothing.
LEMMA Walked ==
  ASSUME IInv, NEW c \in Client, Get(c) \/ Stop(c)
  PROVE  IInv'
<1> USE DEF IInv
<1>1. UNCHANGED <<want, golden, pushed, job, failures>>
  BY DEF Get, Stop
<1>2. Named' /\ ResultsOfTheName'
  BY <1>1, Unpacked DEF Named, Wished, NameOf
<1>3. CASE Get(c)
  BY <1>1, <1>2, <1>3 DEF Get, Goto, Typed, Written
<1>4. CASE Stop(c)
  <2>1. stops' \in 0..MaxStops
    BY <1>4, GoldenJobAssumption DEF Stop, Typed
  <2>2. at' \in [Client -> {"shell", "waiting", "log", "written", "done"}]
    BY <1>4 DEF Stop, Goto, Typed
  <2>3. \A d \in Client : at'[d] \in {"written", "done"} => at[d] \in {"written", "done"}
    BY <1>4 DEF Stop, Goto, Typed
  <2> QED
    BY <1>1, <1>2, <2>1, <2>2, <2>3 DEF Typed, Written
<1> QED
  BY <1>3, <1>4

LEMMA Deleted ==
  ASSUME IInv, NEW c \in Client, DeleteJob(c)
  PROVE  IInv'
<1> USE DEF IInv
<1>1. UNCHANGED <<want, golden, pushed, failures, stops>> /\ SetJob(NameOf(c), Nothing)
  BY DEF DeleteJob
<1>2. NameOf(c) \in Names
  BY Wanted
<1>3. job' \in [Names -> Job \cup {Nothing}] /\ Named'
  BY <1>1, <1>2, OneJob
<1>4. Typed' /\ Written'
  BY <1>1, <1>3 DEF DeleteJob, Goto, Typed, Written
<1>5. ResultsOfTheName'
  BY <1>1, Unpacked
<1> QED
  BY <1>3, <1>4, <1>5

LEMMA Ran ==
  ASSUME IInv, NEW n \in Names, Clone(n) \/ Build(n) \/ Expire(n)
  PROVE  IInv'
<1> USE DEF IInv
<1>1. UNCHANGED <<want, at, golden, pushed, stops>>
  BY DEF Clone, Build, Expire
<1>2. job[n] # Nothing /\ job[n] \in Job
  BY DEF Clone, Build, Expire, Over, Typed
<1>3. PICK j \in Job \cup {Nothing} : SetJob(n, j) /\ (j # Nothing => j.template = job[n].template)
  <2>1. \A p \in {"new", "building", "succeeded", "failed"} :
          /\ [job[n] EXCEPT !.phase = p] \in Job
          /\ [job[n] EXCEPT !.phase = p].template = job[n].template
    BY <1>2 DEF Job
  <2>2. CASE Clone(n)
    <3>1. CASE job[n].template.ref \in pushed
      BY <2>1, <2>2, <3>1 DEF Clone
    <3>2. CASE job[n].template.ref \notin pushed
      BY <2>1, <2>2, <3>2 DEF Clone
    <3> QED
      BY <3>1, <3>2
  <2>3. CASE Build(n)
    BY <2>1, <2>3 DEF Build
  <2>4. CASE Expire(n)
    BY <2>4 DEF Expire
  <2> QED
    BY <2>2, <2>3, <2>4
<1>4. job' \in [Names -> Job \cup {Nothing}] /\ Named'
  <2>1. j # Nothing => Wished(j.template, n)
    BY <1>2, <1>3 DEF Named
  <2> QED
    BY <1>1, <1>3, <2>1, OneJob
<1>5. failures' \in 0..MaxFailures
  BY GoldenJobAssumption DEF Clone, Build, Expire, Typed
<1>6. Typed' /\ Written'
  BY <1>1, <1>4, <1>5 DEF Typed, Written
<1>7. ResultsOfTheName'
  BY <1>1, Unpacked
<1> QED
  BY <1>4, <1>6, <1>7

\* Steps that leave clients' wishes, results and Jobs as they are.
LEMMA Stuttered ==
  ASSUME IInv, UNCHANGED <<want, at, golden, job, failures, stops>>, pushed' \subseteq Commit
  PROVE  IInv'
BY Unpacked DEF IInv, Typed, Written, Named, Wished, NameOf

LEMMA Kept == IInv /\ [JobNext]_jobVars => IInv'
<1> SUFFICES ASSUME IInv, [JobNext]_jobVars PROVE IInv'
  OBVIOUS
<1>1. ASSUME NEW c \in Client, Apply(c) \/ Get(c) \/ Logs(c) \/ DeleteJob(c) \/ Stop(c)
      PROVE  IInv'
  BY <1>1, Applied, Walked, Fetched, Deleted
<1>2. ASSUME NEW r \in Commit, Push(r)
      PROVE  IInv'
  <2>1. pushed' \subseteq Commit
    BY <1>2 DEF Push, IInv, Typed
  <2> QED
    BY <1>2, <2>1, Stuttered DEF Push
<1>3. ASSUME NEW n \in Names, Clone(n) \/ Build(n) \/ Expire(n)
      PROVE  IInv'
  BY <1>3, Ran
<1>4. CASE UNCHANGED jobVars
  BY <1>4, Stuttered DEF jobVars, IInv, Typed
<1>5. CASE Ended
  BY <1>4, <1>5 DEF Ended
<1> QED
  BY <1>1, <1>2, <1>3, <1>4, <1>5 DEF JobNext

LEMMA Invariant == JobSpec => []IInv
<1>1. JobInit => IInv
  BY Initially
<1>2. IInv /\ [JobNext]_jobVars => IInv'
  BY Kept
<1> QED
  BY <1>1, <1>2, PTL DEF JobSpec

\* Every state of clients, Jobs and commits is well typed, and whoever is done
\* has a manifest.
THEOREM JobType == JobSpec => []JobTypeOK
<1>1. IInv => JobTypeOK
  <2> SUFFICES ASSUME IInv PROVE JobTypeOK
    OBVIOUS
  <2>1. \A n \in Names : job[n] # Nothing =>
          job[n].template \in Wants /\ job[n].phase \in {"new", "building", "succeeded", "failed"}
    BY DEF IInv, Typed, Job
  <2> QED
    BY <2>1 DEF IInv, Typed, Written, JobTypeOK
<1> QED
  BY <1>1, Invariant, PTL

\* golden_job's waiting by name: whatever any number of other clients apply
\* and delete in between, what a client unpacks is what somebody asked for
\* under the name that it looks for, and lies where that variety lies.
THEOREM ResultsAreOfTheName == JobSpec => []ResultsOfTheName
<1>1. IInv => ResultsOfTheName
  BY DEF IInv
<1> QED
  BY <1>1, Invariant, PTL

(***************************************************************************)
(* What is left of a name after the cut.                                   *)
(***************************************************************************)
LEMMA Joined ==
  ASSUME NEW S, NEW p \in Seq(S), NEW a \in Seq(S), NEW m \in S, NEW d \in Seq(S)
  PROVE  LET w == p \o a \o <<m>> \o d
         IN  /\ w \in Seq(S)
             /\ Len(w) = Len(p) + Len(a) + 1 + Len(d)
             /\ \A i \in 1..Len(a) : w[Len(p) + i] = a[i]
             /\ \A i \in 1..Len(d) : w[Len(p) + Len(a) + 1 + i] = d[i]
OBVIOUS

LEMMA Alike ==
  ASSUME NEW S, NEW s \in Seq(S), NEW t \in Seq(S), Len(s) = Len(t), \A k \in 1..Len(s) : s[k] = t[k]
  PROVE  s = t
OBVIOUS

LEMMA CleanedLetters ==
  ASSUME NEW p \in Project
  PROVE  Cleaned(p) \in Seq(Char) /\ Len(Cleaned(p)) = Len(Letters[p])
<1> DEFINE s == Letters[p]
           f == [i \in 1..Len(s) |-> Plain[s[i]]]
<1>1. s \in Seq(Char) /\ Plain \in [Char -> Char]
  BY GoldenJobAssumption
<1>2. Len(s) \in Nat /\ \A i \in 1..Len(s) : s[i] \in Char
  BY <1>1
<1>3. f \in [1..Len(s) -> Char]
  BY <1>1, <1>2
<1> HIDE DEF s
<1>4. f \in Seq(Char) /\ Len(f) = Len(s)
  BY <1>2, <1>3
<1> QED
  BY <1>4 DEF Cleaned, s

LEMMA ShortDigits ==
  ASSUME NEW r \in Commit
  PROVE  Short(r) \in Seq(Char) /\ Len(Short(r)) = 8
<1> DEFINE s == Digits[r]
<1>1. s \in Seq(Char) /\ Len(s) >= 8
  BY GoldenJobAssumption
<1> HIDE DEF s
<1>2. SubSeq(s, 1, 8) \in Seq(Char) /\ Len(SubSeq(s, 1, 8)) = 8
  BY <1>1
<1> QED
  BY <1>2 DEF Short, s

\* A name of a project that fits: nothing is cut, and its parts stand where
\* their lengths put them.
LEMMA NameParts ==
  ASSUME NEW t \in Template, Fits(t.project)
  PROVE  LET n == Name[t]
             a == Cleaned(t.project)
             d == Short(t.ref)
         IN  /\ Len(n) = 16 + Len(a)
             /\ \A i \in 1..Len(a) : n[7 + i] = a[i]
             /\ \A i \in 1..8 : n[8 + Len(a) + i] = d[i]
<1> DEFINE a == Cleaned(t.project)
           d == Short(t.ref)
           S == Char \cup {"g", "o", "l", "d", "e", "n", "-"}
           w == Prefix \o a \o <<"-">> \o d
<1>1. a \in Seq(Char) /\ Len(a) \in Nat /\ Len(a) <= 44
  BY CleanedLetters DEF Template, Fits
<1>2. d \in Seq(Char) /\ Len(d) = 8
  BY ShortDigits DEF Template
<1>3. Name[t] = First(w, 60)
  BY DEF Name
<1> HIDE DEF a, d
<1>4. Prefix \in Seq(S) /\ Len(Prefix) = 7
  BY DEF Prefix
<1>5. a \in Seq(S) /\ d \in Seq(S) /\ "-" \in S
  BY <1>1, <1>2
<1> HIDE DEF S
<1>6. /\ w \in Seq(S)
      /\ Len(w) = Len(Prefix) + Len(a) + 1 + Len(d)
      /\ \A i \in 1..Len(a) : w[Len(Prefix) + i] = a[i]
      /\ \A i \in 1..Len(d) : w[Len(Prefix) + Len(a) + 1 + i] = d[i]
  <2> DEFINE p == Prefix
             m == "-"
  <2>1. p \in Seq(S) /\ m \in S
    BY <1>4, <1>5
  <2> HIDE DEF p, m
  <2>2. LET x == p \o a \o <<m>> \o d
        IN  /\ x \in Seq(S)
            /\ Len(x) = Len(p) + Len(a) + 1 + Len(d)
            /\ \A i \in 1..Len(a) : x[Len(p) + i] = a[i]
            /\ \A i \in 1..Len(d) : x[Len(p) + Len(a) + 1 + i] = d[i]
    BY <1>5, <2>1, Joined
  <2> QED
    BY <2>2 DEF p, m
<1> HIDE DEF w
<1>7. /\ w \in Seq(S)
      /\ Len(w) = 16 + Len(a)
      /\ \A i \in 1..Len(a) : w[7 + i] = a[i]
      /\ \A i \in 1..8 : w[8 + Len(a) + i] = d[i]
  BY <1>1, <1>2, <1>4, <1>6
<1>8. First(w, 60) = SubSeq(w, 1, Len(w))
  BY <1>1, <1>7 DEF First
<1>9. SubSeq(w, 1, Len(w)) = w
  BY <1>7
<1> QED
  BY <1>3, <1>7, <1>8, <1>9 DEF a, d

LEMMA NamesApart ==
  ASSUME NEW x \in Template, NEW y \in Template, Apart(x, y)
  PROVE  Name[x] # Name[y]
<1> SUFFICES ASSUME Name[x] = Name[y] PROVE FALSE
  OBVIOUS
<1> DEFINE a == Cleaned(x.project)
           b == Cleaned(y.project)
           d == Short(x.ref)
           e == Short(y.ref)
           n == Name[x]
<1>1. /\ Len(n) = 16 + Len(a)
      /\ \A i \in 1..Len(a) : n[7 + i] = a[i]
      /\ \A i \in 1..8 : n[8 + Len(a) + i] = d[i]
  BY NameParts DEF Apart
<1>2. /\ Len(n) = 16 + Len(b)
      /\ \A i \in 1..Len(b) : n[7 + i] = b[i]
      /\ \A i \in 1..8 : n[8 + Len(b) + i] = e[i]
  BY NameParts DEF Apart
<1>3. a \in Seq(Char) /\ b \in Seq(Char) /\ d \in Seq(Char) /\ e \in Seq(Char) /\ Len(d) = 8 /\ Len(e) = 8
  BY CleanedLetters, ShortDigits DEF Template
<1>4. a # b \/ d # e
  BY DEF Apart
<1> HIDE DEF a, b, d, e, n
<1>5. Len(a) = Len(b)
  BY <1>1, <1>2, <1>3
<1>6. \A i \in 1..Len(a) : a[i] = b[i]
  BY <1>1, <1>2, <1>5
<1>7. Len(d) = Len(e) /\ \A i \in 1..Len(d) : d[i] = e[i]
  BY <1>1, <1>2, <1>3, <1>5
<1>8. a = b
  BY <1>3, <1>5, <1>6, Alike
<1>9. d = e
  BY <1>3, <1>7, Alike
<1> QED
  BY <1>4, <1>8, <1>9

\* If every other wish in the cluster is told apart, by projects whose names
\* are short enough and clean to different ones or by commits with different
\* first digits, what a client unpacks is of its own project and commit and of
\* its own variety, although it waits by name.
THEOREM ResultsAreOwn == JobSpec => []OwnResults
<1>1. IInv => OwnResults
  <2> SUFFICES ASSUME IInv,
                      NEW c \in Client, \A d \in Client : want[d] # want[c] => Apart(want[c], want[d]),
                      NEW v \in Variety, golden[c][v] # Nothing
               PROVE  golden[c][v] = SourceOf(want[c]) /\ v = want[c].variety
    BY DEF OwnResults
  <2>1. PICK d \in Client : NameOf(d) = NameOf(c) /\ want[d].variety = v /\ golden[c][v] = SourceOf(want[d])
    BY DEF IInv, ResultsOfTheName
  <2>2. want[c] \in Template /\ want[d] \in Template
    BY Wanted DEF IInv
  <2>3. want[d] = want[c]
    BY <2>1, <2>2, NamesApart DEF NameOf
  <2> QED
    BY <2>1, <2>3
<1> QED
  BY <1>1, Invariant, PTL

------------------------------------------------------------------------------
(***************************************************************************)
(* The worker pods: no container stops before the pod's action ends while  *)
(* the admin pages answer, and no container is left to SIGKILL.            *)
(***************************************************************************)
HookState == {"none", "ask", "wait", "sleep", "stopped"}

\* The places of the script, from which a container has yet to stop.
Within == {"ask", "wait", "sleep"}

Asked == UNCHANGED <<faults, act, runs, pod, age>>

LEMMA KilledIsLate ==
  /\ Killed \in Nat /\ DrainTimeout \in Nat /\ Fallback \in Nat
  /\ Killed > DrainTimeout /\ Fallback <= DrainTimeout
BY DrainAssumption DEF Killed

\* A hook moves to another place, and no other hook does.
LEMMA GoesType ==
  ASSUME TypeOK, NEW p \in Pod, NEW c \in Container, NEW from, NEW to \in HookState,
         Goes(p, c, from, to)
  PROVE  /\ hook' \in [Pod -> [Container -> HookState]]
         /\ hook[p][c] = from
         /\ hook'[p][c] = to
         /\ \A q \in Pod, d \in Container : <<q, d>> # <<p, c>> => hook'[q][d] = hook[q][d]
BY DEF TypeOK, Goes, HookState

\* What every command of the script does to hooks and drains.
LEMMA ScriptStep ==
  ASSUME TypeOK, NEW p \in Pod, NEW c \in Container, Script(p, c)
  PROVE  /\ Asked
         /\ drained \subseteq drained' /\ drained' \subseteq drained \cup {p}
         /\ \E from \in Within, to \in {"wait", "sleep", "stopped"} : Goes(p, c, from, to)
<1>1. CASE Ask(p, c)
  BY <1>1 DEF Ask, Asked, Within
<1>2. CASE AskFails(p, c)
  BY <1>2 DEF AskFails, Asked, Within
<1>3. CASE Sleep(p, c)
  BY <1>3 DEF Sleep, Asked, Within
<1>4. CASE Poll(p, c)
  BY <1>4 DEF Poll, Asked, Within
<1>5. CASE GiveUp(p, c)
  BY <1>5 DEF GiveUp, Asked, Within
<1>6. QED
  BY <1>1, <1>2, <1>3, <1>4, <1>5 DEF Script

------------------------------------------------------------------------------
LEMMA InitType == Init => TypeOK
BY KilledIsLate DEF Init, TypeOK

LEMMA NextType == TypeOK /\ [Next]_vars => TypeOK'
<1> SUFFICES ASSUME TypeOK, [Next]_vars PROVE TypeOK'
  OBVIOUS
<1>1. ASSUME NEW p \in Pod, NEW a \in Action, Assign(p, a) PROVE TypeOK'
  <2>1. /\ act' \in [Action -> {"queued", "running", "done", "failed"}]
        /\ runs' \in [Pod -> Action \cup {None}]
    BY <1>1 DEF TypeOK, Assign
  <2>2. \A b \in Action : act'[b] = "running" => \E q \in Pod : runs'[q] = b
    <3> SUFFICES ASSUME NEW b \in Action, act'[b] = "running" PROVE \E q \in Pod : runs'[q] = b
      OBVIOUS
    <3>1. CASE b = a
      BY <1>1, <3>1 DEF TypeOK, Assign
    <3>2. CASE b # a
      <4>1. PICK q \in Pod : runs[q] = b
        BY <1>1, <3>2 DEF TypeOK, Assign
      <4>2. q # p
        BY <1>1, <4>1, DrainAssumption DEF Assign
      <4>3. QED
        BY <1>1, <4>1, <4>2 DEF TypeOK, Assign
    <3>3. QED
      BY <3>1, <3>2
  <2>3. QED
    BY <1>1, <2>1, <2>2 DEF TypeOK, Assign
<1>2. ASSUME NEW p \in Pod, Complete(p) PROVE TypeOK'
  <2>1. runs[p] \in Action
    BY <1>2 DEF TypeOK, Complete
  <2>2. /\ act' \in [Action -> {"queued", "running", "done", "failed"}]
        /\ runs' \in [Pod -> Action \cup {None}]
    BY <1>2, <2>1 DEF TypeOK, Complete
  <2>3. \A b \in Action : act'[b] = "running" => \E q \in Pod : runs'[q] = b
    <3> SUFFICES ASSUME NEW b \in Action, act'[b] = "running" PROVE \E q \in Pod : runs'[q] = b
      OBVIOUS
    <3>1. b # runs[p] /\ act[b] = "running"
      BY <1>2, <2>1 DEF TypeOK, Complete
    <3>2. PICK q \in Pod : runs[q] = b
      BY <3>1 DEF TypeOK
    <3>3. QED
      BY <1>2, <3>1, <3>2 DEF TypeOK, Complete
  <2>4. QED
    BY <1>2, <2>2, <2>3 DEF TypeOK, Complete
<1>3. ASSUME NEW p \in Pod, Delete(p) PROVE TypeOK'
  BY <1>3 DEF TypeOK, Delete
<1>4. ASSUME NEW p \in Pod, Leave(p) PROVE TypeOK'
  BY <1>4 DEF TypeOK, Leave
<1>5. ASSUME NEW p \in Pod, NEW c \in Container, Script(p, c) PROVE TypeOK'
  <2>1. PICK from \in Within, to \in {"wait", "sleep", "stopped"} : Goes(p, c, from, to)
    BY <1>5, ScriptStep
  <2>2. hook' \in [Pod -> [Container -> HookState]]
    BY <2>1, GoesType DEF HookState
  <2>3. QED
    BY <1>5, <2>2, ScriptStep DEF TypeOK, Asked, HookState
<1>6. CASE Tick
  <2>1. age' \in [Pod -> 0..Killed]
    BY <1>6, KilledIsLate DEF TypeOK, Tick, Ticking
  <2>2. QED
    BY <1>6, <2>1 DEF TypeOK, Tick
<1>7. CASE UNCHANGED vars
  BY <1>7 DEF TypeOK, vars
<1>8. QED
  BY <1>1, <1>2, <1>3, <1>4, <1>5, <1>6, <1>7 DEF Next

\* Every state has the type the model gives it, and an action the scheduler
\* counts as running is on a pod.
THEOREM DrainTypeCorrect == Spec => []TypeOK
<1>1. QED
  BY InitType, NextType, PTL DEF Spec

------------------------------------------------------------------------------
(* While the admin pages answer, a hook waits under a drain, and stops under *)
(* one or at its deadline: so an idle pod seen by one hook is idle for all.  *)

Agreed(p, c) ==
  /\ hook[p][c] # "sleep"
  /\ hook[p][c] = "wait" => p \in drained
  /\ hook[p][c] = "stopped" => p \in drained \/ age[p] >= DrainTimeout
  /\ hook[p][c] = "stopped" /\ runs[p] # None => age[p] >= DrainTimeout

Answered == faults = {} => \A p \in Pod, c \in Container : Agreed(p, c)

LEMMA NextAnswered == TypeOK /\ TypeOK' /\ Answered /\ [Next]_vars => Answered'
<1> SUFFICES ASSUME TypeOK, TypeOK', Answered, [Next]_vars, faults' = {},
                    NEW q \in Pod, NEW d \in Container
             PROVE  Agreed(q, d)'
  BY DEF Answered
<1>0. faults = {} /\ faults' = faults
  BY DEF Next, vars, Assign, Complete, Delete, Leave, Script, Ask, AskFails, Sleep, Poll,
         GiveUp, Tick
<1> USE DEF TypeOK
<1>a. Agreed(q, d) /\ Agreed(q, "worker")
  BY <1>0, DrainAssumption DEF Answered
<1>1. ASSUME NEW p \in Pod, NEW a \in Action, Assign(p, a) PROVE Agreed(q, d)'
  BY <1>1, <1>a DEF Assign, Agreed
<1>2. ASSUME NEW p \in Pod, Complete(p) PROVE Agreed(q, d)'
  BY <1>2, <1>a DEF Complete, Agreed
<1>3. ASSUME NEW p \in Pod, Delete(p) PROVE Agreed(q, d)'
  BY <1>3, <1>a DEF Delete, Agreed
<1>4. ASSUME NEW p \in Pod, Leave(p) PROVE Agreed(q, d)'
  <2>1. CASE q # p
    BY <1>4, <1>a, <2>1 DEF Leave, Agreed
  <2>2. CASE q = p
    <3>1. hook[q]["worker"] = "stopped" \/ age[q] >= DrainTimeout
      BY <1>4, <2>2, KilledIsLate, DrainAssumption DEF Leave
    <3>2. QED
      BY <1>4, <1>a, <2>2, <3>1 DEF Leave, Agreed
  <2>3. QED
    BY <2>1, <2>2
<1>5. ASSUME NEW p \in Pod, NEW c \in Container, Script(p, c) PROVE Agreed(q, d)'
  <2>1. /\ runs' = runs /\ age' = age /\ drained \subseteq drained'
    BY <1>5, ScriptStep DEF Asked
  <2>2. CASE <<q, d>> # <<p, c>>
    <3>1. PICK from \in Within, to \in {"wait", "sleep", "stopped"} : Goes(p, c, from, to)
      BY <1>5, ScriptStep
    <3>2. hook'[q][d] = hook[q][d]
      BY <2>2, <3>1 DEF Goes
    <3>3. QED
      BY <1>a, <2>1, <3>2 DEF Agreed
  <2>3. CASE <<q, d>> = <<p, c>>
    <3>1. CASE Ask(q, d)
      BY <3>1 DEF Ask, Goes, Agreed
    <3>2. CASE Poll(q, d)
      BY <1>0, <1>a, <3>2 DEF Poll, Goes, Agreed
    <3>3. CASE GiveUp(q, d)
      BY <1>a, <3>3 DEF GiveUp, Goes, Agreed
    <3>4. ~ AskFails(q, d) /\ ~ Sleep(q, d)
      BY <1>0, <1>a DEF AskFails, Sleep, Goes, Agreed
    <3>5. QED
      BY <1>5, <2>3, <3>1, <3>2, <3>3, <3>4 DEF Script
  <2>4. QED
    BY <2>2, <2>3
<1>6. CASE Tick
  <2>1. age'[q] >= age[q] /\ age'[q] \in Nat /\ age[q] \in Nat
    BY <1>6, KilledIsLate DEF Tick
  <2>2. QED
    BY <1>6, <1>a, <2>1, KilledIsLate DEF Tick, Agreed
<1>7. CASE UNCHANGED vars
  BY <1>7, <1>a DEF vars, Agreed
<1>8. QED
  BY <1>1, <1>2, <1>3, <1>4, <1>5, <1>6, <1>7 DEF Next

\* While the admin pages answer, no container stops before its pod's action
\* ends, unless the time the drain has is over (drain.sh).
THEOREM NoneStopsHolds == Spec => []NoneStopsIfAnswered
<1>1. Init => Answered
  BY DEF Init, Answered, Agreed
<1>2. Answered => NoneStopsIfAnswered
  BY DEF Answered, Agreed, NoneStopsIfAnswered, NoneStopsBeforeTheAction
<1>3. QED
  BY <1>1, <1>2, NextAnswered, DrainTypeCorrect, PTL DEF Spec

------------------------------------------------------------------------------
(* Each command of a hook is due a grace period before SIGKILL, whatever the *)
(* scheduler answers.                                                        *)

InTime(p) ==
  /\ pod[p] = "up" => age[p] = 0
  /\ pod[p] = "deleted" => \A c \in Container : hook[p][c] # "none"
  /\ pod[p] = "gone" \/ age[p] = Killed => \A c \in Container : hook[p][c] = "stopped"

AllInTime == \A p \in Pod : InTime(p)

LEMMA NextInTime == TypeOK /\ TypeOK' /\ AllInTime /\ [Next]_vars => AllInTime'
<1> SUFFICES ASSUME TypeOK, TypeOK', AllInTime, [Next]_vars, NEW q \in Pod
             PROVE  InTime(q)'
  BY DEF AllInTime
<1> USE DEF TypeOK
<1>a. InTime(q)
  BY DEF AllInTime
<1>1. ASSUME NEW p \in Pod, NEW a \in Action, Assign(p, a) PROVE InTime(q)'
  BY <1>1, <1>a DEF Assign, InTime
<1>2. ASSUME NEW p \in Pod, Complete(p) PROVE InTime(q)'
  BY <1>2, <1>a DEF Complete, InTime
<1>3. ASSUME NEW p \in Pod, Delete(p) PROVE InTime(q)'
  BY <1>3, <1>a, KilledIsLate DEF Delete, InTime
<1>4. ASSUME NEW p \in Pod, Leave(p) PROVE InTime(q)'
  BY <1>4, <1>a DEF Leave, InTime
<1>5. ASSUME NEW p \in Pod, NEW c \in Container, Script(p, c) PROVE InTime(q)'
  <2>1. pod' = pod /\ age' = age
    BY <1>5, ScriptStep DEF Asked
  <2>2. PICK from \in Within, to \in {"wait", "sleep", "stopped"} : Goes(p, c, from, to)
    BY <1>5, ScriptStep
  <2>3. CASE q # p
    <3>1. \A d \in Container : hook'[q][d] = hook[q][d]
      BY <2>2, <2>3, GoesType DEF HookState
    <3>2. QED
      BY <1>a, <2>1, <3>1 DEF InTime
  <2>4. CASE q = p
    <3>1. hook[q][c] # "stopped" /\ hook'[q][c] # "none"
      BY <2>2, <2>4 DEF Goes, Within
    <3>2. \A d \in Container : d # c => hook'[q][d] = hook[q][d]
      BY <2>2, <2>4 DEF Goes
    <3>3. QED
      BY <1>a, <2>1, <3>1, <3>2 DEF InTime
  <2>5. QED
    BY <2>3, <2>4
<1>6. CASE Tick
  <2>1. pod' = pod /\ hook' = hook
    BY <1>6 DEF Tick
  <2>2. CASE q \notin Ticking
    <3>1. age'[q] = age[q]
      BY <1>6, <2>2 DEF Tick
    <3>2. QED
      BY <1>a, <2>1, <3>1 DEF InTime
  <2>3. CASE q \in Ticking
    <3>1. pod[q] = "deleted" /\ age'[q] = age[q] + 1
      BY <1>6, <2>3 DEF Tick, Ticking
    <3>2. ASSUME age'[q] = Killed, NEW d \in Container PROVE hook[q][d] = "stopped"
      <4>1. age[q] >= DrainTimeout /\ age[q] >= Fallback
        BY <3>1, <3>2, KilledIsLate
      <4>2. ~ Due(q, d)
        BY <1>6, <2>3 DEF Tick
      <4>3. QED
        BY <1>a, <3>1, <4>1, <4>2 DEF Due, InTime
    <3>3. QED
      BY <1>a, <2>1, <3>1, <3>2 DEF InTime
  <2>4. QED
    BY <2>2, <2>3
<1>7. CASE UNCHANGED vars
  BY <1>7, <1>a DEF vars, InTime
<1>8. QED
  BY <1>1, <1>2, <1>3, <1>4, <1>5, <1>6, <1>7 DEF Next

\* Whatever the admin pages answer, every hook has ended when the grace period
\* is over: the kubelet's SIGKILL ends no script (values.yaml).
THEOREM HooksEndHolds == Spec => []HookEndsBeforeKill
<1>1. Init => AllInTime
  BY KilledIsLate DEF Init, AllInTime, InTime
<1>2. AllInTime => HookEndsBeforeKill
  BY DEF AllInTime, InTime, HookEndsBeforeKill
<1>3. QED
  BY <1>1, <1>2, NextInTime, DrainTypeCorrect, PTL DEF Spec
==============================================================================
