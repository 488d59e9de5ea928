------------------------------ MODULE GoldenJob ------------------------------
(***************************************************************************)
(* br2 golden --k8s (golden_job in scripts/br2): the reference build as a  *)
(* Kubernetes Job.  A client applies the Job, asks for its status every 15 *)
(* seconds, reads the results from the pod's log, unpacks them over its    *)
(* golden/ and results/, and deletes the Job; each of these is one kubectl *)
(* call, and nothing but the Job's name says that they all meet the same   *)
(* Job.  The name is made of the project's name and the commit, cleaned    *)
(* and cut, so different wishes may share it.  Git, the API server and the *)
(* Job controller are modelled as the command uses them.                   *)
(*                                                                         *)
(* Every client is a person at a clone of their own, who runs the command  *)
(* again, with the same options, until it has written the results.  Left   *)
(* out: the volume of downloads (a Job that waits for it is one that has   *)
(* not cloned yet), golden/sources.lock.json, which comes with the rest    *)
(* and which Vendoring has, the options other than --vanilla, which everybody  *)
(* leaves alone, and names that end in "-", which the API server refuses.  *)
(***************************************************************************)
EXTENDS Naturals, Sequences

CONSTANTS
  Client,
  Project,
  Commit,
  Char,
  Letters,        \* [Project -> Seq(Char)], the name in project.json
  Digits,         \* [Commit -> Seq(Char)], the commit's hash
  Plain,          \* [Char -> Char], the lower case of a letter or digit, or "-"
  Wants,          \* what may be asked for
  MaxFailures,    \* builds that fail (a download, an eviction, the deadline)
  MaxStops,       \* commands that are interrupted, or give up on the Job
  Nothing         \* no Job, no manifest

\* Where a manifest comes from; and what the Job's script depends on: that,
\* and --vanilla.
Source == [project : Project, ref : Commit]

Variety == {"instrumented", "vanilla"}

Template == [project : Project, ref : Commit, variety : Variety]

ASSUME GoldenJobAssumption ==
  /\ Letters \in [Project -> Seq(Char)]
  /\ Digits \in [Commit -> Seq(Char)]
  /\ \A r \in Commit : Len(Digits[r]) >= 8
  /\ Plain \in [Char -> Char]
  /\ Wants \subseteq Template
  /\ MaxFailures \in Nat
  /\ MaxStops \in Nat
  /\ Nothing \notin Source

VARIABLES
  want,       \* client -> the golden they ask for; never changes
  at,         \* client -> "shell", "waiting", "log", "written", "done"
  golden,     \* client -> variety -> the source that golden/rootfs.*.manifest.json is of
  pushed,     \* the commits that origin has
  job,        \* name -> the Job's template and phase, or Nothing
  failures,
  stops

jobVars == <<want, at, golden, pushed, job, failures, stops>>

SourceOf(t) == [project |-> t.project, ref |-> t.ref]

(***************************************************************************)
(* The Job's name: "golden-", the project's name in lower case with "-" in *)
(* place of what Kubernetes does not allow, and eight digits of the        *)
(* commit, all of it cut to 60 characters.  The variety is not in it.      *)
(***************************************************************************)
Prefix == <<"g", "o", "l", "d", "e", "n", "-">>

Cleaned(p) == [i \in 1..Len(Letters[p]) |-> Plain[Letters[p][i]]]

Short(r) == SubSeq(Digits[r], 1, 8)

First(s, n) == SubSeq(s, 1, IF Len(s) < n THEN Len(s) ELSE n)

\* Mutant: the project's name is enough.
NameOfProject == [t \in Template |-> First(Prefix \o Cleaned(t.project), 60)]

Name == [t \in Template |-> First(Prefix \o Cleaned(t.project) \o <<"-">> \o Short(t.ref), 60)]

Names == {Name[t] : t \in Wants}

JobInit ==
  /\ want \in [Client -> Wants]
  /\ at = [c \in Client |-> "shell"]
  /\ golden = [c \in Client |-> [v \in Variety |-> Nothing]]
  /\ pushed \in SUBSET Commit
  /\ job = [n \in Names |-> Nothing]
  /\ failures = 0
  /\ stops = 0

NameOf(c) == Name[want[c]]

JobOf(c) == job[NameOf(c)]

Over(j) == j # Nothing /\ j.phase \in {"succeeded", "failed"}

Goto(c, place) == at' = [at EXCEPT ![c] = place]

SetJob(n, j) == job' = [job EXCEPT ![n] = j]

------------------------------------------------------------------------------
(***************************************************************************)
(* A client.                                                               *)
(***************************************************************************)

\* kubectl apply creates the Job, or leaves the one that is there as it is;
\* a Job's template is immutable, so another one makes it fail.
Apply(c) ==
  /\ at[c] = "shell"
  /\ JobOf(c) # Nothing => JobOf(c).template = want[c]
  /\ IF JobOf(c) = Nothing
     THEN SetJob(NameOf(c), [template |-> want[c], phase |-> "new"])
     ELSE UNCHANGED job
  /\ Goto(c, "waiting")
  /\ UNCHANGED <<want, golden, pushed, failures, stops>>

\* kubectl get job, which fails when there is none.
Get(c) ==
  /\ at[c] = "waiting"
  /\ \/ JobOf(c) = Nothing /\ Goto(c, "shell")
     \/ Over(JobOf(c)) /\ Goto(c, "log")
  /\ UNCHANGED <<want, golden, pushed, job, failures, stops>>

\* What is unpacked goes where the Job's tar says.
Unpack(c, t) == golden' = [golden EXCEPT ![c][t.variety] = SourceOf(t)]

Succeeded(j) == j # Nothing /\ j.phase = "succeeded"

\* Mutants: a log without results is taken for one with; the log is found by
\* the label that all golden Jobs have.
LogsUnchecked(c) ==
  /\ at[c] = "log"
  /\ IF Succeeded(JobOf(c)) THEN Unpack(c, JobOf(c).template) ELSE UNCHANGED golden
  /\ Goto(c, "written")
  /\ UNCHANGED <<want, pushed, job, failures, stops>>

LogsByLabel(c) ==
  /\ at[c] = "log"
  /\ \/ /\ \E n \in Names : Succeeded(job[n]) /\ Unpack(c, job[n].template)
        /\ Goto(c, "written")
     \/ /\ \A n \in Names : ~Succeeded(job[n])
        /\ Goto(c, "shell")
        /\ UNCHANGED golden
  /\ UNCHANGED <<want, pushed, job, failures, stops>>

\* kubectl logs, and the results unpacked when both markers are there.  A Job
\* that failed is left in place.
Logs(c) ==
  /\ at[c] = "log"
  /\ \/ /\ Succeeded(JobOf(c))
        /\ Unpack(c, JobOf(c).template)
        /\ Goto(c, "written")
     \/ /\ ~Succeeded(JobOf(c))
        /\ Goto(c, "shell")
        /\ UNCHANGED golden
  /\ UNCHANGED <<want, pushed, job, failures, stops>>

\* kubectl delete job --ignore-not-found, whatever Job now has the name.
DeleteJob(c) ==
  /\ at[c] = "written"
  /\ SetJob(NameOf(c), Nothing)
  /\ Goto(c, "done")
  /\ UNCHANGED <<want, golden, pushed, failures, stops>>

\* The command is interrupted, or has waited for the Job's deadline and five
\* minutes more; the Job is left in place.
Stop(c) ==
  /\ stops < MaxStops
  /\ \/ at[c] \in {"waiting", "log"} /\ Goto(c, "shell")
     \/ at[c] = "written" /\ Goto(c, "done")
  /\ stops' = stops + 1
  /\ UNCHANGED <<want, golden, pushed, job, failures>>

------------------------------------------------------------------------------
(***************************************************************************)
(* The rest of the world.                                                  *)
(***************************************************************************)

Push(r) ==
  /\ r \notin pushed
  /\ pushed' = pushed \cup {r}
  /\ UNCHANGED <<want, at, golden, job, failures, stops>>

\* The Job's git clone and checkout.
Clone(n) ==
  /\ job[n] # Nothing
  /\ job[n].phase = "new"
  /\ SetJob(n, [job[n] EXCEPT !.phase =
                  IF job[n].template.ref \in pushed THEN "building" ELSE "failed"])
  /\ UNCHANGED <<want, at, golden, pushed, failures, stops>>

\* Setup, fetch, golden and the results; with a backoffLimit of 0 the Job
\* ends with its pod.
Build(n) ==
  /\ job[n] # Nothing
  /\ job[n].phase = "building"
  /\ \/ /\ SetJob(n, [job[n] EXCEPT !.phase = "succeeded"])
        /\ UNCHANGED failures
     \/ /\ failures < MaxFailures
        /\ SetJob(n, [job[n] EXCEPT !.phase = "failed"])
        /\ failures' = failures + 1
  /\ UNCHANGED <<want, at, golden, pushed, stops>>

\* Mutant: a Job without ttlSecondsAfterFinished.
NeverExpires(n) == Over(job[n]) /\ UNCHANGED jobVars

\* ttlSecondsAfterFinished: an hour, in which whoever waits for results has
\* asked for them.  (A Job that failed may expire under those who apply it
\* again and again.)
Expire(n) ==
  /\ Over(job[n])
  /\ Succeeded(job[n]) =>
       \A c \in Client : NameOf(c) = n => at[c] \notin {"waiting", "log"}
  /\ SetJob(n, Nothing)
  /\ UNCHANGED <<want, at, golden, pushed, failures, stops>>

Ended == (\A c \in Client : at[c] = "done") /\ UNCHANGED jobVars

JobNext ==
  \/ \E r \in Commit : Push(r)
  \/ \E n \in Names : Clone(n) \/ Build(n) \/ Expire(n)
  \/ \E c \in Client : Apply(c) \/ Get(c) \/ Logs(c) \/ DeleteJob(c) \/ Stop(c)
  \/ Ended

JobSpec == JobInit /\ [][JobNext]_jobVars

\* The commits are pushed in the end, people try again, a command goes on, and
\* so do the Job and its controller.
Fairness ==
  /\ \A c \in Client : WF_jobVars(Apply(c)) /\ WF_jobVars(Get(c)) /\ WF_jobVars(Logs(c)) /\ WF_jobVars(DeleteJob(c))
  /\ \A r \in Commit : WF_jobVars(Push(r))
  /\ \A n \in Names : WF_jobVars(Clone(n)) /\ WF_jobVars(Build(n)) /\ WF_jobVars(Expire(n))

FairSpec == JobSpec /\ Fairness

------------------------------------------------------------------------------
(***************************************************************************)
(* Properties.                                                             *)
(***************************************************************************)

\* The type invariant.  Whoever is done has a manifest of some variety.
JobTypeOK ==
  /\ want \in [Client -> Wants]
  /\ at \in [Client -> {"shell", "waiting", "log", "written", "done"}]
  /\ golden \in [Client -> [Variety -> Source \cup {Nothing}]]
  /\ \A c \in Client : at[c] = "done" => \E v \in Variety : golden[c][v] # Nothing
  /\ pushed \subseteq Commit
  /\ \A n \in Names :
       job[n] # Nothing => /\ job[n].template \in Wants
                        /\ job[n].phase \in {"new", "building", "succeeded", "failed"}
  /\ failures \in 0..MaxFailures
  /\ stops \in 0..MaxStops

\* Whatever other clients do between a client's calls, delete the Job it waits
\* for and create another one, the results that it unpacks are what somebody
\* asked for under the name that it looks for, and they lie where a golden of
\* that variety lies.
ResultsOfTheName ==
  \A c \in Client, v \in Variety : golden[c][v] # Nothing =>
    \E d \in Client :
      /\ NameOf(d) = NameOf(c)
      /\ want[d].variety = v
      /\ golden[c][v] = SourceOf(want[d])

\* The name of a project with up to 44 letters is not cut.
Fits(p) == Len(Letters[p]) <= 44

\* Two wishes that the Job's name keeps apart: of commits with other first
\* digits, or of projects whose names are cleaned to something else.
Apart(x, y) ==
  /\ Fits(x.project) /\ Fits(y.project)
  /\ Short(x.ref) # Short(y.ref) \/ Cleaned(x.project) # Cleaned(y.project)

\* The results that a client unpacks are of its own project and commit and of
\* the variety it asked for, if every other wish in the cluster is Apart.  (A
\* wish for the other variety of the same commit never is.)
OwnResults ==
  \A c \in Client :
    (\A d \in Client : want[d] # want[c] => Apart(want[c], want[d])) =>
      \A v \in Variety : golden[c][v] # Nothing =>
        golden[c][v] = SourceOf(want[c]) /\ v = want[c].variety

\* "The Job clones the current commit", and "results written" names the files
\* of the variety asked for: who is told so has the manifest asked for.
WrittenIsWanted ==
  \A c \in Client : at[c] = "written" => golden[c][want[c].variety] = SourceOf(want[c])

\* Everybody who tries again gets results: a Job that failed, because its
\* commit was not pushed yet or otherwise, stands in the way of the next try
\* for an hour at most.
Collected == <>[](\A c \in Client : at[c] = "done")
=============================================================================
