---------------------------- MODULE WorkerDrain -----------------------------
(***************************************************************************)
(* Deleting worker pods of the Buildbarn chart (files/drain.sh, the hooks  *)
(* and the grace period in templates/workers.yaml).  Every container of a  *)
(* deleted pod runs the same preStop script: it asks the scheduler to      *)
(* assign no more actions to the pod, waits until the scheduler does not   *)
(* list the pod as executing, and returns; then the container gets         *)
(* SIGTERM.  The scheduler, the kubelet and Kubernetes' deletions are      *)
(* modelled as the chart uses them.                                        *)
(*                                                                         *)
(* Time is counted in ticks, for deleted pods only.  Left out: restarts of *)
(* the scheduler, the start of a pod, the pod-deletion-cost.               *)
(***************************************************************************)
EXTENDS Naturals, FiniteSets

CONSTANTS
  Pod,
  Container,      \* of each pod, "worker" and "runner" among them
  Action,
  DrainTimeout,   \* workerDrainTimeoutSeconds
  Grace,          \* what terminationGracePeriodSeconds adds to it
  Fallback,       \* workerTerminationDelaySeconds
  Scenarios,      \* the sets of faults the admin pages may have: "lost", a request fails
                  \* though the next one succeeds; "down", they cannot be reached
  None            \* no action

ASSUME DrainAssumption ==
  /\ {"worker", "runner"} \subseteq Container
  /\ DrainTimeout \in Nat /\ Grace \in Nat \ {0}
  /\ Fallback \in 0..DrainTimeout
  /\ Scenarios \subseteq SUBSET {"lost", "down"}
  /\ None \notin Action

\* Mutant: terminationGracePeriodSeconds is the drain's own time.
KilledAtTimeout == DrainTimeout

Killed == DrainTimeout + Grace   \* the pod's age at which the kubelet sends SIGKILL

VARIABLES
  faults,    \* of this scenario; never changes
  act,       \* action -> "queued", "running", "done", "failed"
  runs,      \* pod -> the action it executes, or None
  drained,   \* the pods the scheduler has a drain for
  pod,       \* pod -> "up", "deleted", "gone"
  hook,      \* pod -> container -> "none", "ask", "wait", "sleep", "stopped"
  age        \* pod -> ticks since it was deleted

vars == <<faults, act, runs, drained, pod, hook, age>>

Init ==
  /\ faults \in Scenarios
  /\ act = [a \in Action |-> "queued"]
  /\ runs = [p \in Pod |-> None]
  /\ drained = {}
  /\ pod = [p \in Pod |-> "up"]
  /\ hook = [p \in Pod |-> [c \in Container |-> "none"]]
  /\ age = [p \in Pod |-> 0]

------------------------------------------------------------------------------
\* Mutant: whatever the worker executes.
AssignMore(p, a) ==
  /\ act[a] = "queued"
  /\ p \notin drained
  /\ pod[p] # "gone"
  /\ hook[p]["worker"] # "stopped"
  /\ act' = [act EXCEPT ![a] = "running"]
  /\ runs' = [runs EXCEPT ![p] = a]
  /\ UNCHANGED <<faults, drained, pod, hook, age>>

\* The scheduler answers an idle worker's Synchronize with an action.
Assign(p, a) ==
  /\ act[a] = "queued"
  /\ runs[p] = None
  /\ p \notin drained
  /\ pod[p] # "gone"
  /\ hook[p]["worker"] # "stopped"
  /\ act' = [act EXCEPT ![a] = "running"]
  /\ runs' = [runs EXCEPT ![p] = a]
  /\ UNCHANGED <<faults, drained, pod, hook, age>>

Broken(p) == \E c \in {"worker", "runner"} : hook[p][c] = "stopped"

\* The action ends, or fails its client because a container it needs is gone.
Complete(p) ==
  /\ runs[p] # None
  /\ act' = [act EXCEPT ![runs[p]] = IF Broken(p) THEN "failed" ELSE "done"]
  /\ runs' = [runs EXCEPT ![p] = None]
  /\ UNCHANGED <<faults, drained, pod, hook, age>>

\* Scale-in, node drain or rollout.
Delete(p) ==
  /\ pod[p] = "up"
  /\ pod' = [pod EXCEPT ![p] = "deleted"]
  /\ hook' = [hook EXCEPT ![p] = [c \in Container |-> "ask"]]
  /\ UNCHANGED <<faults, act, runs, drained, age>>

------------------------------------------------------------------------------
Goes(p, c, from, to) == hook[p][c] = from /\ hook' = [hook EXCEPT ![p][c] = to]

\* Mutant: no drain for an idle worker.
AskIfBusy(p, c) ==
  /\ Goes(p, c, "ask", IF runs[p] = None THEN "stopped" ELSE "wait")
  /\ drained' = IF runs[p] = None THEN drained ELSE drained \cup {p}
  /\ UNCHANGED <<faults, act, runs, pod, age>>

\* The add_drain request.
Ask(p, c) ==
  /\ Goes(p, c, "ask", "wait")
  /\ drained' = drained \cup {p}
  /\ UNCHANGED <<faults, act, runs, pod, age>>

\* It fails.  The script takes a failure for a 404 (no queue, so no worker)
\* when the scheduler can be reached afterwards; the chart predeclares the
\* queue, so no request of this script is answered with 404.
AskFails(p, c) ==
  /\ \/ "lost" \in faults /\ Goes(p, c, "ask", "stopped") /\ drained' \in {drained, drained \cup {p}}
     \/ "down" \in faults /\ Goes(p, c, "ask", "sleep") /\ UNCHANGED drained
  /\ UNCHANGED <<faults, act, runs, pod, age>>

\* The fixed delay is over.
Sleep(p, c) ==
  /\ age[p] >= Fallback
  /\ Goes(p, c, "sleep", "stopped")
  /\ UNCHANGED <<faults, act, runs, drained, pod, age>>

\* One turn of the loop: the page does not list the pod, or it cannot be had
\* though the scheduler can be reached.
Poll(p, c) ==
  /\ age[p] < DrainTimeout
  /\ runs[p] = None \/ "lost" \in faults
  /\ Goes(p, c, "wait", "stopped")
  /\ UNCHANGED <<faults, act, runs, drained, pod, age>>

GiveUp(p, c) ==
  /\ age[p] >= DrainTimeout
  /\ Goes(p, c, "wait", "stopped")
  /\ UNCHANGED <<faults, act, runs, drained, pod, age>>

Script(p, c) == Ask(p, c) \/ AskFails(p, c) \/ Sleep(p, c) \/ Poll(p, c) \/ GiveUp(p, c)

------------------------------------------------------------------------------
\* All containers have stopped, or the grace period is over.
Leave(p) ==
  /\ pod[p] = "deleted"
  /\ (\A c \in Container : hook[p][c] = "stopped") \/ age[p] = Killed
  /\ pod' = [pod EXCEPT ![p] = "gone"]
  /\ hook' = [hook EXCEPT ![p] = [c \in Container |-> "stopped"]]
  /\ UNCHANGED <<faults, act, runs, drained, age>>

\* A script's commands take a few seconds: less than a tick.
Due(p, c) ==
  \/ hook[p][c] = "ask"
  \/ hook[p][c] = "sleep" /\ age[p] >= Fallback
  \/ hook[p][c] = "wait" /\ age[p] >= DrainTimeout

Ticking == {p \in Pod : pod[p] = "deleted" /\ age[p] < Killed}

Tick ==
  /\ Ticking # {}
  /\ ~ \E p \in Ticking, c \in Container : Due(p, c)
  /\ age' = [p \in Pod |-> IF p \in Ticking THEN age[p] + 1 ELSE age[p]]
  /\ UNCHANGED <<faults, act, runs, drained, pod, hook>>

Next ==
  \/ \E p \in Pod, a \in Action : Assign(p, a)
  \/ \E p \in Pod : Complete(p) \/ Delete(p) \/ Leave(p)
  \/ \E p \in Pod, c \in Container : Script(p, c)
  \/ Tick

Spec == Init /\ [][Next]_vars

------------------------------------------------------------------------------
TypeOK ==
  /\ faults \in Scenarios
  /\ act \in [Action -> {"queued", "running", "done", "failed"}]
  /\ runs \in [Pod -> Action \cup {None}]
  /\ drained \subseteq Pod
  /\ pod \in [Pod -> {"up", "deleted", "gone"}]
  /\ hook \in [Pod -> [Container -> {"none", "ask", "wait", "sleep", "stopped"}]]
  /\ age \in [Pod -> 0..Killed]
  /\ \A a \in Action : act[a] = "running" => \E p \in Pod : runs[p] = a

\* "Every container of the pod runs the same script, so none stops before the
\* last action ends" (drain.sh), within the time the drain has.
NoneStopsBeforeTheAction ==
  \A p \in Pod, c \in Container :
    hook[p][c] = "stopped" /\ runs[p] # None => age[p] >= DrainTimeout

\* It is so while the admin pages answer: three hooks that ask and look at
\* their own pace agree on when the pod is idle for good.
NoneStopsIfAnswered == faults = {} => NoneStopsBeforeTheAction

\* "The pod's grace period is this plus a minute" (values.yaml): the script
\* ends before the kubelet kills what it protects.
HookEndsBeforeKill ==
  \A p \in Pod : age[p] = Killed => \A c \in Container : hook[p][c] = "stopped"
=============================================================================
