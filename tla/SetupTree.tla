----------------------------- MODULE SetupTree ------------------------------
(***************************************************************************)
(* `br2 setup`: scripts/fetch-buildroot.sh, run as often as the user wants *)
(* to.  It fetches the Buildroot tree and the project's external tree      *)
(* where they are not there yet, writes down what it fetched, and patches  *)
(* each tree once.                                                         *)
(*                                                                         *)
(* The script runs under `set -e`: a command that fails ends it, and so    *)
(* does a signal; both leave on disk what the commands before have done.   *)
(* The exception is bash's: inside `apply_patches && touch` errexit is     *)
(* off, and the function's status is that of its loop's last turn.         *)
(***************************************************************************)
EXTENDS Naturals, Sequences, SequencesExt

CONSTANTS
  File,        \* files of patches/buildroot/ and patches/external/
  Projects,    \* what a project may be: see Project
  MaxStops,    \* bound: failures and interruptions
  None         \* not a file

Trees == {"buildroot", "external"}

Commands == {"clone", "init", "fetch", "checkout", "pin",
             "ext_clone", "ext_checkout", "ext_copy", "ext_pin",
             "patch_buildroot", "patch_external"}

Project ==
  [source  : {"ref", "commit"},                      \* how project.json names the Buildroot tree
   ext     : {"none", "local", "whole", "subdir"},   \* the last two: external_repo
   patches : [Trees -> Seq(File)],                   \* *.patch, by name
   scripts : [Trees -> Seq(File)],                   \* *.sh, by name
   broken  : SUBSET File,                            \* they fail on a freshly fetched tree
   stopAt  : SUBSET Commands]                        \* what may fail or be interrupted

ASSUME SetupAssumption ==
  /\ Projects \subseteq Project
  /\ MaxStops \in Nat
  /\ None \notin File

VARIABLES
  project,   \* the project, which never changes
  pc,        \* the command that runs next, or "off"
  tree,      \* buildroot-src: "absent", "empty" (.git without a checkout), "there"
  ext,       \* buildroot-external: "absent", "default" (the repository's default branch),
             \* "partial" (some of its files), "pinned", "local" (the project's own, or
             \* the empty directory that br2-sync has made)
  pins,      \* the trees whose PINNED files are written
  mark,      \* the trees with .patches-applied
  applied,   \* tree -> the files that have changed it, in that order
  todo,      \* the files left in apply_patches' loop
  rc,        \* did the loop's last turn succeed?
  status,    \* of the last run: "never", "running", "ok", "failed"
  stops      \* failures and interruptions so far

vars == <<project, pc, tree, ext, pins, mark, applied, todo, rc, status, stops>>

Init ==
  /\ project \in Projects
  /\ pc = "off"
  /\ tree = "absent"
  /\ ext = IF project.ext \in {"none", "local"} THEN "local" ELSE "absent"
  /\ pins = {}
  /\ mark = {}
  /\ applied = [t \in Trees |-> <<>>]
  /\ todo = <<>>
  /\ rc = TRUE
  /\ status = "never"
  /\ stops = 0

------------------------------------------------------------------------------
\* The loop's list: "$HERE/patches/$dir"/*.patch, then *.sh.
Order(t) == project.patches[t] \o project.scripts[t]

Changes(t) == ToSet(project.patches[t]) \cup ToSet(project.scripts[t])

\* What the two lines at the end of the script do first.
EnterPatches(t) ==
  /\ pc' = IF t = "buildroot" THEN "patch_buildroot" ELSE "patch_external"
  /\ todo' = Order(t)
  /\ rc' = TRUE

\* After buildroot-src: is the external tree to be fetched?
EnterExternal ==
  IF project.ext \in {"whole", "subdir"} /\ ext = "absent"
    THEN pc' = "ext_clone" /\ UNCHANGED <<todo, rc>>
    ELSE EnterPatches("buildroot")

Begin ==
  /\ pc = "off"
  /\ status' = "running"
  /\ IF tree = "absent"
       THEN /\ pc' = IF project.source = "ref" THEN "clone" ELSE "init"
            /\ UNCHANGED <<todo, rc>>
       ELSE EnterExternal
  /\ UNCHANGED <<project, tree, ext, pins, mark, applied, stops>>

\* git clone, or the checkout after the fetch of one commit.
Checkout ==
  /\ pc \in {"clone", "checkout"}
  /\ tree' = "there"
  /\ pc' = "pin"
  /\ UNCHANGED <<project, ext, pins, mark, applied, todo, rc, status, stops>>

GitInit ==
  /\ pc = "init"
  /\ tree' = "empty"
  /\ pc' = "fetch"
  /\ UNCHANGED <<project, ext, pins, mark, applied, todo, rc, status, stops>>

Fetch ==
  /\ pc = "fetch"
  /\ pc' = "checkout"
  /\ UNCHANGED <<project, tree, ext, pins, mark, applied, todo, rc, status, stops>>

Pin ==
  /\ pc = "pin"
  /\ pins' = pins \cup {"buildroot"}
  /\ EnterExternal
  /\ UNCHANGED <<project, tree, ext, mark, applied, status, stops>>

\* Into buildroot-external itself, or aside to take a subdirectory of it.
ExtClone ==
  /\ pc = "ext_clone"
  /\ IF project.ext = "whole"
       THEN ext' = "default" /\ pc' = "ext_checkout"
       ELSE UNCHANGED ext /\ pc' = "ext_copy"
  /\ UNCHANGED <<project, tree, pins, mark, applied, todo, rc, status, stops>>

ExtCheckout ==
  /\ pc = "ext_checkout"
  /\ ext' = "pinned"
  /\ EnterPatches("buildroot")
  /\ UNCHANGED <<project, tree, pins, mark, applied, status, stops>>

ExtCopy ==
  /\ pc = "ext_copy"
  /\ ext' = "pinned"
  /\ pc' = "ext_pin"
  /\ UNCHANGED <<project, tree, pins, mark, applied, todo, rc, status, stops>>

ExtPin ==
  /\ pc = "ext_pin"
  /\ pins' = pins \cup {"external"}
  /\ EnterPatches("buildroot")
  /\ UNCHANGED <<project, tree, ext, mark, applied, status, stops>>

------------------------------------------------------------------------------
Current == IF pc = "patch_buildroot" THEN "buildroot" ELSE "external"

Patching == pc \in {"patch_buildroot", "patch_external"} /\ Current \notin mark

\* `patch -N` fails where its change is there already, the projects' scripts
\* do not; neither finds its files in an empty tree.
Works(p) ==
  /\ p \notin project.broken
  /\ p \in ToSet(project.scripts[Current]) \/ p \notin ToSet(applied[Current])
  /\ IF Current = "buildroot" THEN tree = "there" ELSE ext # "absent"

Apply(p) ==
  /\ applied' = IF Works(p) /\ p \notin ToSet(applied[Current])
                  THEN [applied EXCEPT ![Current] = Append(@, p)] ELSE applied
  /\ rc' = Works(p)

\* Mutant: the mark first.
MarkFirst ==
  /\ Patching
  /\ todo # <<>>
  /\ Apply(Head(todo))
  /\ todo' = Tail(todo)
  /\ mark' = mark \cup {Current}
  /\ UNCHANGED <<project, pc, tree, ext, pins, status, stops>>

\* One turn of apply_patches' loop.
ApplyOne ==
  /\ Patching
  /\ todo # <<>>
  /\ Apply(Head(todo))
  /\ todo' = Tail(todo)
  /\ UNCHANGED <<project, pc, tree, ext, pins, mark, status, stops>>

End(s) == pc' = "off" /\ status' = s /\ todo' = <<>> /\ rc' = TRUE

\* apply_patches' status: that of the last *.sh.  Without one the loop ends
\* with the pattern itself, and `continue`.
Patched == project.scripts[Current] = <<>> \/ rc

\* `[ -e mark ] || { apply_patches && touch mark; }`: touch fails without the
\* tree's directory.  The script's status is that of its last line.
Finish ==
  /\ pc \in {"patch_buildroot", "patch_external"}
  /\ Current \in mark \/ todo = <<>>
  /\ LET touched == Patched /\ (Current = "external" => ext # "absent")
     IN  /\ mark' = IF touched THEN mark \cup {Current} ELSE mark
         /\ IF Current = "external"
              THEN End(IF Current \in mark \/ touched THEN "ok" ELSE "failed")
              ELSE EnterPatches("external") /\ UNCHANGED status
  /\ UNCHANGED <<project, tree, ext, pins, applied, stops>>

\* The command fails, or the script is interrupted while it runs.
Stop ==
  /\ pc \in project.stopAt
  /\ stops < MaxStops
  /\ stops' = stops + 1
  /\ ext' \in IF pc = "ext_copy" THEN {"absent", "partial"} ELSE {ext}
  /\ End("failed")
  /\ UNCHANGED <<project, tree, pins, mark, applied>>

Step == Checkout \/ GitInit \/ Fetch \/ Pin \/ ExtClone \/ ExtCheckout \/ ExtCopy \/ ExtPin
        \/ ApplyOne \/ Finish

Next == Begin \/ Step \/ Stop

Spec == Init /\ [][Next]_vars

\* A started script goes on, and the user runs it again until it succeeds.
FairSpec == Spec /\ WF_vars(Step) /\ WF_vars(status # "ok" /\ Begin)

------------------------------------------------------------------------------
TypeOK ==
  /\ project \in Projects
  /\ pc \in Commands \cup {"off"}
  /\ tree \in {"absent", "empty", "there"}
  /\ ext \in {"absent", "default", "partial", "pinned", "local"}
  /\ pins \subseteq Trees
  /\ mark \subseteq Trees
  /\ \A t \in Trees : ToSet(applied[t]) \subseteq Changes(t)
  /\ todo \in Seq(File)
  /\ rc \in BOOLEAN
  /\ status \in {"never", "running", "ok", "failed"}
  /\ stops \in 0..MaxStops

\* "Clone the Buildroot tree [...] and record what was fetched. Idempotent."
\* (the script's first lines): a run that succeeds leaves the tree and the
\* record of its commit, whatever happened to earlier runs.
SuccessMeansPinned == status = "ok" => tree = "there" /\ "buildroot" \in pins

\* "record what was fetched": the record is of a tree that is there.
RecordIsTrue ==
  /\ "buildroot" \in pins => tree = "there"
  /\ "external" \in pins => ext = "pinned"

\* external_repo is "pinned to a commit" (docs/reference/project-json.md): a
\* run that succeeds leaves that commit's files.
ExternalAtPin == status = "ok" /\ project.ext \in {"whole", "subdir"} => ext = "pinned"

\* patches/*/*.patch "are applied by `br2 setup`" (same page), all of them,
\* when a run succeeds: the mark is never there without them.
SuccessMeansPatched ==
  /\ status = "ok" => \A t \in Trees : Changes(t) \subseteq ToSet(applied[t])
  /\ \A t \in mark : Changes(t) \subseteq ToSet(applied[t])

\* What a setup that succeeds has made: the trees are those of the project, at
\* their commits, on record, and patched as documented, whatever happened to
\* earlier runs.
SuccessMeansComplete == SuccessMeansPinned /\ RecordIsTrue /\ ExternalAtPin /\ SuccessMeansPatched

\* Running setup again mends what a failure or an interruption has left.
Converges == <>(status = "ok")
=============================================================================
