------------------------------ MODULE Generate -------------------------------
(***************************************************************************)
(* `br2 extract` and `br2buck.py render`: from a configuration to the      *)
(* model in golden/, and from the model to a BUCK file in every package    *)
(* directory.  The renderer reads the trees it writes to: it lists a       *)
(* directory that holds a link Buck2 cannot track file by file, and a BUCK *)
(* file that an earlier render left there is one of those files.           *)
(*                                                                         *)
(* An experiment may be a variant of another (bin/br2-new): its trees, the *)
(* BUCK files in them included, are hard links to the other's.             *)
(*                                                                         *)
(* Of a BUCK file's text only what it is made from.  Left out: the files   *)
(* of br2/generated/ and sources/, written in the same way outside the     *)
(* trees, .git/info/exclude, and BUCK files of the project's own.          *)
(***************************************************************************)
EXTENDS Naturals

CONSTANTS
  Experiment,   \* one, or two when one is a variant of the other
  Origin,       \* the one that br2-new has just made the others from, or None
  Dir,          \* directories of the trees that are packages in some configuration
  Within,       \* directory -> the directories below it
  Loose,        \* the directories that hold a link Buck2 cannot track
  Conf,         \* configurations (project.json's defconfig and fragment, Config.in, ...)
  PackagesOf,   \* configuration -> the directories of its packages
  GraphOf,      \* configuration -> file -> what the model says about the file's packages
  Project,      \* the rest of what rendering reads: project.json, native/, the trees
  MaxEdits,     \* bound: edits
  MaxStops,     \* bound: interruptions
  None,         \* no file
  Cut           \* a file whose writing was interrupted

Top == "top"    \* the BUCK file of a tree's root

File == Dir \cup {Top}

Text == [graph : UNION {{GraphOf[c][f] : f \in File} : c \in Conf}, project : Project, lists : SUBSET Dir]

ASSUME GenerateAssumption ==
  /\ Top \notin Dir
  /\ Loose \subseteq Dir
  /\ Within \in [Dir -> SUBSET Dir]
  /\ PackagesOf \in [Conf -> SUBSET Dir]
  /\ MaxEdits \in Nat /\ MaxStops \in Nat
  /\ Origin \in Experiment \cup {None}
  /\ {None, Cut} \cap (Conf \cup Text) = {}

VARIABLES
  conf, project,   \* experiment -> its present configuration; and the rest
  model,           \* experiment -> the configuration golden/model.json is of, None, Cut
  buck,            \* experiment -> file -> its text, None, Cut
  shared,          \* the files that are one file with two names
  pc,              \* experiment -> "idle", "extract", "load", "unlink", "write"
  seen,            \* experiment -> the model and project its last render has read
  out,             \* experiment -> file -> the text to write, or None
  left,            \* experiment -> the files still to unlink or to write
  status,          \* experiment -> how its last command ended: "none", "ok", "failed"
  edits, stops     \* counters for the bounds

vars == <<conf, project, model, buck, shared, pc, seen, out, left, status, edits, stops>>

------------------------------------------------------------------------------
\* input_entries: d's BUCK file is among the files that f lists.
Lists(e, m, f, d) ==
  /\ d \in Loose \ PackagesOf[m]
  /\ f # Top => d \in Within[f]
  /\ Within[d] \cap PackagesOf[m] = {}
  /\ ~ \E x \in PackagesOf[m] : d \in Within[x] /\ (f # Top => x \in Within[f])
  /\ buck[e][d] # None

Rendered(e, m, p) ==
  [f \in File |->
     IF f = Top \/ f \in PackagesOf[m]
       THEN [graph |-> GraphOf[m][f], project |-> p, lists |-> {d \in Dir : Lists(e, m, f, d)}]
       ELSE None]

\* stale_generated: files with the header, which an interrupted write has not
\* got, that the model does not produce.
Stale(e, m) == {d \in Dir \ PackagesOf[m] : buck[e][d] \notin {None, Cut}}

\* render --check: nothing would be removed, nothing would be written.
CheckPasses(e) ==
  /\ model[e] \in Conf
  /\ Stale(e, model[e]) = {}
  /\ \A f \in File :
       Rendered(e, model[e], project[e])[f] \in {None, buck[e][f]}

\* write_text writes into the file that is there, whatever other names it has.
Put(e, f, t) ==
  buck' = [x \in Experiment |->
             IF x = e \/ f \in shared THEN [buck[x] EXCEPT ![f] = t] ELSE buck[x]]

NoFiles == [f \in File |-> None]

\* What a first render makes of c, with nothing to list yet.
First(c, p) ==
  [f \in File |-> IF f \in PackagesOf[c] \cup {Top}
                    THEN [graph |-> GraphOf[c][f], project |-> p, lists |-> {}] ELSE None]

\* Fresh experiments; or Origin, extracted, and what br2-new makes of it: the
\* same trees, another configuration, no model.
Init ==
  /\ project \in [Experiment -> Project]
  /\ conf \in [Experiment -> Conf]
  /\ model = [e \in Experiment |-> IF e = Origin THEN conf[e] ELSE None]
  /\ buck = [e \in Experiment |->
               IF Origin = None THEN NoFiles ELSE First(conf[Origin], project[Origin])]
  /\ shared = IF Origin = None THEN {} ELSE PackagesOf[conf[Origin]] \cup {Top}
  /\ pc = [e \in Experiment |-> "idle"]
  /\ seen = [e \in Experiment |-> <<None, None>>]
  /\ out = [e \in Experiment |-> NoFiles]
  /\ left = [e \in Experiment |-> {}]
  /\ status = [e \in Experiment |-> "none"]
  /\ edits = 0
  /\ stops = 0

------------------------------------------------------------------------------
EditConf(e, c) ==
  /\ edits < MaxEdits
  /\ edits' = edits + 1
  /\ c # conf[e]
  /\ conf' = [conf EXCEPT ![e] = c]
  /\ UNCHANGED <<project, model, buck, shared, pc, seen, out, left, status, stops>>

EditProject(e, p) ==
  /\ edits < MaxEdits
  /\ edits' = edits + 1
  /\ p # project[e]
  /\ project' = [project EXCEPT ![e] = p]
  /\ UNCHANGED <<conf, model, buck, shared, pc, seen, out, left, status, stops>>

\* The user runs `br2 extract`, or the renderer alone.
Run(e, first) ==
  /\ pc[e] = "idle"
  /\ pc' = [pc EXCEPT ![e] = first]
  /\ UNCHANGED <<conf, project, model, buck, shared, seen, out, left, status, edits, stops>>

\* Mutant: a model that is there is kept.
ExtractOnce(e) ==
  /\ pc[e] = "extract"
  /\ model' = [model EXCEPT ![e] = IF @ = None THEN conf[e] ELSE @]
  /\ pc' = [pc EXCEPT ![e] = "load"]
  /\ UNCHANGED <<conf, project, buck, shared, seen, out, left, status, edits, stops>>

\* The model of the configuration, written in one go.
Extract(e) ==
  /\ pc[e] = "extract"
  /\ model' = [model EXCEPT ![e] = conf[e]]
  /\ pc' = [pc EXCEPT ![e] = "load"]
  /\ UNCHANGED <<conf, project, buck, shared, seen, out, left, status, edits, stops>>

\* render reads the project and the model, which must be there and whole.
Load(e) ==
  /\ pc[e] = "load"
  /\ IF model[e] \in Conf
       THEN /\ seen' = [seen EXCEPT ![e] = <<model[e], project[e]>>]
            /\ left' = [left EXCEPT ![e] = Stale(e, model[e])]
            /\ pc' = [pc EXCEPT ![e] = "unlink"]
            /\ UNCHANGED status
       ELSE /\ pc' = [pc EXCEPT ![e] = "idle"]
            /\ status' = [status EXCEPT ![e] = "failed"]
            /\ UNCHANGED <<seen, left>>
  /\ UNCHANGED <<conf, project, model, buck, shared, out, edits, stops>>

\* "Stale generated BUCK files go first".
Unlink(e) ==
  /\ pc[e] = "unlink"
  /\ \E d \in left[e] :
       /\ buck' = [buck EXCEPT ![e][d] = None]
       /\ shared' = shared \ {d}
       /\ left' = [left EXCEPT ![e] = @ \ {d}]
  /\ UNCHANGED <<conf, project, model, pc, seen, out, status, edits, stops>>

\* Mutant: everything is rendered before anything is removed.
ListFirst(e) ==
  /\ pc[e] = "unlink"
  /\ out' = [out EXCEPT ![e] = Rendered(e, seen[e][1], seen[e][2])]
  /\ buck' = [buck EXCEPT ![e] = [f \in File |-> IF f \in left[e] THEN None ELSE @[f]]]
  /\ shared' = shared \ left[e]
  /\ left' = [left EXCEPT ![e] = {f \in File : out'[e][f] # None}]
  /\ pc' = [pc EXCEPT ![e] = "write"]
  /\ UNCHANGED <<conf, project, model, seen, status, edits, stops>>

\* Mutant: a file is written for every directory, package or not.
ListAll(e) ==
  /\ pc[e] = "unlink"
  /\ left[e] = {}
  /\ out' = [out EXCEPT ![e] = Rendered(e, seen[e][1], seen[e][2])]
  /\ left' = [left EXCEPT ![e] = File]
  /\ pc' = [pc EXCEPT ![e] = "write"]
  /\ UNCHANGED <<conf, project, model, buck, shared, seen, status, edits, stops>>

\* All texts, from the trees as they are now.
List(e) ==
  /\ pc[e] = "unlink"
  /\ left[e] = {}
  /\ out' = [out EXCEPT ![e] = Rendered(e, seen[e][1], seen[e][2])]
  /\ left' = [left EXCEPT ![e] = {f \in File : out'[e][f] # None}]
  /\ pc' = [pc EXCEPT ![e] = "write"]
  /\ UNCHANGED <<conf, project, model, buck, shared, seen, status, edits, stops>>

\* One file, unless its text is the one it has; with the last the command ends.
\* (The code goes by name; any order here.)
Write(e) ==
  /\ pc[e] = "write"
  /\ \E f \in left[e] :
       /\ IF buck[e][f] # out[e][f] THEN Put(e, f, out[e][f]) ELSE UNCHANGED buck
       /\ left' = [left EXCEPT ![e] = @ \ {f}]
  /\ IF left'[e] = {}
       THEN pc' = [pc EXCEPT ![e] = "idle"] /\ status' = [status EXCEPT ![e] = "ok"]
       ELSE UNCHANGED <<pc, status>>
  /\ UNCHANGED <<conf, project, model, shared, seen, out, edits, stops>>

\* The command fails or is interrupted, perhaps with a file just opened for
\* writing.
Stop(e) ==
  /\ pc[e] # "idle"
  /\ stops < MaxStops
  /\ stops' = stops + 1
  /\ pc' = [pc EXCEPT ![e] = "idle"]
  /\ status' = [status EXCEPT ![e] = "failed"]
  /\ left' = [left EXCEPT ![e] = {}]
  /\ model' \in {model} \cup (IF pc[e] = "extract" THEN {[model EXCEPT ![e] = Cut]} ELSE {})
  /\ \/ UNCHANGED buck
     \/ pc[e] = "write" /\ \E f \in left[e] : buck[e][f] # out[e][f] /\ Put(e, f, Cut)
  /\ UNCHANGED <<conf, project, shared, seen, out, edits>>

Step(e) == Extract(e) \/ Load(e) \/ Unlink(e) \/ List(e) \/ Write(e)

Next ==
  \E e \in Experiment :
    \/ \E c \in Conf : EditConf(e, c)
    \/ \E p \in Project : EditProject(e, p)
    \/ \E first \in {"extract", "load"} : Run(e, first)
    \/ Step(e)
    \/ Stop(e)

Spec == Init /\ [][Next]_vars

UpToDate(e) == model[e] = conf[e] /\ CheckPasses(e)

\* A started command goes on; the user, who may run the renderer alone as often
\* as he likes, extracts again and again until the check passes.
FairSpec ==
  Spec /\ \A e \in Experiment :
            /\ WF_vars(Step(e))
            /\ SF_vars(~UpToDate(e) /\ Run(e, "extract"))

------------------------------------------------------------------------------
TypeOK ==
  /\ conf \in [Experiment -> Conf]
  /\ project \in [Experiment -> Project]
  /\ model \in [Experiment -> Conf \cup {None, Cut}]
  /\ \A e \in Experiment, f \in File : buck[e][f] \in Text \cup {None, Cut}
  /\ shared \subseteq File
  /\ pc \in [Experiment -> {"idle", "extract", "load", "unlink", "write"}]
  /\ left \in [Experiment -> SUBSET File]
  /\ \A e \in Experiment : pc[e] = "write" => \A f \in left[e] : out[e][f] \in Text
  /\ status \in [Experiment -> {"none", "ok", "failed"}]
  /\ edits \in 0..MaxEdits
  /\ stops \in 0..MaxStops

\* After a render that ended, the check finds nothing to do, whatever earlier
\* renders of other models, ended or interrupted, have left in the trees that
\* this one has listed: one render is enough ("rendering reads the tree, and
\* a left-over one changes what its parent lists", render).
Settles ==
  \A e \in Experiment :
    pc[e] = "idle" /\ status[e] = "ok" /\ seen[e] = <<model[e], project[e]>> => CheckPasses(e)

\* Extracting again mends whatever an interruption has left, a model cut short
\* included: in the end the BUCK files are those of the configuration.
Mended == <>[](\A e \in Experiment : UpToDate(e))

\* "The variant gets its own model, golden and Buck2 state" (bin/br2-new): a
\* command in one experiment changes no BUCK file of another.
OwnGraph ==
  [][\A e \in Experiment : pc[e] = "idle" => buck'[e] = buck[e]]_buck
=============================================================================
