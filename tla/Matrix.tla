------------------------------- MODULE Matrix --------------------------------
(***************************************************************************)
(* br2 matrix (build_once and cmd_matrix in scripts/br2): the cold and,    *)
(* for the modes with a cache, warm build of every cell the user asks for, *)
(* one after the other or several threads at once, and the results file    *)
(* that later commands add to.  Buck2 is modelled by the output directory  *)
(* and the shared cache: a build finds its actions there when they were    *)
(* made under its own salt.                                                *)
(*                                                                         *)
(* One command runs at a time.  Cells are numbered in the order in which   *)
(* the command lists them.  Left out: what a build that fails says, the    *)
(* Markdown table, evictions from the cache, and a command killed while it *)
(* writes the results file.                                                *)
(***************************************************************************)
EXTENDS Naturals, FiniteSets, Sequences

CONSTANTS
  Cells,         \* the sequence of all the cells, [variant, mode] records
  Golden,        \* is there a golden manifest to compare with
  MaxCommands,
  Period,        \* how many commands until the salt's time of the month comes round
  None

ASSUME MatrixAssumption ==
  /\ IsFiniteSet(DOMAIN Cells)
  /\ \A i \in DOMAIN Cells : {"variant", "mode"} \subseteq DOMAIN Cells[i]
  /\ Golden \in BOOLEAN
  /\ MaxCommands \in Nat
  /\ Period \in Nat \ {0}
  /\ None \notin DOMAIN Cells

Cell == DOMAIN Cells

\* The modes that build a second time.
Caching(i) == Cells[i].mode \in {"local-cache", "remote-cache"}

VARIABLES
  command,    \* how many commands there have been
  parallel,   \* how many cells this one runs at once
  at,         \* cell -> where it is in build_once and run
  salt,       \* cell -> the salt of its latest build_once
  cache,      \* the salts that the shared cache has actions of
  out,        \* isolation directory -> the salt of the image in it, or None
  scan,       \* isolation directory -> the salt of the image results/.scan*.json is of
  found,      \* cell -> what build_once has so far
  results,    \* cell -> result, the command's list
  lock,       \* the cell whose thread holds the lock, or None
  text,       \* cell -> the text its thread is about to write, or None
  file        \* cell -> result in results/matrix.json, or None

vars == <<command, parallel, at, salt, cache, out, scan, found, results, lock, text, file>>

\* Where a thread is while it runs a cell.
Busy == {"cold", "cold_scan", "cold_diff", "warm", "warm_scan", "warm_diff", "record", "write"}

Resting == {"none", "done", "failed", "cancelled"}

\* The isolation directories; 0 is the default one.
Dir == Cell \cup {0}

\* Mutant: every cell builds in the default directory.
SharedIso(i) == 0

Iso(i) == IF parallel > 1 THEN i ELSE 0

\* Mutant: without the time.
SaltOfCell(i) == <<i, 0>>

\* Variant, mode and time, to the second, with the day of the month: a cell
\* takes longer than a second.
SaltNow(i) == <<i, command % Period>>

Blank == [cold |-> None, coldOf |-> None, warm |-> None, warmOf |-> None]

Init ==
  /\ command = 0
  /\ parallel = 1
  /\ at = [i \in Cell |-> "none"]
  /\ salt = [i \in Cell |-> None]
  /\ cache = {}
  /\ out = [d \in Dir |-> None]
  /\ scan = [d \in Dir |-> None]
  /\ found = [i \in Cell |-> Blank]
  /\ results = [i \in Cell |-> None]
  /\ lock = None
  /\ text = [i \in Cell |-> None]
  /\ file = [i \in Cell |-> None]

Goto(i, place) == at' = [at EXCEPT ![i] = place]

Idle == \A i \in Cell : at[i] \in Resting

------------------------------------------------------------------------------
\* Mutant: the list starts empty.
BeginEmpty(chosen, n) ==
  /\ Idle
  /\ command < MaxCommands
  /\ command' = command + 1
  /\ parallel' = n
  /\ at' = [i \in Cell |-> IF i \in chosen THEN "queued" ELSE "none"]
  /\ results' = [i \in Cell |-> None]
  /\ UNCHANGED <<salt, cache, out, scan, found, lock, text, file>>

\* The results of an earlier command, but for the cells to be run.
Begin(chosen, n) ==
  /\ Idle
  /\ command < MaxCommands
  /\ command' = command + 1
  /\ parallel' = n
  /\ at' = [i \in Cell |-> IF i \in chosen THEN "queued" ELSE "none"]
  /\ results' = [i \in Cell |-> IF i \in chosen THEN None ELSE file[i]]
  /\ UNCHANGED <<salt, cache, out, scan, found, lock, text, file>>

\* Mutant: a thread for every cell.
StartAll(i) ==
  /\ at[i] = "queued"
  /\ salt' = [salt EXCEPT ![i] = SaltNow(i)]
  /\ out' = [out EXCEPT ![Iso(i)] = None]
  /\ found' = [found EXCEPT ![i] = Blank]
  /\ Goto(i, "cold")
  /\ UNCHANGED <<command, parallel, cache, scan, results, lock, text, file>>

\* A thread takes the next cell: salt and clean.
Start(i) ==
  /\ at[i] = "queued"
  /\ \A j \in Cell : at[j] = "queued" => i <= j
  /\ Cardinality({j \in Cell : at[j] \in Busy}) < parallel
  /\ salt' = [salt EXCEPT ![i] = SaltNow(i)]
  /\ out' = [out EXCEPT ![Iso(i)] = None]
  /\ found' = [found EXCEPT ![i] = Blank]
  /\ Goto(i, "cold")
  /\ UNCHANGED <<command, parallel, cache, scan, results, lock, text, file>>

\* Does buck2 build find what it needs, made under the cell's salt?
Hit(i) == out[Iso(i)] = salt[i] \/ (Caching(i) /\ salt[i] \in cache)

\* What buck2 build leaves: the image, and its actions in the cache.
Built(i) ==
  /\ out' = [out EXCEPT ![Iso(i)] = salt[i]]
  /\ cache' = IF Caching(i) THEN cache \cup {salt[i]} ELSE cache

\* buck_build the first time.  A build that fails is recorded.
Cold(i) ==
  /\ at[i] = "cold"
  /\ \/ /\ Built(i)
        /\ found' = [found EXCEPT ![i].cold = IF Hit(i) THEN "cached" ELSE "built"]
        /\ Goto(i, IF Golden THEN "cold_scan" ELSE IF Caching(i) THEN "warm" ELSE "record")
     \/ /\ found' = [found EXCEPT ![i].cold = "failed"]
        /\ Goto(i, "record")
        /\ UNCHANGED <<out, cache>>
  /\ UNCHANGED <<command, parallel, salt, scan, results, lock, text, file>>

\* clean, and buck_build the second time.
Warm(i) ==
  /\ at[i] = "warm"
  /\ \/ /\ Built(i)
        /\ found' = [found EXCEPT ![i].warm = IF salt[i] \in cache THEN "cached" ELSE "built"]
        /\ Goto(i, IF Golden THEN "warm_scan" ELSE "record")
     \/ /\ found' = [found EXCEPT ![i].warm = "failed"]
        /\ out' = [out EXCEPT ![Iso(i)] = None]
        /\ Goto(i, "record")
        /\ UNCHANGED cache
  /\ UNCHANGED <<command, parallel, salt, scan, results, lock, text, file>>

\* manifest_diff: fs-manifest.py scan writes what the image has into a file
\* named after the isolation directory; when it fails, build_once raises.
Scan(i) ==
  /\ at[i] \in {"cold_scan", "warm_scan"}
  /\ \/ /\ scan' = [scan EXCEPT ![Iso(i)] = out[Iso(i)]]
        /\ Goto(i, IF at[i] = "cold_scan" THEN "cold_diff" ELSE "warm_diff")
     \/ /\ Goto(i, "failed")
        /\ UNCHANGED scan
  /\ UNCHANGED <<command, parallel, salt, cache, out, found, results, lock, text, file>>

\* fs-manifest.py diff reads that file.
DiffCold(i) ==
  /\ at[i] = "cold_diff"
  /\ found' = [found EXCEPT ![i].coldOf = scan[Iso(i)]]
  /\ Goto(i, IF Caching(i) THEN "warm" ELSE "record")
  /\ UNCHANGED <<command, parallel, salt, cache, out, scan, results, lock, text, file>>

DiffWarm(i) ==
  /\ at[i] = "warm_diff"
  /\ found' = [found EXCEPT ![i].warmOf = scan[Iso(i)]]
  /\ Goto(i, "record")
  /\ UNCHANGED <<command, parallel, salt, cache, out, scan, results, lock, text, file>>

\* Mutant: without the lock.
RecordUnlocked(i) ==
  /\ at[i] = "record"
  /\ lock' = i
  /\ results' = [results EXCEPT ![i] = [salt |-> salt[i], was |-> found[i]]]
  /\ text' = [text EXCEPT ![i] = results']
  /\ Goto(i, "write")
  /\ UNCHANGED <<command, parallel, salt, cache, out, scan, found, file>>

\* The thread adds its result and makes the file's text of the list.
Record(i) ==
  /\ at[i] = "record"
  /\ lock = None
  /\ lock' = i
  /\ results' = [results EXCEPT ![i] = [salt |-> salt[i], was |-> found[i]]]
  /\ text' = [text EXCEPT ![i] = results']
  /\ Goto(i, "write")
  /\ UNCHANGED <<command, parallel, salt, cache, out, scan, found, file>>

Write(i) ==
  /\ at[i] = "write"
  /\ file' = text[i]
  /\ lock' = None
  /\ text' = [text EXCEPT ![i] = None]
  /\ Goto(i, "done")
  /\ UNCHANGED <<command, parallel, salt, cache, out, scan, found, results>>

\* The main thread comes to the result of a cell that raised: the cells that no
\* thread has taken are cancelled.
Cancel ==
  /\ \E i \in Cell :
       /\ at[i] = "failed"
       /\ \A j \in Cell : j < i => at[j] \in Resting
  /\ \E j \in Cell : at[j] = "queued"
  /\ at' = [j \in Cell |-> IF at[j] = "queued" THEN "cancelled" ELSE at[j]]
  /\ UNCHANGED <<command, parallel, salt, cache, out, scan, found, results, lock, text, file>>

\* The cells of --variants and --modes.
Chosen(variants, modes) == {i \in Cell : Cells[i].variant \in variants /\ Cells[i].mode \in modes}

Variants == {Cells[i].variant : i \in Cell}

Modes == {Cells[i].mode : i \in Cell}

Next ==
  \/ \E v \in SUBSET Variants, m \in SUBSET Modes, n \in {1, 2} : Begin(Chosen(v, m), n)
  \/ \E i \in Cell :
       \/ Start(i) \/ Cold(i) \/ Warm(i) \/ Scan(i) \/ DiffCold(i) \/ DiffWarm(i)
       \/ Record(i) \/ Write(i)
  \/ Cancel

Spec == Init /\ [][Next]_vars

------------------------------------------------------------------------------
(***************************************************************************)
(* Properties.                                                             *)
(***************************************************************************)

Salt == Cell \X (0..Period - 1)

Outcome == {None, "built", "cached", "failed"}

Result == [salt : Salt,
           was : [cold : Outcome, coldOf : Salt \cup {None}, warm : Outcome, warmOf : Salt \cup {None}]]

\* None is not a value that the matrix computes.
ASSUME NoneAssumption ==
  None \notin Salt /\ None \notin {"built", "cached", "failed"} /\ None \notin [Cell -> Result \cup {None}]

\* The type invariant.  No more cells run at once than asked.
TypeOK ==
  /\ command \in 0..MaxCommands
  /\ parallel \in {1, 2}
  /\ at \in [Cell -> Busy \cup Resting \cup {"queued"}]
  /\ Cardinality({i \in Cell : at[i] \in Busy}) <= parallel
  /\ salt \in [Cell -> Salt \cup {None}]
  /\ cache \subseteq Salt
  /\ out \in [Dir -> Salt \cup {None}]
  /\ scan \in [Dir -> Salt \cup {None}]
  /\ \A i \in Cell : found[i].cold \in Outcome /\ found[i].warm \in Outcome
  /\ results \in [Cell -> Result \cup {None}]
  /\ \A i \in Cell : at[i] = "write" <=> text[i] # None
  /\ file \in [Cell -> Result \cup {None}]

\* A cold build finds nothing, whatever was built before it under whichever
\* salts, and the warm build of the same cell finds its own cold build's actions.
ColdIsCold ==
  \A i \in Cell :
    file[i] # None => file[i].was.cold # "cached" /\ file[i].was.warm # "built"

\* The verdict that a cell records is about the image it built, although cells
\* that run beside it build and scan, too.
OwnVerdict ==
  \A i \in Cell :
    file[i] # None => {file[i].was.coldOf, file[i].was.warmOf} \subseteq {None, file[i].salt}

\* When a command has ended, the file is what it has found: no result of a thread
\* is lost to the text of another.
AllRecorded ==
  Idle /\ (\E i \in Cell : at[i] = "done") => file = results

\* It replaces the results of the cells it runs, and of no others, also when it
\* ends early.
ResultsKept ==
  [][AllRecorded' /\ \A i \in Cell : file'[i] # file[i] => at[i] # "none"]_vars
=============================================================================
