--------------------------- MODULE MCActionCache ----------------------------
(***************************************************************************)
(* An instance of ActionCache for TLC: an application whose closure holds  *)
(* a library, and a library whose second version names a symbol of the     *)
(* application, as a makefile with an optional feature does.               *)
(***************************************************************************)
EXTENDS ActionCache, TLC

CONSTANTS c1, c2

Packages == {"lib", "app"}
Closures == [lib |-> {"lib"}, app |-> {"lib", "app"}]
References == [p \in Packages |-> [v \in {0, 1} |-> IF p = "lib" /\ v = 1 THEN {"app"} ELSE {}]]

WithCache == [dev |-> FALSE, lookup |-> TRUE, store |-> TRUE]
DevLocal == [dev |-> TRUE, lookup |-> FALSE, store |-> FALSE]

\* Two checkouts, one edit, one eviction, every mode; a library whose tar
\* differs from run to run.
Sharing ==
  [clients |-> {c1, c2}, editable |-> {Dir("lib"), Driver}, varying |-> {Pkg("lib")},
   modes |-> Modes, edits |-> 1, evictions |-> 1]

\* One checkout and two edits, so that one can be taken back; a config action
\* whose output differs from run to run too.
Editing(c) ==
  [clients |-> {c}, editable |-> {Sym("lib"), Sym("app"), Dir("lib"), Dir("app"), Slicer},
   varying |-> {Config, Pkg("lib")},
   modes |-> {WithCache, DevLocal}, edits |-> 2, evictions |-> 0]

Both == {Sharing, Editing(c1), Editing(c2)}

Values == {0, 1}
Second == {1}
Clients == {c1, c2}
Interchangeable == Permutations(Clients)
=============================================================================
