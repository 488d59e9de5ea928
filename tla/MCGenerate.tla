----------------------------- MODULE MCGenerate ------------------------------
(***************************************************************************)
(* Instances of Generate for TLC: a group directory that is a package of   *)
(* its own in one configuration (package/gcc), with a package below it     *)
(* that another configuration has not.                                     *)
(***************************************************************************)
EXTENDS Generate, TLC

CONSTANTS main, variant

\* grp and grp/sub, which holds a dangling link, and app, which always is a
\* package.
Dirs == {"grp", "sub", "app"}
Nested == [grp |-> {"sub"}, sub |-> {}, app |-> {}]
DanglingIn == {"sub"}

\* 0: all three; 1: grp alone; 2: the directory below alone.
Confs == {0, 1, 2}
Packages == 0 :> {"grp", "sub", "app"} @@ 1 :> {"grp", "app"} @@ 2 :> {"sub", "app"}
Graphs == [c \in Confs |-> [f \in Dirs \cup {"top"} |-> IF f = "app" THEN c % 2 ELSE c]]

TwoConfs == {0, 1}
TwoPackages == [c \in TwoConfs |-> Packages[c]]
TwoGraphs == [c \in TwoConfs |-> Graphs[c]]
Projects == {0, 1}
OneProject == {0}
=============================================================================
