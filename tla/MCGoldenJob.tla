---------------------------- MODULE MCGoldenJob ------------------------------
(***************************************************************************)
(* Three people: enough for one client to poll, one to delete the Job and  *)
(* one to create it again with another template.  The project with the     *)
(* long name has 53 letters, so nothing of the commit is left in the       *)
(* Job's name; "App" and "app" are the same to it.                         *)
(***************************************************************************)
EXTENDS GoldenJob, TLC

MCProject == {"app", "App", "long"}
MCChar == {"A", "a", "p", "x", "-", "1", "2"}
MCLetters ==
  [app |-> <<"a", "p", "p">>, App |-> <<"A", "p", "p">>,
   long |-> [i \in 1..53 |-> "x"]]
MCDigits == [r1 |-> [i \in 1..9 |-> "1"], r2 |-> [i \in 1..9 |-> "2"]]
MCPlain == [c \in MCChar |-> IF c = "A" THEN "a" ELSE c]

Wish(p, r, v) == [project |-> p, ref |-> r, variety |-> v]

\* The other variety; another commit, of a project whose name is cleaned to the
\* same; names that are cut.
WishList ==
  <<Wish("app", "r1", "instrumented"), Wish("app", "r1", "vanilla"), Wish("App", "r2", "instrumented"),
    Wish("long", "r1", "instrumented"), Wish("long", "r2", "instrumented")>>

MCWants == {WishList[i] : i \in DOMAIN WishList}

\* Two wishes at a time, of which one client has the first or the second.
\* Clients are alike, so which of them it is does not matter.
TwoWishes == want[1] = want[2] \/ want[2] = want[3]

InOrder == \E i, j, k \in DOMAIN WishList : i <= j /\ j <= k /\ want = <<WishList[i], WishList[j], WishList[k]>>

OrderedInit == JobInit /\ InOrder /\ TwoWishes

OrderedSpec == OrderedInit /\ [][JobNext]_jobVars /\ Fairness

VarietyWants == {Wish("app", "r1", "instrumented"), Wish("app", "r1", "vanilla")}

CutWants == {Wish("long", "r1", "instrumented"), Wish("long", "r2", "instrumented")}

\* Everything has been pushed first, as the documentation asks.
PushedSpec == JobInit /\ pushed = Commit /\ [][JobNext]_jobVars
=============================================================================
