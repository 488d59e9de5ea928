---------------------------- MODULE MCDeltaTree -----------------------------
(***************************************************************************)
(* A diamond for TLC: a skeleton, two packages on top of it, an            *)
(* application that depends on both, and one more package above those.     *)
(***************************************************************************)
EXTENDS DeltaTree

Diamond == {"skel", "init", "lib", "app", "top"}
DiamondDeps == [skel |-> <<>>, init |-> <<"skel">>, lib |-> <<"skel">>,
                app |-> <<"init", "lib">>, top |-> <<"app", "lib">>]
DiamondBelow == [skel |-> <<>>, init |-> <<"skel">>, lib |-> <<"skel">>,
                 app |-> <<"skel", "init", "lib">>, top |-> <<"skel", "init", "lib", "app">>]

Names == <<"app", "init", "lib", "skel", "top">>

Contents == {1, 2}
OnlyCreate == {"write"}
AllOps == {"write", "inplace", "remove"}
=============================================================================
