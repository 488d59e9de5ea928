----------------------------- MODULE MCSlicing ------------------------------
(***************************************************************************)
(* Instances of Slicing for TLC: a package that mentions a variable of one *)
(* it does not depend on; a package in a group directory whose make file   *)
(* names another's symbol; and, for the two trees, one of the external     *)
(* tree with such a mention.                                               *)
(***************************************************************************)
EXTENDS Slicing, TLC

A == <<"src", "package", "a">>
B == <<"src", "package", "b">>
BN == <<"src", "package", "b", "n">>
G == <<"src", "package", "g">>
C == <<"src", "package", "g", "c">>
E == <<"ext", "package", "e">>
EG == <<"ext", "package", "g">>
Boot == <<"src", "boot">>

Dirs1 == {A, B, BN, G, C, E, EG, Boot}
Packages1 == {A, B, C, E}
Closure1 == A :> {C} @@ B :> {} @@ C :> {} @@ E :> {C}

Symbols == {"A_X", "B_X", "B_Y", "G_X", "PROVIDES", "ARCH"}
Declares == "A_X" :> {A} @@ "B_X" :> {B} @@ "B_Y" :> {BN} @@ "G_X" :> {G} @@ "PROVIDES" :> {B} @@ "ARCH" :> {Boot}

NamePrefixes == {"B_", "BR2_PACKAGE_"}
Starts == "B_" :> {"B_X", "B_Y"} @@ "BR2_PACKAGE_" :> Symbols

Def(d, reads, names, uses) == [dir |-> d, reads |-> reads, names |-> names, uses |-> uses]

Vars == {"A_OPTS", "B_VERSION", "C_OPTS", "E_OPTS", "G_COMMON", "GLOBAL"}
Owners == "A_OPTS" :> A @@ "B_VERSION" :> B @@ "C_OPTS" :> C @@ "E_OPTS" :> E @@ "G_COMMON" :> None @@ "GLOBAL" :> None

\* a mentions b's version, defined below b; the group's file names b's symbol.
Base ==
  "A_OPTS" :> Def(A, {"A_X", "G_X"}, {"A_X"}, {"B_VERSION", "GLOBAL"})
  @@ "B_VERSION" :> Def(BN, {"B_Y"}, {"B_Y"}, {})
  @@ "C_OPTS" :> Def(C, {"PROVIDES"}, {}, {"G_COMMON"})
  @@ "E_OPTS" :> Def(E, {}, {}, {"A_OPTS"})
  @@ "G_COMMON" :> Def(G, {"B_X"}, {"B_X"}, {})
  @@ "GLOBAL" :> Def(Boot, {"ARCH", "B_X"}, {"ARCH"}, {})

\* The infrastructure names the symbol, and c reads one by a computed name; c
\* reads symbols of b by a prefix; a's names are
\* dynamic, and e mentions the variable of a group that its own tree has too.
Texts ==
  {Base,
   [Base EXCEPT !["GLOBAL"].names = {"ARCH", "B_X"}, !["A_OPTS"].uses = {"GLOBAL", "C_OPTS"},
                 !["C_OPTS"].reads = {"A_X"}],
   [Base EXCEPT !["C_OPTS"].names = {"B_"}, !["C_OPTS"].reads = {"B_X", "B_Y"}],
   [Base EXCEPT !["A_OPTS"].names = {"BR2_PACKAGE_"}, !["G_COMMON"].reads = {}, !["GLOBAL"].reads = {"ARCH"},
                 !["E_OPTS"].uses = {"G_COMMON"}]}
=============================================================================
