------------------------------ MODULE MCViews -------------------------------
(***************************************************************************)
(* An instance of Views for TLC: two plain packages, one of them with a    *)
(* link into the other's directory and a directory of device files; a      *)
(* group with a package below it, which in one model is a package itself;  *)
(* a package that is infrastructure; and a directory with device links.    *)
(***************************************************************************)
EXTENDS Views, TLC

CONSTANT abs

P(d) == <<"package", d>>
A == P("a")
B == P("b")
G == P("g")
C == G \o <<"c">>
T == <<"toolchain", "ext">>

Always ==
  [x \in {Pkg, A, B, G, C, A \o <<"root">>, A \o <<"root", "etc">>, G \o <<"13">>,
          <<"toolchain">>, T, <<"system">>} |-> "dir"]
  @@ [x \in {Pkg \o <<"pkg.mk">>, A \o <<"a.mk">>, A \o <<"root", "etc", "fstab">>, B \o <<"b.mk">>, B \o <<"init">>,
             G \o <<"g.mk">>, G \o <<"13", "patch">>, C \o <<"c.mk">>, <<"toolchain", "t.mk">>,
             T \o <<"ext.mk">>, <<"system", "passwd">>, <<".config">>} |-> "file"]

\* What edits bring and remove.
InitLink == A \o <<"init">>
Device == A \o <<"root", "tmp">>
DirLink == A \o <<"root", "conf">>
Patch == B \o <<"patch">>
Link == <<"system", "link">>
New == <<"system", "new">>
Child == G \o <<"link">>

Optional == {InitLink, Device, DirLink, Patch, Link, New, Child}

Paths == DOMAIN Always \cup Optional

Targets ==
  [x \in Paths |-> CASE x = InitLink -> B \o <<"init">>
                     [] x = DirLink -> A \o <<"root", "etc">>
                     [] x = Child -> B \o <<"init">>
                     [] OTHER -> abs]

Tree(links) == [x \in Paths |-> IF x \in links THEN "link" ELSE IF x \in Optional THEN "none" ELSE Always[x]]

Trees == {Tree(links) : links \in SUBSET {InitLink, Device, DirLink, Link, Child}}

Edits ==
  [x \in Paths |-> CASE x \in {Patch, New} -> {"file", "none"}
                     [] x \in {InitLink, Device, DirLink, Link} -> {"link", "none"}
                     [] x = B \o <<"init">> -> {"none"}
                     [] OTHER -> {}]

Needs(ds, f) == [dirs |-> ds, closure |-> [d \in ds |-> IF d \in DOMAIN f THEN f[d] ELSE {}]]

\* The group as no package, as one with a package in it, as one without.
AllModels == {Needs({A, B, C, T}, C :> {A, T} @@ A :> {T}),
              Needs({A, G, C, T}, C :> {G}),
              Needs({A, B, G, T}, B :> {G})}

Extras == {<<B, A>>, <<A, G>>, <<G, C>>}
=============================================================================
