----------------------------- MODULE MCAnalysis -----------------------------
(***************************************************************************)
(* Instances of Analysis for TLC: a toolchain tc, a library, its host-*    *)
(* twin in the same directory and an application, every dependency list    *)
(* in both orders, and native rules whose hand-written list equals,        *)
(* reverses or drops the wrapped one.                                      *)
(***************************************************************************)
EXTENDS Analysis, SequencesExt

MCPackage == {"tc", "hostlib", "lib", "app"}
MCDir == {"toolchain", "package/lib", "package/app"}
MCDirOf == [tc |-> "toolchain", hostlib |-> "package/lib", lib |-> "package/lib", app |-> "package/app"]
MCLink == {"lib/shared", "app/init"}
MCLinksOf == [d \in MCDir |-> CASE d = "toolchain"   -> {}
                                [] d = "package/lib" -> {"lib/shared"}
                                [] d = "package/app" -> {"app/init"}]
MCReplaceable == {"tc", "lib"}

\* Wrapped lists: tc is a leaf, the rest build up to app.
WrappedLists ==
  [tc : {<<>>},
   hostlib : {<<>>, <<"tc">>},
   lib : {<<>>, <<"tc", "hostlib">>, <<"hostlib", "tc">>},
   app : {<<"lib", "tc">>, <<"lib", "hostlib", "tc">>}]

WithNatives(w, libList, tcList) ==
  [t \in [name : MCPackage, kind : {"wrapped", "native"}] |->
     IF t.kind = "wrapped" THEN w[t.name]
     ELSE CASE t.name = "lib" -> libList
            [] t.name = "tc"  -> tcList
            [] OTHER          -> <<>>]

MCGraphs ==
  {WithNatives(w, l, <<>>) : w \in WrappedLists, l \in {<<>>, <<"tc", "hostlib">>}}

\* A native tc that depends on lib: a cycle when the configuration selects it.
CyclicGraphs == {WithNatives(w, <<"tc">>, <<"lib">>) : w \in WrappedLists}

AllGraphs == MCGraphs \cup CyclicGraphs
=============================================================================
