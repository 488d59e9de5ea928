---------------------------- MODULE MCVendoring -----------------------------
(***************************************************************************)
(* Projects for TLC, after the repository's own: FunKey-OS (a script and a *)
(* patch for Buildroot, two patches for the external tree), Home Assistant *)
(* OS (a script and a patch for the external tree).  Of two sources one    *)
(* has a hash in Buildroot, the other is a git tarball without.            *)
(***************************************************************************)
EXTENDS Vendoring

CONSTANTS b1, b2, e1, e2,   \* 0001-..., 0002-... of patches/buildroot and patches/external
          tar, git, old, new

Both(buildroot, external) == [buildroot |-> buildroot, external |-> external]

FunKey == Both(<<b2>>, <<e1, e2>>)
HomeAssistant == Both(<<>>, <<e2>>)

PatchSteps == {"patch_buildroot", "patch_external"}

Of(source, external, patches, scripts, broken, stopAt) ==
  [source |-> source, ext |-> external, patches |-> patches, scripts |-> scripts,
   broken |-> broken, stopAt |-> stopAt]

\* Stops anywhere but between a directory and what makes it complete.
Sound == {
  Of("ref", "subdir", FunKey, Both(<<b1>>, <<>>), {}, PatchSteps \cup {"clone", "ext_clone", "ext_checkout"}),
  Of("ref", "local", FunKey, Both(<<b1>>, <<>>), {}, PatchSteps \cup {"clone"}),
  Of("commit", "whole", HomeAssistant, Both(<<>>, <<e1>>), {}, PatchSteps \cup {"ext_clone"}),
  Of("ref", "none", Both(<<b2>>, <<>>), Both(<<b1>>, <<>>), {}, PatchSteps \cup {"clone"})}

\* A patch that has gone stale.
PatchFails == {Of("ref", "subdir", FunKey, Both(<<b1>>, <<>>), {e2}, {})}

\* A commit is to be had from a server that may be away.
FetchFails == {Of("commit", "whole", HomeAssistant, Both(<<>>, <<e1>>), {}, {"fetch"})}

Hashes == [f \in {tar, git} |-> IF f = tar THEN old ELSE None]
Wants == {{git}, {tar, git}}

\* Nothing is pinned yet, or the tarball is.
LocksOf == {[f \in {tar, git} |-> None], Hashes}
=============================================================================
