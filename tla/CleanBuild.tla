----------------------------- MODULE CleanBuild -----------------------------
(***************************************************************************)
(* What a user of the toolkit is promised: the image a strict build hands  *)
(* out is one that a build from nothing, of the checkout as it is, could   *)
(* have produced.  No cache, no incremental state, no other user.          *)
(***************************************************************************)
CONSTANTS
  Client,           \* checkouts
  Item,             \* files whose change should change the image
  Version,          \* contents a file can have
  CleanImages(_),   \* checkout -> the images a build from nothing can make of it
  None              \* no image

VARIABLES tree, image

vars == <<tree, image>>

Init ==
  /\ tree \in [Client -> [Item -> Version]]
  /\ image = [c \in Client |-> None]

\* An edit makes the image that of another checkout.
Edit(c, i, v) ==
  /\ tree' = [tree EXCEPT ![c][i] = v]
  /\ image' = [image EXCEPT ![c] = None]

\* A build that starts takes the image away until it ends.
Discard(c) ==
  /\ image' = [image EXCEPT ![c] = None]
  /\ UNCHANGED tree

Publish(c) ==
  /\ \E i \in CleanImages(tree[c]) : image' = [image EXCEPT ![c] = i]
  /\ UNCHANGED tree

Next ==
  \E c \in Client :
    \/ \E i \in Item, v \in Version : Edit(c, i, v)
    \/ Discard(c)
    \/ Publish(c)

Spec == Init /\ [][Next]_vars
=============================================================================
