------------------------------ MODULE Vendoring ------------------------------
(***************************************************************************)
(* What `br2 setup` and then `br2 fetch` make of a clone.  fetch has       *)
(* Buildroot download the sources of the model into buildroot-src/dl,      *)
(* links them into sources/, where Buck2 takes them from unchecked, and    *)
(* pins their digests in golden/sources.lock.json, which is committed and  *)
(* which a later fetch must reproduce.  It may fail or be interrupted at   *)
(* every step, and the user runs it again; upstream, the model and the     *)
(* downloads change in between; and the results of a golden Job, which has *)
(* fetched for itself at the pushed commit, bring its lock along.          *)
(*                                                                         *)
(* A file is its content, and so is its digest.  fetch takes the sources   *)
(* in any order, of which the code's sorted() is one.  Left out: two       *)
(* fetches at a time, and sources that the model does not name any more.   *)
(***************************************************************************)
EXTENDS SetupTree

CONSTANTS
  Source,    \* <dl_dir>/<file>
  Content,
  Hash,      \* source -> its content by Buildroot's hash file, or None
  Models,    \* the sets of sources that a model may name as vendored
  Locks,     \* locks that a clone may come with: source -> content or None
  Cut,       \* a lock file that was not written to its end
  MaxEdits   \* bound: what is done between fetches

ASSUME VendoringAssumption ==
  /\ Hash \in [Source -> Content \cup {None}]
  /\ Models \subseteq SUBSET Source
  /\ Locks \subseteq [Source -> Content \cup {None}]
  /\ None \notin Content \cup Source
  /\ Cut \notin [Source -> Content \cup {None}]
  /\ MaxEdits \in Nat

VARIABLES
  wanted,     \* the model's sources
  upstream,   \* source -> what a download gives now
  dl,         \* source -> the file in buildroot-src/dl, or None
  sources,    \* source -> the file in sources/, or None
  lock,       \* golden/sources.lock.json: source -> the pinned content or None; or Cut
  committed,  \* that of the pushed commit
  at,         \* "off", "make", "read", "loop", "link"
  read,       \* the lock as fetch has read it
  left,       \* the sources left in fetch's loop
  now,        \* the one whose file is being replaced, or None
  fetched,    \* how the last fetch ended, if the model and the lock are still as it left them
  edits       \* so far

fetching == <<at, read, left, now, fetched, dl, sources, lock>>
world == <<wanted, upstream, committed, edits>>
allVars == <<vars, fetching, world>>

MayBe(f) == IF Hash[f] = None THEN Content ELSE {Hash[f]}

Nothing == [f \in Source |-> None]

VendoringInit ==
  /\ Init
  /\ wanted \in Models
  /\ upstream \in [Source -> Content]
  /\ dl = Nothing
  /\ sources = Nothing
  /\ lock \in Locks
  /\ committed = lock
  /\ at = "off"
  /\ read = Nothing
  /\ left = {}
  /\ now = None
  /\ fetched = "never"
  /\ edits = 0

------------------------------------------------------------------------------
\* Setup, also again.
SetUp ==
  /\ at = "off"
  /\ Next
  /\ UNCHANGED <<fetching, world>>

EndFetch(s) == at' = "off" /\ left' = {} /\ now' = None /\ read' = Nothing /\ fetched' = s

\* br2 fetch; with --vendor-only it takes what is there.
BeginFetch(vendorOnly) ==
  /\ at = "off" /\ pc = "off"
  /\ status = "ok"
  /\ at' = IF vendorOnly THEN "read" ELSE "make"
  /\ fetched' = "running"
  /\ UNCHANGED <<vars, world, read, left, now, dl, sources, lock>>

\* `make source`: Buildroot keeps a file that its hash file admits.
Lacks(f) == dl[f] \notin MayBe(f)

Download(f) ==
  /\ at = "make"
  /\ f \in wanted /\ Lacks(f)
  /\ upstream[f] \in MayBe(f)
  /\ dl' = [dl EXCEPT ![f] = upstream[f]]
  /\ UNCHANGED <<vars, world, at, read, left, now, fetched, sources, lock>>

MakeEnds ==
  /\ at = "make"
  /\ \/ /\ \E f \in wanted : Lacks(f) /\ upstream[f] \notin MayBe(f)
        /\ EndFetch("failed")
     \/ /\ \A f \in wanted : ~Lacks(f)
        /\ at' = "read"
        /\ UNCHANGED <<read, left, now, fetched>>
  /\ UNCHANGED <<vars, world, dl, sources, lock>>

\* json.loads.
ReadLock ==
  /\ at = "read"
  /\ IF lock = Cut
       THEN EndFetch("failed")
       ELSE /\ at' = "loop"
            /\ read' = lock
            /\ left' = wanted
            /\ UNCHANGED <<now, fetched>>
  /\ UNCHANGED <<vars, world, dl, sources, lock>>

\* Mutant: the lock is for the reader.
RefusedByHash(f) == dl[f] \notin MayBe(f)

\* Not downloaded, not what the hash file says, not what the lock says.
Refused(f) == dl[f] \notin MayBe(f) \/ read[f] \notin {None, dl[f]}

Refuse ==
  /\ at = "loop"
  /\ \E f \in left : Refused(f)
  /\ EndFetch("failed")
  /\ UNCHANGED <<vars, world, dl, sources, lock>>

\* Mutant: without dst.unlink(), and the copy after a failed link is one of a
\* file to itself.
UnlinkNot(f) ==
  /\ at = "loop" /\ f \in left
  /\ ~Refused(f)
  /\ IF sources[f] = None
       THEN at' = "link" /\ now' = f /\ UNCHANGED <<read, left, fetched>>
       ELSE EndFetch("failed")
  /\ UNCHANGED <<vars, world, dl, sources, lock>>

\* Mutant: the file is replaced in place.
UnlinkLater(f) ==
  /\ at = "loop" /\ f \in left
  /\ ~Refused(f)
  /\ at' = "link" /\ now' = f
  /\ UNCHANGED <<vars, world, read, left, fetched, dl, sources, lock>>

Unlink(f) ==
  /\ at = "loop" /\ f \in left
  /\ ~Refused(f)
  /\ sources' = [sources EXCEPT ![f] = None]
  /\ at' = "link" /\ now' = f
  /\ UNCHANGED <<vars, world, read, left, fetched, dl, lock>>

Link ==
  /\ at = "link"
  /\ sources' = [sources EXCEPT ![now] = dl[now]]
  /\ left' = left \ {now}
  /\ at' = "loop" /\ now' = None
  /\ UNCHANGED <<vars, world, read, fetched, dl, lock>>

Whole == [f \in Source |-> IF f \in wanted THEN dl[f] ELSE read[f]]

\* Mutant: new pins are kept out of a lock that has some.
WriteLockOnce ==
  /\ at = "loop" /\ left = {}
  /\ lock' = IF read = Nothing THEN Whole ELSE read
  /\ EndFetch("ok")
  /\ UNCHANGED <<vars, world, dl, sources>>

WriteLock ==
  /\ at = "loop" /\ left = {}
  /\ lock' = Whole
  /\ EndFetch("ok")
  /\ UNCHANGED <<vars, world, dl, sources>>

\* A download fails, or fetch is interrupted; the lock is written in place.
StopFetch ==
  /\ at # "off"
  /\ stops < MaxStops
  /\ stops' = stops + 1
  /\ lock' \in {lock} \cup IF at = "loop" /\ left = {} THEN {Cut} ELSE {}
  /\ EndFetch("failed")
  /\ UNCHANGED <<project, pc, tree, ext, pins, mark, applied, todo, rc, status>>
  /\ UNCHANGED <<world, dl, sources>>

------------------------------------------------------------------------------
(* Between fetches; a Job's results come when they come.                   *)

Edit == edits < MaxEdits /\ edits' = edits + 1

\* Another model, after another commit of the project.
Extract(files) ==
  /\ at = "off" /\ status = "ok"
  /\ files # wanted
  /\ wanted' = files
  /\ fetched' = "never"
  /\ Edit
  /\ UNCHANGED <<vars, upstream, committed, at, read, left, now, dl, sources, lock>>

Republish(f, c) ==
  /\ upstream[f] # c
  /\ upstream' = [upstream EXCEPT ![f] = c]
  /\ Edit
  /\ UNCHANGED <<vars, fetching, wanted, committed>>

\* A file is put into dl by hand ("a dead URL has to be supplied by hand",
\* ADR-0007), or deleted.
Supply(f, c) ==
  /\ at = "off"
  /\ dl[f] # c
  /\ dl' = [dl EXCEPT ![f] = c]
  /\ Edit
  /\ UNCHANGED <<vars, wanted, upstream, committed, at, read, left, now, fetched, sources, lock>>

Commit ==
  /\ lock \notin {Cut, committed}
  /\ committed' = lock
  /\ Edit
  /\ UNCHANGED <<vars, fetching, wanted, upstream>>

\* git checkout golden/sources.lock.json.
Restore ==
  /\ at = "off" /\ lock = Cut
  /\ lock' = committed
  /\ fetched' = "never"
  /\ UNCHANGED <<vars, world, at, read, left, now, dl, sources>>

\* br2 golden --k8s unpacks a Job's results.  The Job's own fetch has kept to
\* the committed lock and has pinned the rest, maybe from a volume of older
\* downloads.
TakeResults ==
  /\ lock' \in {l \in [Source -> Content \cup {None}] :
                  \A f \in Source :
                    l[f] \in IF committed[f] # None \/ f \notin wanted THEN {committed[f]} ELSE MayBe(f)}
  /\ lock' # lock
  /\ fetched' = IF fetched = "ok" THEN "never" ELSE fetched
  /\ Edit
  /\ UNCHANGED <<vars, wanted, upstream, committed, at, read, left, now, dl, sources>>

FetchStep ==
  (\E f \in Source : Download(f) \/ Unlink(f)) \/ MakeEnds \/ ReadLock \/ Refuse \/ Link \/ WriteLock

User ==
  \/ \E files \in Models : Extract(files)
  \/ \E f \in Source, c \in Content : Republish(f, c)
  \/ \E f \in Source, c \in Content \cup {None} : Supply(f, c)
  \/ Commit
  \/ Restore
  \/ TakeResults

VendoringNext ==
  \/ SetUp
  \/ \E vendorOnly \in BOOLEAN : BeginFetch(vendorOnly)
  \/ FetchStep
  \/ StopFetch
  \/ User

VendoringSpec == VendoringInit /\ [][VendoringNext]_allVars

\* Started commands go on, the user sets up until that succeeds, then fetches
\* until that does, and restores a lock that cannot be read.
VendoringFair ==
  /\ VendoringSpec
  /\ WF_allVars(SetUp /\ Step)
  /\ WF_allVars(SetUp /\ status # "ok" /\ Begin)
  /\ WF_allVars(FetchStep)
  /\ SF_allVars(fetched # "ok" /\ BeginFetch(FALSE))
  /\ SF_allVars(Restore)

------------------------------------------------------------------------------
VendoringTypeOK ==
  /\ TypeOK
  /\ wanted \in Models
  /\ upstream \in [Source -> Content]
  /\ dl \in [Source -> Content \cup {None}]
  /\ sources \in [Source -> Content \cup {None}]
  /\ lock = Cut \/ lock \in [Source -> Content \cup {None}]
  /\ committed \in [Source -> Content \cup {None}]
  /\ at \in {"off", "make", "read", "loop", "link"}
  /\ at = "link" => now \in left /\ sources[now] = None
  /\ read \in [Source -> Content \cup {None}]
  /\ left \subseteq wanted
  /\ now \in Source \cup {None}
  /\ fetched \in {"never", "running", "ok", "failed"}
  /\ edits \in 0..MaxEdits

\* "Every source has a recorded digest" (ADR-0007), after a fetch that ends
\* well: the one of the file that Buck2 is given, which is the one that
\* Buildroot's hash file has, whatever was left by fetches before.
FetchedMeansPinned ==
  fetched = "ok" =>
    \A f \in wanted : sources[f] \in MayBe(f) /\ lock[f] = sources[f]

Contradicted(f) == lock # Cut /\ lock[f] # None /\ sources[f] \notin {None, lock[f]}

\* "A later fetch must reproduce it" (fetch): while a source is pinned, no
\* fetch, whole or cut short, puts another content in its place, whatever
\* upstream, the downloads and a lost lock have become.  The exception is the
\* lock of a Job: it may contradict pins that were not committed, and sources
\* that are not pinned yet, when it is unpacked or, once committed, restored;
\* and it may come between a fetch's reading and writing.
PinsHold ==
  [][\A f \in Source :
       Contradicted(f)' /\ ~Contradicted(f)
       => TakeResults \/ Restore \/ (at # "off" /\ lock[f] # read[f])]_allVars

\* What fetch finds everywhere is one content.
Reproducible ==
  /\ lock # Cut
  /\ \A f \in wanted :
       /\ upstream[f] \in MayBe(f)
       /\ dl[f] \in MayBe(f) => dl[f] = upstream[f]
       /\ lock[f] \in {None, upstream[f]}

\* Running setup and fetch again mends what failures and interruptions have
\* left, as long as upstream is what it was.
CheckedOut == Converges /\ ((<>[]Reproducible) => []<>(fetched = "ok"))
=============================================================================
