---------------------------- MODULE MatrixProofs ----------------------------
(***************************************************************************)
(* For any cells and any number of commands: a cell's verdict is about its *)
(* own image, and no result is lost.                                       *)
(*                                                                         *)
(* Both speak of the file, which is written last.  Looks says what a cell  *)
(* knows between building, scanning and comparing; it is stable because    *)
(* cells that run at once have directories of their own (Exclusive).       *)
(* Bookkeeping says what the lock protects: the list and the text made of  *)
(* it are one until the text is written.                                   *)
(***************************************************************************)
EXTENDS Matrix, FiniteSetTheorems, TLAPS

Finding == [cold : Outcome, coldOf : Salt \cup {None}, warm : Outcome, warmOf : Salt \cup {None}]

Places == Busy \cup Resting \cup {"queued"}

Typed ==
  /\ command \in Nat
  /\ parallel \in {1, 2}
  /\ at \in [Cell -> Places]
  /\ salt \in [Cell -> Salt \cup {None}]
  /\ out \in [Dir -> Salt \cup {None}]
  /\ scan \in [Dir -> Salt \cup {None}]
  /\ found \in [Cell -> Finding]

Exclusive ==
  \A i, j \in Cell : at[i] \in Busy /\ at[j] \in Busy /\ i # j => parallel = 2

Look(i) ==
  at[i] \in Busy =>
    /\ found[i].coldOf \in {None, salt[i]}
    /\ found[i].warmOf \in {None, salt[i]}
    /\ at[i] \in {"cold_scan", "warm_scan"} => out[Iso(i)] = salt[i]
    /\ at[i] \in {"cold_diff", "warm_diff"} => scan[Iso(i)] = salt[i]

Looks == \A i \in Cell : Look(i)

Own(r) == r # None => {r.was.coldOf, r.was.warmOf} \subseteq {None, r.salt}

AllOwn == \A i \in Cell : Own(results[i]) /\ Own(file[i])

Bookkeeping ==
  /\ DOMAIN results = Cell /\ results = [i \in Cell |-> results[i]]
  /\ DOMAIN text = Cell /\ text = [i \in Cell |-> text[i]]
  /\ lock # None => lock \in Cell /\ at[lock] = "write"
  /\ \A i \in Cell : at[i] = "write" => lock = i /\ text[i] = results
  /\ lock = None /\ (\E i \in Cell : at[i] = "done") => file = results
  /\ \A i \in Cell : at[i] = "none" => results[i] = file[i]

Running == Typed /\ Exclusive /\ Looks

Books == Bookkeeping /\ AllOwn

IInv == Running /\ Books

USE MatrixAssumption

LEMMA CellFact == IsFiniteSet(Cell) /\ None \notin Cell
BY DEF Cell

LEMMA SaltIsSalt == ASSUME Typed, NEW i \in Cell PROVE SaltNow(i) \in Salt
<1>1. command % Period \in 0..(Period - 1)
  BY DEF Typed
<1> QED
  BY <1>1 DEF SaltNow, Salt

LEMMA IsoIsDir == ASSUME NEW i \in Cell PROVE Iso(i) \in Dir
BY DEF Iso, Dir

\* Cells that run at once have directories of their own.
LEMMA IsoIsOwn ==
  ASSUME Running, NEW i \in Cell, NEW j \in Cell, at[i] \in Busy, at[j] \in Busy, i # j
  PROVE  Iso(i) # Iso(j)
BY CellFact DEF Running, Exclusive, Iso

LEMMA Initially == Init => IInv
<1> SUFFICES ASSUME Init PROVE IInv
  OBVIOUS
<1>1. Typed
  BY DEF Init, Typed, Places, Resting, Finding, Blank, Outcome
<1>2. Exclusive /\ Looks
  BY DEF Init, Exclusive, Looks, Look, Busy
<1>3. Books
  BY DEF Init, Books, Bookkeeping, AllOwn, Own
<1> QED
  BY <1>1, <1>2, <1>3 DEF IInv, Running

------------------------------------------------------------------------------
(* What a thread does to its directory and its findings.                   *)

\* A busy cell that goes on: the others are looked after by IsoIsOwn.
LEMMA GoesOn ==
  ASSUME Running, NEW i \in Cell, at[i] \in Busy, NEW p \in Places, Goto(i, p),
         UNCHANGED <<command, parallel, salt>>,
         NEW o \in Salt \cup {None}, NEW s \in Salt \cup {None}, NEW r \in Finding,
         out' = [out EXCEPT ![Iso(i)] = o],
         scan' = [scan EXCEPT ![Iso(i)] = s],
         found' = [found EXCEPT ![i] = r],
         p \in Busy =>
           /\ r.coldOf \in {None, salt[i]}
           /\ r.warmOf \in {None, salt[i]}
           /\ p \in {"cold_scan", "warm_scan"} => o = salt[i]
           /\ p \in {"cold_diff", "warm_diff"} => s = salt[i]
  PROVE  Running'
<1>1. Iso(i) \in Dir
  BY IsoIsDir
<1>2. Typed'
  BY <1>1 DEF Running, Typed, Goto
<1>3. \A j \in Cell : at'[j] = IF j = i THEN p ELSE at[j]
  BY DEF Running, Typed, Goto
<1>4. Exclusive'
  BY <1>3 DEF Running, Exclusive
<1>5. \A j \in Cell : Iso(j)' = Iso(j)
  BY DEF Iso
<1>6. Look(i)'
  BY <1>1, <1>3, <1>5 DEF Running, Typed, Look
<1>7. ASSUME NEW j \in Cell, j # i, at[j] \in Busy
      PROVE  Look(j)'
  <2>1. Iso(j) # Iso(i)
    BY <1>7, IsoIsOwn
  <2>2. out'[Iso(j)] = out[Iso(j)] /\ scan'[Iso(j)] = scan[Iso(j)] /\ found'[j] = found[j] /\ at'[j] = at[j]
    BY <1>3, <1>7, <2>1, IsoIsDir DEF Running, Typed
  <2>3. Look(j)
    BY DEF Running, Looks
  <2> QED
    BY <1>5, <2>2, <2>3 DEF Look
<1>8. \A j \in Cell : j # i /\ at[j] \notin Busy => Look(j)'
  BY <1>3 DEF Look
<1>9. Looks'
  BY <1>6, <1>7, <1>8 DEF Looks
<1> QED
  BY <1>2, <1>4, <1>9 DEF Running

LEMMA Same ==
  ASSUME Typed, NEW i \in Cell
  PROVE  /\ out = [out EXCEPT ![Iso(i)] = out[Iso(i)]] /\ out[Iso(i)] \in Salt \cup {None}
         /\ scan = [scan EXCEPT ![Iso(i)] = scan[Iso(i)]] /\ scan[Iso(i)] \in Salt \cup {None}
         /\ found = [found EXCEPT ![i] = found[i]] /\ found[i] \in Finding
         /\ salt[i] \in Salt \cup {None}
BY IsoIsDir DEF Typed

LEMMA Threads ==
  ASSUME Running, NEW i \in Cell,
         Cold(i) \/ Warm(i) \/ Scan(i) \/ DiffCold(i) \/ DiffWarm(i) \/ Record(i) \/ Write(i)
  PROVE  Running'
<1> USE Same DEF Running
<1>1. at[i] \in Busy /\ UNCHANGED <<command, parallel, salt>> /\ Look(i)
  BY DEF Cold, Warm, Scan, DiffCold, DiffWarm, Record, Write, Busy, Looks
<1>2. CASE Cold(i)
  <2> DEFINE r(x) == [found[i] EXCEPT !.cold = x]
  <2>1. \A x \in Outcome : r(x) \in Finding /\ r(x).coldOf = found[i].coldOf /\ r(x).warmOf = found[i].warmOf
    BY DEF Finding
  <2>2. PICK x \in Outcome, p \in Places, o \in Salt \cup {None} :
          /\ found' = [found EXCEPT ![i] = r(x)] /\ Goto(i, p)
          /\ out' = [out EXCEPT ![Iso(i)] = o]
          /\ p \in {"cold_scan", "warm", "record"}
          /\ p = "cold_scan" => o = salt[i]
    <3>1. CASE Built(i) /\ found' = [found EXCEPT ![i].cold = IF Hit(i) THEN "cached" ELSE "built"]
               /\ Goto(i, IF Golden THEN "cold_scan" ELSE IF Caching(i) THEN "warm" ELSE "record")
      <4>1. PICK x \in {"cached", "built"} : found' = [found EXCEPT ![i] = r(x)]
        BY <3>1
      <4>2. PICK p \in {"cold_scan", "warm", "record"} : Goto(i, p)
        BY <3>1
      <4> QED
        BY <3>1, <4>1, <4>2 DEF Built, Outcome, Places, Busy
    <3>2. CASE found' = [found EXCEPT ![i].cold = "failed"] /\ Goto(i, "record") /\ UNCHANGED out
      <4>1. found' = [found EXCEPT ![i] = r("failed")]
        BY <3>2
      <4> QED
        BY <3>2, <4>1 DEF Outcome, Places, Busy
    <3> QED
      BY <1>2, <3>1, <3>2 DEF Cold
  <2>3. scan' = [scan EXCEPT ![Iso(i)] = scan[Iso(i)]]
    BY <1>2 DEF Cold
  <2> HIDE DEF r
  <2>4. p \in Busy =>
          /\ r(x).coldOf \in {None, salt[i]}
          /\ r(x).warmOf \in {None, salt[i]}
          /\ p \in {"cold_scan", "warm_scan"} => o = salt[i]
          /\ p \in {"cold_diff", "warm_diff"} => scan[Iso(i)] = salt[i]
    BY <1>1, <2>1, <2>2 DEF Look
  <2> QED
    BY <1>1, <2>1, <2>2, <2>3, <2>4, GoesOn
<1>3. CASE Warm(i)
  <2> DEFINE r(x) == [found[i] EXCEPT !.warm = x]
  <2>1. \A x \in Outcome : r(x) \in Finding /\ r(x).coldOf = found[i].coldOf /\ r(x).warmOf = found[i].warmOf
    BY DEF Finding
  <2>2. PICK x \in Outcome, p \in Places, o \in Salt \cup {None} :
          /\ found' = [found EXCEPT ![i] = r(x)] /\ Goto(i, p)
          /\ out' = [out EXCEPT ![Iso(i)] = o]
          /\ p \in {"warm_scan", "record"}
          /\ p = "warm_scan" => o = salt[i]
    <3>1. CASE Built(i) /\ found' = [found EXCEPT ![i].warm = IF salt[i] \in cache THEN "cached" ELSE "built"]
               /\ Goto(i, IF Golden THEN "warm_scan" ELSE "record")
      <4>1. PICK x \in {"cached", "built"} : found' = [found EXCEPT ![i] = r(x)]
        BY <3>1
      <4>2. PICK p \in {"warm_scan", "record"} : Goto(i, p)
        BY <3>1
      <4> QED
        BY <3>1, <4>1, <4>2 DEF Built, Outcome, Places, Busy
    <3>2. CASE found' = [found EXCEPT ![i].warm = "failed"] /\ Goto(i, "record") /\ out' = [out EXCEPT ![Iso(i)] = None]
      <4>1. found' = [found EXCEPT ![i] = r("failed")]
        BY <3>2
      <4> QED
        BY <3>2, <4>1 DEF Outcome, Places, Busy
    <3> QED
      BY <1>3, <3>1, <3>2 DEF Warm
  <2>3. scan' = [scan EXCEPT ![Iso(i)] = scan[Iso(i)]]
    BY <1>3 DEF Warm
  <2> HIDE DEF r
  <2>4. p \in Busy =>
          /\ r(x).coldOf \in {None, salt[i]}
          /\ r(x).warmOf \in {None, salt[i]}
          /\ p \in {"cold_scan", "warm_scan"} => o = salt[i]
          /\ p \in {"cold_diff", "warm_diff"} => scan[Iso(i)] = salt[i]
    BY <1>1, <2>1, <2>2 DEF Look
  <2> QED
    BY <1>1, <2>1, <2>2, <2>3, <2>4, GoesOn
<1>4. CASE Scan(i)
  <2>1. UNCHANGED <<out, found>>
    BY <1>4 DEF Scan
  <2>2. CASE scan' = [scan EXCEPT ![Iso(i)] = out[Iso(i)]] /\ (Goto(i, "cold_diff") \/ Goto(i, "warm_diff"))
    <3>1. out[Iso(i)] = salt[i]
      BY <1>1, <1>4 DEF Scan, Look
    <3>2. PICK p \in {"cold_diff", "warm_diff"} : Goto(i, p)
      BY <2>2
    <3>3. /\ out' = [out EXCEPT ![Iso(i)] = out[Iso(i)]]
          /\ found' = [found EXCEPT ![i] = found[i]]
      BY <2>1
    <3>4. p \in Places /\ found[i].coldOf \in {None, salt[i]} /\ found[i].warmOf \in {None, salt[i]}
      BY <1>1 DEF Look, Places, Busy
    <3> QED
      BY <1>1, <2>2, <3>1, <3>2, <3>3, <3>4, GoesOn
  <2>3. CASE scan' = scan /\ Goto(i, "failed")
    BY <1>1, <2>1, <2>3, GoesOn DEF Places, Busy, Resting
  <2> QED
    BY <1>4, <2>2, <2>3 DEF Scan
<1>5. CASE DiffCold(i)
  <2> DEFINE r == [found[i] EXCEPT !.coldOf = scan[Iso(i)]]
  <2>1. r \in Finding /\ r.coldOf = scan[Iso(i)] /\ r.warmOf = found[i].warmOf
    BY DEF Finding
  <2>2. found' = [found EXCEPT ![i] = r] /\ UNCHANGED <<out, scan>>
    BY <1>5 DEF DiffCold
  <2>3. PICK p \in {"warm", "record"} : Goto(i, p)
    BY <1>5 DEF DiffCold
  <2>4. scan[Iso(i)] = salt[i]
    BY <1>1, <1>5 DEF DiffCold, Look
  <2>5. /\ out' = [out EXCEPT ![Iso(i)] = out[Iso(i)]]
        /\ scan' = [scan EXCEPT ![Iso(i)] = scan[Iso(i)]]
    BY <2>2
  <2> HIDE DEF r
  <2>6. p \in Places /\ r.coldOf \in {None, salt[i]} /\ r.warmOf \in {None, salt[i]}
    BY <1>1, <2>1, <2>3, <2>4 DEF Look, Places, Busy
  <2>7. PICK f \in Finding :
          /\ found' = [found EXCEPT ![i] = f]
          /\ f.coldOf \in {None, salt[i]} /\ f.warmOf \in {None, salt[i]}
    BY <2>1, <2>2, <2>6
  <2>8. scan[Iso(i)] \in Salt \cup {None} /\ out[Iso(i)] \in Salt \cup {None}
    OBVIOUS
  <2> QED
    BY <1>1, <2>3, <2>4, <2>5, <2>6, <2>7, <2>8, GoesOn
<1>6. CASE DiffWarm(i)
  <2> DEFINE r == [found[i] EXCEPT !.warmOf = scan[Iso(i)]]
  <2>1. r \in Finding /\ r.warmOf = scan[Iso(i)] /\ r.coldOf = found[i].coldOf
    BY DEF Finding
  <2>2. found' = [found EXCEPT ![i] = r] /\ UNCHANGED <<out, scan>>
    BY <1>6 DEF DiffWarm
  <2>3. PICK p \in {"record"} : Goto(i, p)
    BY <1>6 DEF DiffWarm
  <2>4. scan[Iso(i)] = salt[i]
    BY <1>1, <1>6 DEF DiffWarm, Look
  <2>5. /\ out' = [out EXCEPT ![Iso(i)] = out[Iso(i)]]
        /\ scan' = [scan EXCEPT ![Iso(i)] = scan[Iso(i)]]
    BY <2>2
  <2> HIDE DEF r
  <2>6. p \in Places /\ r.coldOf \in {None, salt[i]} /\ r.warmOf \in {None, salt[i]}
    BY <1>1, <2>1, <2>3, <2>4 DEF Look, Places, Busy
  <2>7. PICK f \in Finding :
          /\ found' = [found EXCEPT ![i] = f]
          /\ f.coldOf \in {None, salt[i]} /\ f.warmOf \in {None, salt[i]}
    BY <2>1, <2>2, <2>6
  <2>8. scan[Iso(i)] \in Salt \cup {None} /\ out[Iso(i)] \in Salt \cup {None}
    OBVIOUS
  <2> QED
    BY <1>1, <2>3, <2>4, <2>5, <2>6, <2>7, <2>8, GoesOn
<1>7. CASE Record(i) \/ Write(i)
  <2>1. UNCHANGED <<out, scan, found>>
    BY <1>7 DEF Record, Write
  <2>2. PICK p \in {"write", "done"} : Goto(i, p)
    BY <1>7 DEF Record, Write
  <2> QED
    BY <1>1, <2>1, <2>2, GoesOn DEF Look, Places, Busy, Resting
<1> QED
  BY <1>2, <1>3, <1>4, <1>5, <1>6, <1>7

\* A cell is taken by a thread that is free: with one thread, by the only one.
LEMMA Started ==
  ASSUME Running, NEW i \in Cell, Start(i)
  PROVE  Running'
<1> USE DEF Running
<1> DEFINE B == {j \in Cell : at[j] \in Busy}
<1>1. at[i] = "queued" /\ UNCHANGED <<command, parallel, scan>>
  BY DEF Start
<1>2. \A j \in Cell : at'[j] = IF j = i THEN "cold" ELSE at[j]
  BY DEF Start, Goto, Typed
<1>3. parallel = 1 => B = {}
  <2>1. IsFiniteSet(B)
    BY CellFact, FS_Subset
  <2>2. Cardinality(B) \in Nat /\ (Cardinality(B) = 0 <=> B = {})
    BY <2>1, FS_CardinalityType, FS_EmptySet
  <2>3. Cardinality(B) < parallel
    BY DEF Start
  <2> QED
    BY <2>2, <2>3
<1>4. Exclusive'
  BY <1>1, <1>2, <1>3 DEF Exclusive, Typed, Busy
<1>5. Typed'
  <2>1. SaltNow(i) \in Salt /\ Blank \in Finding
    BY SaltIsSalt DEF Blank, Finding, Outcome
  <2> QED
    BY <1>1, <2>1, IsoIsDir DEF Start, Goto, Typed, Places, Busy
<1>6. \A j \in Cell : Iso(j)' = Iso(j)
  BY <1>1 DEF Iso
<1>7. Look(i)'
  BY <1>2 DEF Start, Typed, Look, Blank
<1>8. ASSUME NEW j \in Cell, j # i, at[j] \in Busy
      PROVE  Look(j)'
  <2>1. parallel = 2
    BY <1>3, <1>8 DEF Typed
  <2>2. Iso(j) # Iso(i)
    BY <1>8, <2>1 DEF Iso
  <2>3. out'[Iso(j)] = out[Iso(j)] /\ found'[j] = found[j] /\ salt'[j] = salt[j] /\ at'[j] = at[j]
    BY <1>2, <1>8, <2>2, IsoIsDir DEF Start, Typed
  <2> QED
    BY <1>1, <1>6, <2>3 DEF Looks, Look
<1>9. \A j \in Cell : j # i /\ at[j] \notin Busy => Look(j)'
  BY <1>2 DEF Look
<1> QED
  BY <1>4, <1>5, <1>7, <1>8, <1>9 DEF Looks

\* Nobody runs before a command, and cancelling touches nobody who does.
LEMMA Between ==
  ASSUME Running, Cancel \/ \E chosen \in SUBSET Cell, n \in {1, 2} : Begin(chosen, n)
  PROVE  Running'
<1> USE DEF Running
<1>1. ASSUME NEW chosen \in SUBSET Cell, NEW n \in {1, 2}, Begin(chosen, n)
      PROVE  Running'
  <2>1. \A i \in Cell : at'[i] \in {"queued", "none"}
    BY <1>1 DEF Begin
  <2>2. Typed'
    BY <1>1 DEF Begin, Typed, Places, Resting
  <2> QED
    BY <2>1, <2>2 DEF Exclusive, Looks, Look, Busy
<1>2. CASE Cancel
  <2>1. UNCHANGED <<command, parallel, salt, out, scan, found>>
    BY <1>2 DEF Cancel
  <2>2. \A i \in Cell : at'[i] = IF at[i] = "queued" THEN "cancelled" ELSE at[i]
    BY <1>2 DEF Cancel
  <2>3. Typed'
    BY <1>2, <2>1 DEF Cancel, Typed, Places, Resting
  <2>4. Exclusive'
    BY <2>1, <2>2 DEF Exclusive, Busy
  <2>5. Looks'
    BY <2>1, <2>2 DEF Looks, Look, Busy, Iso
  <2> QED
    BY <2>3, <2>4, <2>5
<1> QED
  BY <1>1, <1>2

------------------------------------------------------------------------------
(* What the lock protects.                                                 *)

LEMMA ChosenAreCells == \A v \in SUBSET Variants, m \in SUBSET Modes : Chosen(v, m) \in SUBSET Cell
BY DEF Chosen

LEMMA Begun ==
  ASSUME Running, Books, NEW chosen \in SUBSET Cell, NEW n \in {1, 2}, Begin(chosen, n)
  PROVE  Books'
<1>1. \A i \in Cell : at[i] # "write"
  BY DEF Begin, Idle, Resting
<1>2. lock = None
  BY <1>1 DEF Books, Bookkeeping
<1>3. \A i \in Cell : at'[i] = IF i \in chosen THEN "queued" ELSE "none"
  BY DEF Begin
<1>4. \A i \in Cell : results'[i] = IF i \in chosen THEN None ELSE file[i]
  BY DEF Begin
<1>5. UNCHANGED <<lock, text, file>>
  BY DEF Begin
<1>6. DOMAIN results' = Cell /\ results' = [i \in Cell |-> results'[i]]
  BY DEF Begin
<1>7. Bookkeeping'
  BY <1>2, <1>3, <1>4, <1>5, <1>6 DEF Books, Bookkeeping
<1>8. AllOwn'
  BY <1>4, <1>5 DEF Books, AllOwn, Own
<1> QED
  BY <1>7, <1>8 DEF Books

\* Steps that neither record nor write.
LEMMA Untouched ==
  ASSUME Running, Books, UNCHANGED <<results, lock, text, file>>,
         \A i \in Cell : \/ at'[i] = at[i]
                         \/ at[i] \notin {"write"} /\ at'[i] \notin {"write", "done", "none"}
  PROVE  Books'
BY DEF Books, Bookkeeping, AllOwn

LEMMA Recorded ==
  ASSUME Running, Books, NEW i \in Cell, Record(i)
  PROVE  Books'
<1> DEFINE r == [salt |-> salt[i], was |-> found[i]]
<1>1. at[i] = "record" /\ lock = None /\ lock' = i /\ UNCHANGED <<file, salt, found>>
  BY DEF Record
<1>2. \A j \in Cell : at'[j] = IF j = i THEN "write" ELSE at[j]
  BY DEF Record, Goto, Running, Typed
<1>3. DOMAIN results' = Cell /\ results' = [j \in Cell |-> IF j = i THEN r ELSE results[j]]
  BY DEF Record, Books, Bookkeeping
<1>4. DOMAIN text' = Cell /\ text' = [j \in Cell |-> IF j = i THEN results' ELSE text[j]]
  BY DEF Record, Books, Bookkeeping
<1>5. Own(r)
  BY <1>1 DEF Running, Looks, Look, Busy, Own
<1> HIDE DEF r
<1>6. AllOwn'
  BY <1>1, <1>3, <1>5 DEF Books, AllOwn
<1>7. Bookkeeping'
  <2>1. \A j \in Cell : at[j] # "write"
    BY <1>1, CellFact DEF Books, Bookkeeping
  <2>2. \A j \in Cell : at'[j] = "write" => lock' = j /\ text'[j] = results'
    BY <1>1, <1>2, <1>4, <2>1
  <2>3. lock' # None /\ lock' \in Cell /\ at'[lock'] = "write"
    BY <1>1, <1>2, CellFact
  <2>4. \A j \in Cell : at'[j] = "none" => results'[j] = file'[j]
    BY <1>1, <1>2, <1>3 DEF Books, Bookkeeping
  <2>5. results' = [j \in Cell |-> results'[j]] /\ text' = [j \in Cell |-> text'[j]]
    BY <1>3, <1>4
  <2> QED
    BY <1>3, <1>4, <2>2, <2>3, <2>4, <2>5 DEF Bookkeeping
<1> QED
  BY <1>6, <1>7 DEF Books

LEMMA Written ==
  ASSUME Running, Books, NEW i \in Cell, Write(i)
  PROVE  Books' /\ file' = results
<1>1. at[i] = "write" /\ lock' = None /\ UNCHANGED results /\ file' = text[i]
  BY DEF Write
<1>2. \A j \in Cell : at'[j] = IF j = i THEN "done" ELSE at[j]
  BY DEF Write, Goto, Running, Typed
<1>3. lock = i /\ text[i] = results
  BY <1>1 DEF Books, Bookkeeping
<1>4. \A j \in Cell : j # i => at[j] # "write"
  BY <1>3 DEF Books, Bookkeeping
<1>5. DOMAIN text' = Cell /\ text' = [j \in Cell |-> text'[j]]
  BY DEF Write, Books, Bookkeeping
<1>6. Bookkeeping'
  BY <1>1, <1>2, <1>3, <1>4, <1>5 DEF Books, Bookkeeping
<1>7. AllOwn'
  BY <1>1, <1>3 DEF Books, AllOwn
<1> QED
  BY <1>1, <1>3, <1>6, <1>7 DEF Books

LEMMA Kept == IInv /\ [Next]_vars => IInv'
<1> SUFFICES ASSUME Running, Books, [Next]_vars PROVE Running' /\ Books'
  BY DEF IInv
<1>1. ASSUME NEW chosen \in SUBSET Cell, NEW n \in {1, 2}, Begin(chosen, n)
      PROVE  Running' /\ Books'
  BY <1>1, Between, Begun
<1>2. ASSUME NEW i \in Cell, Start(i)
      PROVE  Running' /\ Books'
  <2>1. \A j \in Cell : at'[j] = IF j = i THEN "cold" ELSE at[j]
    BY <1>2 DEF Start, Goto, Running, Typed
  <2>2. at[i] = "queued" /\ UNCHANGED <<results, lock, text, file>>
    BY <1>2 DEF Start
  <2> QED
    BY <1>2, <2>1, <2>2, Started, Untouched
<1>3. ASSUME NEW i \in Cell, Cold(i) \/ Warm(i) \/ Scan(i) \/ DiffCold(i) \/ DiffWarm(i)
      PROVE  Running' /\ Books'
  <2>1. at[i] # "write" /\ UNCHANGED <<results, lock, text, file>>
    BY <1>3 DEF Cold, Warm, Scan, DiffCold, DiffWarm
  <2>2. PICK p \in {"cold_scan", "cold_diff", "warm", "warm_scan", "warm_diff", "record", "failed"} : Goto(i, p)
    BY <1>3 DEF Cold, Warm, Scan, DiffCold, DiffWarm
  <2>3. \A j \in Cell : at'[j] = IF j = i THEN p ELSE at[j]
    BY <2>2 DEF Goto, Running, Typed
  <2> QED
    BY <1>3, <2>1, <2>3, Threads, Untouched
<1>4. ASSUME NEW i \in Cell, Record(i) \/ Write(i)
      PROVE  Running' /\ Books'
  BY <1>4, Threads, Recorded, Written
<1>5. CASE Cancel
  <2>1. /\ \A i \in Cell : at'[i] = IF at[i] = "queued" THEN "cancelled" ELSE at[i]
        /\ UNCHANGED <<results, lock, text, file>>
    BY <1>5 DEF Cancel
  <2> QED
    BY <1>5, <2>1, Between, Untouched
<1>6. CASE UNCHANGED vars
  BY <1>6 DEF vars, Running, Typed, Exclusive, Looks, Look, Iso, Books, Bookkeeping, AllOwn
<1> QED
  BY <1>1, <1>2, <1>3, <1>4, <1>5, <1>6, ChosenAreCells DEF Next

LEMMA Invariant == Spec => []IInv
<1>1. Init => IInv
  BY Initially
<1>2. IInv /\ [Next]_vars => IInv'
  BY Kept
<1> QED
  BY <1>1, <1>2, PTL DEF Spec

\* manifest_diff's two steps: the verdict that a cell records is about the
\* image it built, whichever cells build and scan beside it.
THEOREM VerdictsAreOwn == Spec => []OwnVerdict
<1>1. IInv => OwnVerdict
  BY DEF IInv, Books, AllOwn, Own, OwnVerdict
<1> QED
  BY <1>1, Invariant, PTL

LEMMA RecordedAtTheEnd == IInv => AllRecorded
BY DEF IInv, Books, Bookkeeping, AllRecorded, Idle, Resting

\* A step changes results in the file only by writing the list, which is the
\* file for those that do not run.
LEMMA OthersKept ==
  ASSUME IInv, [Next]_vars, NEW i \in Cell, file'[i] # file[i]
  PROVE  at[i] # "none"
<1>1. PICK j \in Cell : Write(j)
  BY DEF Next, vars, Begin, Start, Cold, Warm, Scan, DiffCold, DiffWarm, Record, Cancel
<1>2. file' = results
  BY <1>1, Written DEF IInv
<1> QED
  BY <1>2 DEF IInv, Books, Bookkeeping

\* cmd_matrix's file: at the end of a command it is what the command has
\* found, and the results of cells it did not run are never touched.
THEOREM NoResultIsLost == Spec => ResultsKept
<1> DEFINE Step1 == AllRecorded' /\ \A i \in Cell : file'[i] # file[i] => at[i] # "none"
<1>1. IInv /\ [Next]_vars => Step1
  <2>1. IInv /\ [Next]_vars => AllRecorded'
    <3> SUFFICES ASSUME IInv, [Next]_vars PROVE AllRecorded'
      OBVIOUS
    <3>1. IInv'
      BY Kept
    <3> QED
      BY <3>1 DEF IInv, Books, Bookkeeping, AllRecorded, Idle, Resting
  <2> QED
    BY <2>1, OthersKept
<1>2. IInv /\ [Next]_vars => [Step1]_vars
  BY <1>1
<1> QED
  BY <1>2, Invariant, PTL DEF Spec, ResultsKept

------------------------------------------------------------------------------
(* How many run at once, and what the list, the file and the texts hold.   *)

Crew == {i \in Cell : at[i] \in Busy}

Counted ==
  /\ command \in 0..MaxCommands
  /\ Cardinality(Crew) <= parallel

Kinds ==
  /\ cache \subseteq Salt
  /\ \A i \in Cell : at[i] \in Busy => salt[i] \in Salt
  /\ results \in [Cell -> Result \cup {None}]
  /\ \A i \in Cell : at[i] = "write" <=> text[i] # None
  /\ file \in [Cell -> Result \cup {None}]

TInv == IInv /\ Counted /\ Kinds

USE NoneAssumption

LEMMA CrewSize == \A S \in SUBSET Cell : IsFiniteSet(S) /\ Cardinality(S) \in Nat
BY CellFact, FS_Subset, FS_CardinalityType

\* A step after which no other cell is busy.
LEMMA NobodyJoins ==
  ASSUME Counted, parallel' = parallel, command' = command, parallel \in Nat,
         \A j \in Cell : at'[j] \in Busy => at[j] \in Busy
  PROVE  Counted'
<1>1. Crew' \subseteq Crew
  BY DEF Crew
<1>2. IsFiniteSet(Crew) /\ Cardinality(Crew) \in Nat /\ Cardinality(Crew') \in Nat
  BY CrewSize DEF Crew
<1>3. Cardinality(Crew') <= Cardinality(Crew)
  BY <1>1, <1>2, FS_Subset
<1> QED
  BY <1>2, <1>3 DEF Counted

LEMMA TInitially == Init => TInv
<1> SUFFICES ASSUME Init PROVE TInv
  OBVIOUS
<1>1. Crew = {}
  BY DEF Init, Crew, Busy
<1>2. Counted
  BY <1>1, FS_EmptySet DEF Init, Counted
<1>3. Kinds
  BY DEF Init, Kinds, Busy
<1> QED
  BY <1>2, <1>3, Initially DEF TInv

LEMMA CountedStep ==
  ASSUME TInv, Next
  PROVE  Counted'
<1> USE DEF TInv, IInv, Running
<1>0. parallel \in Nat
  BY DEF Typed
<1>1. ASSUME NEW chosen \in SUBSET Cell, NEW n \in {1, 2}, Begin(chosen, n)
      PROVE  Counted'
  <2>1. Crew' = {}
    BY <1>1 DEF Begin, Crew, Busy
  <2>2. Cardinality(Crew') = 0
    BY <2>1, FS_EmptySet
  <2> QED
    BY <1>1, <2>2 DEF Begin, Counted
<1>2. ASSUME NEW i \in Cell, Start(i)
      PROVE  Counted'
  <2>1. Crew' = Crew \cup {i} /\ i \notin Crew
    BY <1>2 DEF Start, Goto, Typed, Crew, Busy
  <2>2. Cardinality(Crew') = Cardinality(Crew) + 1
    BY <2>1, CrewSize, FS_AddElement DEF Crew
  <2>3. Cardinality(Crew) < parallel /\ UNCHANGED <<command, parallel>>
    BY <1>2 DEF Start, Crew
  <2> QED
    BY <1>0, <2>2, <2>3, CrewSize DEF Counted, Crew
<1>3. ASSUME NEW i \in Cell,
             Cold(i) \/ Warm(i) \/ Scan(i) \/ DiffCold(i) \/ DiffWarm(i) \/ Record(i) \/ Write(i)
      PROVE  Counted'
  <2>1. UNCHANGED <<command, parallel>> /\ at[i] \in Busy
    BY <1>3 DEF Cold, Warm, Scan, DiffCold, DiffWarm, Record, Write, Busy
  <2>2. \A j \in Cell : j # i => at'[j] = at[j]
    BY <1>3 DEF Cold, Warm, Scan, DiffCold, DiffWarm, Record, Write, Goto, Typed
  <2> QED
    BY <1>0, <2>1, <2>2, NobodyJoins
<1>4. CASE Cancel
  BY <1>0, <1>4, NobodyJoins DEF Cancel, Busy
<1> QED
  BY <1>1, <1>2, <1>3, <1>4, ChosenAreCells DEF Next

LEMMA KindsStep ==
  ASSUME TInv, Next
  PROVE  Kinds'
<1> USE DEF TInv, IInv, Running
<1>1. ASSUME NEW chosen \in SUBSET Cell, NEW n \in {1, 2}, Begin(chosen, n)
      PROVE  Kinds'
  <2>1. \A i \in Cell : at'[i] \in {"queued", "none"} /\ at[i] # "write"
    BY <1>1 DEF Begin, Idle, Resting
  <2>2. UNCHANGED <<cache, salt, text, file>> /\ results' \in [Cell -> Result \cup {None}]
    BY <1>1 DEF Begin, Kinds
  <2> QED
    BY <2>1, <2>2 DEF Kinds, Busy
<1>2. ASSUME NEW i \in Cell, Start(i)
      PROVE  Kinds'
  <2>1. \A j \in Cell : at'[j] = IF j = i THEN "cold" ELSE at[j]
    BY <1>2 DEF Start, Goto, Typed
  <2>2. at[i] = "queued" /\ UNCHANGED <<cache, results, text, file>>
    BY <1>2 DEF Start
  <2>3. \A j \in Cell : salt'[j] = IF j = i THEN SaltNow(i) ELSE salt[j]
    BY <1>2 DEF Start, Typed
  <2> QED
    BY <2>1, <2>2, <2>3, SaltIsSalt DEF Kinds
<1>3. ASSUME NEW i \in Cell, Cold(i) \/ Warm(i) \/ Scan(i) \/ DiffCold(i) \/ DiffWarm(i)
      PROVE  Kinds'
  <2>1. at[i] # "write" /\ at[i] \in Busy /\ UNCHANGED <<salt, results, text, file>>
    BY <1>3 DEF Cold, Warm, Scan, DiffCold, DiffWarm, Busy
  <2>2. PICK p \in {"cold_scan", "cold_diff", "warm", "warm_scan", "warm_diff", "record", "failed"} : Goto(i, p)
    BY <1>3 DEF Cold, Warm, Scan, DiffCold, DiffWarm
  <2>3. \A j \in Cell : at'[j] = IF j = i THEN p ELSE at[j]
    BY <2>2 DEF Goto, Typed
  <2>4. cache' \subseteq cache \cup {salt[i]}
    BY <1>3 DEF Cold, Warm, Scan, DiffCold, DiffWarm, Built
  <2>5. salt[i] \in Salt
    BY <2>1 DEF Kinds
  <2> QED
    BY <2>1, <2>2, <2>3, <2>4, <2>5 DEF Kinds
<1>4. ASSUME NEW i \in Cell, Record(i)
      PROVE  Kinds'
  <2>1. at[i] = "record" /\ at[i] \in Busy /\ UNCHANGED <<cache, salt, file>>
    BY <1>4 DEF Record, Busy
  <2>2. [salt |-> salt[i], was |-> found[i]] \in Result
    BY <2>1 DEF Kinds, Typed, Result, Finding
  <2>3. results' \in [Cell -> Result \cup {None}]
    BY <1>4, <2>2 DEF Record, Kinds
  <2>4. \A j \in Cell : text'[j] = IF j = i THEN results' ELSE text[j]
    BY <1>4 DEF Record, Books, Bookkeeping
  <2>5. \A j \in Cell : at'[j] = IF j = i THEN "write" ELSE at[j]
    BY <1>4 DEF Record, Goto, Typed
  <2>6. results' # None
    BY <2>3
  <2> QED
    BY <2>1, <2>3, <2>4, <2>5, <2>6 DEF Kinds
<1>5. ASSUME NEW i \in Cell, Write(i)
      PROVE  Kinds'
  <2>1. at[i] = "write" /\ at[i] \in Busy /\ UNCHANGED <<cache, salt, results>>
    BY <1>5 DEF Write, Busy
  <2>2. file' = results
    BY <1>5, Written
  <2>3. \A j \in Cell : text'[j] = IF j = i THEN None ELSE text[j]
    BY <1>5 DEF Write, Books, Bookkeeping
  <2>4. \A j \in Cell : at'[j] = IF j = i THEN "done" ELSE at[j]
    BY <1>5 DEF Write, Goto, Typed
  <2> QED
    BY <2>1, <2>2, <2>3, <2>4 DEF Kinds
<1>6. CASE Cancel
  <2>1. /\ \A i \in Cell : at'[i] = IF at[i] = "queued" THEN "cancelled" ELSE at[i]
        /\ UNCHANGED <<salt, cache, results, text, file>>
    BY <1>6 DEF Cancel
  <2> QED
    BY <2>1 DEF Kinds, Busy
<1> QED
  BY <1>1, <1>2, <1>3, <1>4, <1>5, <1>6, ChosenAreCells DEF Next

LEMMA TInvariant == Spec => []TInv
<1>1. TInv /\ [Next]_vars => TInv'
  <2> SUFFICES ASSUME TInv, [Next]_vars PROVE TInv'
    OBVIOUS
  <2>1. IInv'
    BY Kept DEF TInv
  <2>2. CASE Next
    BY <2>1, <2>2, CountedStep, KindsStep DEF TInv
  <2>3. CASE UNCHANGED vars
    BY <2>1, <2>3 DEF vars, TInv, Counted, Kinds, Crew
  <2> QED
    BY <2>2, <2>3
<1> QED
  BY <1>1, TInitially, PTL DEF Spec

\* Every variable has its kind, no more cells run at once than were asked for,
\* and a text waits to be written for the cell that writes, for no other.
THEOREM TypeCorrect == Spec => []TypeOK
<1>1. TInv => TypeOK
  <2> SUFFICES ASSUME TInv PROVE TypeOK
    OBVIOUS
  <2> USE DEF TInv, IInv, Running, Typed
  <2>1. command \in 0..MaxCommands /\ Cardinality({i \in Cell : at[i] \in Busy}) <= parallel
    BY DEF Counted, Crew
  <2>2. \A i \in Cell : found[i].cold \in Outcome /\ found[i].warm \in Outcome
    BY DEF Finding
  <2> QED
    BY <2>1, <2>2 DEF TypeOK, Kinds, Places
<1> QED
  BY <1>1, TInvariant, PTL

------------------------------------------------------------------------------
(* Which salts there are.  Until the time of the month comes round, no     *)
(* command has the salts of an earlier one, so that what a cell is to make *)
(* is neither in its directory nor in the cache before it is made.         *)

Used == {<<j, k % Period>> : j \in Cell, k \in 1..command}

Unmade(i) ==
  /\ SaltNow(i) \notin cache
  /\ \A d \in Dir : out[d] # SaltNow(i)

Verdict(r) == r # None => r.was.cold # "cached" /\ r.was.warm # "built"

Saltings ==
  /\ cache \subseteq Used
  /\ \A d \in Dir : out[d] \in Used \cup {None}
  /\ \A i \in Cell : at[i] \in Busy => command >= 1 /\ salt[i] = SaltNow(i)
  /\ \A i \in Cell : at[i] \in {"queued", "cold"} => command >= 1 /\ Unmade(i)

Warmth ==
  /\ \A i \in Cell : at[i] \in {"cold_scan", "cold_diff", "warm"} /\ Caching(i) => salt[i] \in cache
  /\ \A i \in Cell : at[i] = "warm" => Caching(i)
  /\ \A i \in Cell : at[i] \in Busy => found[i].cold # "cached" /\ found[i].warm # "built"

Verdicts == \A i \in Cell : Verdict(results[i]) /\ Verdict(file[i])

Cool == command <= Period => Saltings /\ Warmth /\ Verdicts

LEMMA Modulo ==
  ASSUME NEW k \in 1..command, command \in Nat, command + 1 <= Period
  PROVE  k % Period # (command + 1) % Period
<1>1. Period \in Nat \ {0}
  BY MatrixAssumption
<1>2. k % Period = k
  BY <1>1
<1>3. command + 1 < Period => (command + 1) % Period = command + 1
  BY <1>1
<1>4. command + 1 = Period => (command + 1) % Period = 0
  BY <1>1
<1> QED
  BY <1>1, <1>2, <1>3, <1>4

\* The salts of a command are new.
LEMMA NewSalts ==
  ASSUME Saltings, command \in Nat, command' = command + 1, command' <= Period, NEW i \in Cell,
         UNCHANGED <<cache, out>>
  PROVE  Unmade(i)'
<1>1. SaltNow(i)' = <<i, (command + 1) % Period>>
  BY DEF SaltNow
<1>2. SaltNow(i)' \notin Used
  BY <1>1, Modulo DEF Used
<1>3. (command + 1) % Period \in 0..(Period - 1)
  OBVIOUS
<1>4. SaltNow(i)' # None
  BY <1>1, <1>3, NoneAssumption DEF Salt
<1> QED
  BY <1>2, <1>4 DEF Unmade, Saltings

\* The salts of a command are used from its beginning.
LEMMA NowIsUsed ==
  ASSUME command \in Nat, command >= 1, NEW i \in Cell
  PROVE  SaltNow(i) \in Used
BY DEF SaltNow, Used

\* A thread that goes on, with what its build leaves.
LEMMA Colder ==
  ASSUME TInv, Saltings, Warmth, NEW i \in Cell, at[i] \in Busy, NEW p \in Places, Goto(i, p),
         UNCHANGED <<command, salt>>,
         cache \subseteq cache', cache' \subseteq cache \cup {salt[i]},
         NEW d \in Dir, \A e \in Dir : e # d => out'[e] = out[e],
         out'[d] \in {out[d], salt[i], None},
         p \notin {"queued", "cold"},
         p \in {"cold_scan", "cold_diff", "warm"} /\ Caching(i) => salt[i] \in cache',
         p = "warm" => Caching(i),
         \A j \in Cell : j # i => found'[j] = found[j],
         p \in Busy => found'[i].cold # "cached" /\ found'[i].warm # "built"
  PROVE  (Saltings /\ Warmth)'
<1> USE DEF TInv, IInv, Running, Typed
<1>1. \A j \in Cell : at'[j] = IF j = i THEN p ELSE at[j]
  BY DEF Goto
<1>2. salt[i] = SaltNow(i) /\ command >= 1
  BY DEF Saltings
<1>3. Used' = Used /\ \A j \in Cell : SaltNow(j)' = SaltNow(j)
  BY DEF Used, SaltNow
<1>4. salt[i] \in Used
  BY <1>2, NowIsUsed
<1>5. \A j \in Cell : j # i => SaltNow(j) # salt[i] /\ SaltNow(j) # None
  BY <1>2, SaltIsSalt DEF SaltNow
<1>6. \A e \in Dir : out'[e] \in {out[e], salt[i], None}
  OBVIOUS
<1>7. \A j \in Cell : j # i /\ Unmade(j) => Unmade(j)'
  BY <1>3, <1>5, <1>6 DEF Unmade
<1>8. cache' \subseteq Used' /\ \A e \in Dir : out'[e] \in Used' \cup {None}
  BY <1>3, <1>4, <1>6 DEF Saltings
<1>9. \A j \in Cell : at'[j] \in Busy => command' >= 1 /\ salt'[j] = SaltNow(j)'
  BY <1>1, <1>2, <1>3 DEF Saltings
<1>10. \A j \in Cell : at'[j] \in {"queued", "cold"} => command' >= 1 /\ Unmade(j)'
  BY <1>1, <1>7 DEF Saltings
<1>11. Saltings'
  BY <1>8, <1>9, <1>10 DEF Saltings
<1>12. Warmth'
  BY <1>1 DEF Warmth, Caching
<1> QED
  BY <1>11, <1>12

LEMMA CoolStep ==
  ASSUME TInv, Cool, Next
  PROVE  Cool'
<1> USE DEF TInv, IInv, Running
<1> SUFFICES ASSUME command' <= Period
             PROVE  Saltings' /\ Warmth' /\ Verdicts'
  BY DEF Cool
<1>0. command \in Nat
  BY DEF Typed
<1>1. ASSUME NEW chosen \in SUBSET Cell, NEW n \in {1, 2}, Begin(chosen, n)
      PROVE  Saltings' /\ Warmth' /\ Verdicts'
  <2>1. command' = command + 1 /\ UNCHANGED <<cache, out, file>>
    BY <1>1 DEF Begin
  <2>2. Saltings /\ Verdicts
    BY <1>0, <2>1 DEF Cool
  <2>3. \A i \in Cell : at'[i] \in {"queued", "none"}
    BY <1>1 DEF Begin
  <2>4. \A i \in Cell : Unmade(i)'
    BY <1>0, <2>1, <2>2, NewSalts
  <2>5. Used \subseteq Used'
    <3>1. 1..command \subseteq 1..command'
      BY <1>0, <2>1
    <3> QED
      BY <3>1 DEF Used
  <2>6. cache' \subseteq Used' /\ \A d \in Dir : out'[d] \in Used' \cup {None}
    BY <2>1, <2>2, <2>5 DEF Saltings
  <2>7. Saltings'
    BY <1>0, <2>1, <2>3, <2>4, <2>6 DEF Saltings, Busy
  <2>8. Warmth'
    BY <2>3 DEF Warmth, Busy
  <2>9. \A i \in Cell : results'[i] = IF i \in chosen THEN None ELSE file[i]
    BY <1>1 DEF Begin
  <2>10. Verdicts'
    BY <2>1, <2>2, <2>9 DEF Verdicts, Verdict
  <2> QED
    BY <2>7, <2>8, <2>10
<1>2. ASSUME NEW i \in Cell, Start(i)
      PROVE  Saltings' /\ Warmth' /\ Verdicts'
  <2>1. \A j \in Cell : at'[j] = IF j = i THEN "cold" ELSE at[j]
    BY <1>2 DEF Start, Goto, Typed
  <2>2. at[i] = "queued" /\ UNCHANGED <<command, cache, results, file>>
    BY <1>2 DEF Start
  <2>3. Saltings /\ Warmth /\ Verdicts
    BY <2>2 DEF Cool
  <2>4. \A j \in Cell : /\ salt'[j] = IF j = i THEN SaltNow(i) ELSE salt[j]
                        /\ found'[j] = IF j = i THEN Blank ELSE found[j]
    BY <1>2 DEF Start, Typed
  <2>5. \A d \in Dir : out'[d] \in {out[d], None}
    BY <1>2, IsoIsDir DEF Start, Typed
  <2>6. Used' = Used /\ \A j \in Cell : SaltNow(j)' = SaltNow(j)
    BY <2>2 DEF Used, SaltNow
  <2>7. \A j \in Cell : Unmade(j) => Unmade(j)'
    BY <2>2, <2>5, <2>6, SaltIsSalt DEF Unmade
  <2>8. cache' \subseteq Used' /\ \A d \in Dir : out'[d] \in Used' \cup {None}
    BY <2>2, <2>3, <2>5, <2>6 DEF Saltings
  <2>9. \A j \in Cell : at'[j] \in Busy => command' >= 1 /\ salt'[j] = SaltNow(j)'
    BY <2>1, <2>2, <2>3, <2>4, <2>6 DEF Saltings
  <2>10. \A j \in Cell : at'[j] \in {"queued", "cold"} => command' >= 1 /\ Unmade(j)'
    BY <2>1, <2>2, <2>3, <2>7 DEF Saltings
  <2>11. Saltings'
    BY <2>8, <2>9, <2>10 DEF Saltings
  <2>12. Warmth'
    BY <2>1, <2>2, <2>3, <2>4 DEF Warmth, Blank, Caching
  <2>13. Verdicts'
    BY <2>2, <2>3 DEF Verdicts
  <2> QED
    BY <2>11, <2>12, <2>13
<1>3. ASSUME NEW i \in Cell,
             Cold(i) \/ Warm(i) \/ Scan(i) \/ DiffCold(i) \/ DiffWarm(i) \/ Record(i) \/ Write(i)
      PROVE  Saltings' /\ Warmth' /\ Verdicts'
  <2>1. UNCHANGED <<command, salt>> /\ at[i] \in Busy /\ Iso(i) \in Dir
    BY <1>3, IsoIsDir DEF Cold, Warm, Scan, DiffCold, DiffWarm, Record, Write, Busy
  <2>2. Saltings /\ Warmth /\ Verdicts
    BY <2>1 DEF Cool
  <2>3. found[i].cold # "cached" /\ found[i].warm # "built" /\ salt[i] = SaltNow(i)
    BY <2>1, <2>2 DEF Warmth, Saltings
  <2>4. CASE Cold(i)
    <3>1. salt[i] \notin cache /\ out[Iso(i)] # salt[i]
      BY <2>1, <2>2, <2>3, <2>4 DEF Cold, Saltings, Unmade
    <3>2. ~Hit(i)
      BY <3>1 DEF Hit
    <3>3. UNCHANGED <<results, file>>
      BY <2>4 DEF Cold
    <3>4. CASE Built(i) /\ found' = [found EXCEPT ![i].cold = IF Hit(i) THEN "cached" ELSE "built"]
               /\ Goto(i, IF Golden THEN "cold_scan" ELSE IF Caching(i) THEN "warm" ELSE "record")
      <4>1. found'[i].cold = "built" /\ found'[i].warm = found[i].warm
            /\ \A j \in Cell : j # i => found'[j] = found[j]
        BY <3>2, <3>4 DEF Typed, Finding
      <4>2. PICK p \in {"cold_scan", "warm", "record"} : Goto(i, p) /\ (p = "warm" => Caching(i))
        BY <3>4
      <4>3. /\ cache \subseteq cache' /\ cache' \subseteq cache \cup {salt[i]}
            /\ Caching(i) => salt[i] \in cache'
            /\ \A e \in Dir : e # Iso(i) => out'[e] = out[e]
            /\ out'[Iso(i)] = salt[i]
        BY <2>1, <3>4 DEF Built, Typed
      <4>4. p \in Places /\ p \notin {"queued", "cold"}
        BY <4>2 DEF Places, Busy
      <4>5. Saltings' /\ Warmth'
        BY <2>1, <2>2, <2>3, <4>1, <4>2, <4>3, <4>4, Colder
      <4> QED
        BY <2>2, <3>3, <4>5 DEF Verdicts
    <3>5. CASE found' = [found EXCEPT ![i].cold = "failed"] /\ Goto(i, "record") /\ UNCHANGED <<out, cache>>
      <4>1. found'[i].cold = "failed" /\ found'[i].warm = found[i].warm
            /\ \A j \in Cell : j # i => found'[j] = found[j]
        BY <3>5 DEF Typed, Finding
      <4>2. "record" \in Places
        BY DEF Places, Busy
      <4>3. Saltings' /\ Warmth'
        BY <2>1, <2>2, <2>3, <3>5, <4>1, <4>2, Colder
      <4> QED
        BY <2>2, <3>3, <4>3 DEF Verdicts
    <3> QED
      BY <2>4, <3>4, <3>5 DEF Cold
  <2>5. CASE Warm(i)
    <3>1. at[i] = "warm" /\ UNCHANGED <<results, file>>
      BY <2>5 DEF Warm
    <3>2. Caching(i) /\ salt[i] \in cache
      BY <2>2, <3>1 DEF Warmth
    <3>3. PICK x \in {"cached", "failed"}, p \in {"warm_scan", "record"} :
            found' = [found EXCEPT ![i].warm = x] /\ Goto(i, p)
      BY <2>5, <3>2 DEF Warm
    <3>4. found'[i].warm = x /\ found'[i].cold = found[i].cold
          /\ \A j \in Cell : j # i => found'[j] = found[j]
      BY <3>3 DEF Typed, Finding
    <3>5. /\ cache \subseteq cache' /\ cache' \subseteq cache \cup {salt[i]}
          /\ \A e \in Dir : e # Iso(i) => out'[e] = out[e]
          /\ out'[Iso(i)] \in {salt[i], None}
      BY <2>1, <2>5 DEF Warm, Built, Typed
    <3>6. p \in Places /\ p \notin {"queued", "cold", "cold_scan", "cold_diff", "warm"}
      BY <3>3 DEF Places, Busy
    <3>7. Saltings' /\ Warmth'
      BY <2>1, <2>2, <2>3, <3>3, <3>4, <3>5, <3>6, Colder
    <3> QED
      BY <2>2, <3>1, <3>7 DEF Verdicts
  <2>6. CASE Scan(i) \/ DiffCold(i) \/ DiffWarm(i)
    <3>1. UNCHANGED <<cache, out, results, file>>
      BY <2>6 DEF Scan, DiffCold, DiffWarm
    <3>2. PICK p \in {"cold_diff", "warm_diff", "warm", "record", "failed"} :
            /\ Goto(i, p)
            /\ p = "cold_diff" => at[i] = "cold_scan"
            /\ p = "warm" => at[i] = "cold_diff" /\ Caching(i)
      BY <2>6 DEF Scan, DiffCold, DiffWarm
    <3>3. p \in Places /\ p \notin {"queued", "cold"}
      BY <3>2 DEF Places, Busy, Resting
    <3>4. \A j \in Cell : found'[j].cold = found[j].cold /\ found'[j].warm = found[j].warm
      BY <2>6 DEF Scan, DiffCold, DiffWarm, Typed, Finding
    <3>5. \A j \in Cell : j # i => found'[j] = found[j]
      BY <2>6 DEF Scan, DiffCold, DiffWarm, Typed
    <3>6. p \in {"cold_scan", "cold_diff", "warm"} /\ Caching(i) => salt[i] \in cache'
      BY <2>2, <3>1, <3>2 DEF Warmth
    <3>7. Saltings' /\ Warmth'
      BY <2>1, <2>2, <2>3, <3>1, <3>2, <3>3, <3>4, <3>5, <3>6, Colder
    <3> QED
      BY <2>2, <3>1, <3>7 DEF Verdicts
  <2>7. CASE Record(i) \/ Write(i)
    <3>1. UNCHANGED <<cache, out, found>>
      BY <2>7 DEF Record, Write
    <3>2. PICK p \in {"write", "done"} : Goto(i, p)
      BY <2>7 DEF Record, Write
    <3>3. p \in Places /\ p \notin {"queued", "cold"}
      BY <3>2 DEF Places, Busy, Resting
    <3>4. Saltings' /\ Warmth'
      BY <2>1, <2>2, <2>3, <3>1, <3>2, <3>3, Colder
    <3>5. CASE Record(i)
      <4>1. UNCHANGED file /\ results' = [results EXCEPT ![i] = [salt |-> salt[i], was |-> found[i]]]
        BY <3>5 DEF Record
      <4>2. Verdict([salt |-> salt[i], was |-> found[i]])
        BY <2>3 DEF Verdict
      <4>3. \A j \in Cell : j # i => results'[j] = results[j]
        BY <4>1 DEF Kinds
      <4>4. results'[i] = [salt |-> salt[i], was |-> found[i]]
        BY <4>1 DEF Kinds
      <4> QED
        BY <2>2, <3>4, <4>1, <4>2, <4>3, <4>4 DEF Verdicts
    <3>6. CASE Write(i)
      <4>1. file' = results /\ UNCHANGED results
        BY <3>6, Written DEF Write
      <4> QED
        BY <2>2, <3>4, <4>1 DEF Verdicts
    <3> QED
      BY <2>7, <3>5, <3>6
  <2> QED
    BY <1>3, <2>4, <2>5, <2>6, <2>7
<1>4. CASE Cancel
  <2>1. UNCHANGED <<command, salt, cache, out, found, results, file>>
    BY <1>4 DEF Cancel
  <2>2. \A i \in Cell : at'[i] = IF at[i] = "queued" THEN "cancelled" ELSE at[i]
    BY <1>4 DEF Cancel
  <2>3. Saltings /\ Warmth /\ Verdicts
    BY <2>1 DEF Cool
  <2>4. Used' = Used /\ \A j \in Cell : SaltNow(j)' = SaltNow(j) /\ (Unmade(j)' <=> Unmade(j))
    BY <2>1 DEF Used, SaltNow, Unmade
  <2>5. Saltings'
    BY <2>1, <2>2, <2>3, <2>4 DEF Saltings, Busy
  <2>6. Warmth' /\ Verdicts'
    BY <2>1, <2>2, <2>3 DEF Warmth, Busy, Caching, Verdicts
  <2> QED
    BY <2>5, <2>6
<1> QED
  BY <1>1, <1>2, <1>3, <1>4, ChosenAreCells DEF Next

LEMMA CoolInitially == Init => Cool
BY DEF Init, Cool, Saltings, Warmth, Verdicts, Verdict, Busy

\* As long as no salt comes twice, which is a month, a cold build finds
\* nothing of any earlier build and a warm one finds its own cold one's.
THEOREM ColdAndWarm == Spec => [](command <= Period => ColdIsCold)
<1>1. TInv /\ Cool /\ [Next]_vars => Cool'
  <2> SUFFICES ASSUME TInv, Cool, UNCHANGED vars PROVE Cool'
    BY CoolStep
  <2> QED
    BY DEF vars, Cool, Saltings, Warmth, Verdicts, Used, SaltNow, Unmade
<1>2. Cool => (command <= Period => ColdIsCold)
  BY DEF Cool, Verdicts, Verdict, ColdIsCold
<1> QED
  BY <1>1, <1>2, CoolInitially, TInvariant, PTL DEF Spec
=============================================================================
