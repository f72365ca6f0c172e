---------------------------- MODULE DirWalkProofs ----------------------------
(***************************************************************************)
(* Proofs about DirWalk for every tree, every number of workers and every  *)
(* set of unreadable directories.  The counter is exact whatever the       *)
(* roots; that the walk is complete needs a single root.                   *)
(***************************************************************************)
EXTENDS DirWalk, FiniteSetTheorems, SequenceTheorems, TLAPS

\* The library has one folder.
OneRoot == \E r \in Dir : Roots = {r}

Busy == {w \in Worker : dir[w] # None}

Queued(d) == \E i \in 1 .. Len(items) : items[i] = d

\* What pending counts: the directories in the queue and those being read.
CountInv ==
  /\ pending = Len(items) + Cardinality(Busy)
  /\ \A w \in Worker : dir[w] = None => todo[w] = {}
  /\ \A w \in Worker : dir[w] # None => todo[w] \subseteq Entries(dir[w])

\* Nothing is pending before the root is pushed and after the queue is closed.
CloseInv ==
  /\ unpushed # {} => unpushed = Roots /\ pending = 0
  /\ closed => pending = 0 /\ unpushed = {}
  /\ out # {} => closed

\* d is still to be read, or its file was emitted or is about to be.
Accounted(d) ==
  \/ d \in emitted \cup Unreadable
  \/ Queued(d)
  \/ \E w \in Worker : dir[w] = d /\ d \in todo[w]

\* The roots are not lost, nor the subdirectories of what was read.
CoverInv ==
  /\ \A r \in Roots : r \in unpushed \/ Accounted(r)
  /\ \A d \in Dir \ Unreadable : \A s \in Sub[d] :
       (d \in emitted \/ \E w \in Worker : dir[w] = d) =>
         Accounted(s) \/ \E w \in Worker : dir[w] = d /\ s \in todo[w]

\* Only what there is to find is read and emitted.
FoundInv ==
  /\ \A i \in 1 .. Len(items) : items[i] \in Reachable
  /\ \A w \in Worker : dir[w] # None => dir[w] \in Reachable
  /\ emitted \subseteq Reachable \ Unreadable

IInv == TypeOK /\ CountInv /\ CloseInv /\ CoverInv /\ FoundInv

----------------------------------------------------------------------------
(* The count.                                                              *)

\* A worker that takes a directory adds one to the busy ones, one that finishes
\* takes one away.
LEMMA BusyCount ==
  ASSUME DirWalkAssumption, TypeOK, NEW w \in Worker, NEW d \in Dir \cup {None},
         dir' = [dir EXCEPT ![w] = d]
  PROVE  /\ Cardinality(Busy) \in Nat
         /\ dir[w] = None /\ d # None => Cardinality(Busy') = Cardinality(Busy) + 1
         /\ dir[w] # None /\ d = None =>
              Cardinality(Busy) > 0 /\ Cardinality(Busy') = Cardinality(Busy) - 1
  <1>1. IsFiniteSet(Busy) /\ Cardinality(Busy) \in Nat
    BY FS_Subset, FS_CardinalityType DEF DirWalkAssumption, Busy
  <1>2. CASE dir[w] = None /\ d # None
    <2>1. Busy' = Busy \cup {w} /\ w \notin Busy
      BY <1>2 DEF TypeOK, Busy
    <2> QED BY <1>1, <1>2, <2>1, FS_AddElement
  <1>3. CASE dir[w] # None /\ d = None
    <2>1. Busy' = Busy \ {w} /\ w \in Busy
      BY <1>3 DEF TypeOK, Busy
    <2>2. Cardinality(Busy) > 0
      BY <1>1, <2>1, FS_EmptySet
    <2> QED BY <1>1, <1>3, <2>1, <2>2, FS_RemoveElement
  <1> QED BY <1>1, <1>2, <1>3

\* The directory a worker takes is in the queue, and the rest of it stays.
LEMMA PopTakes ==
  ASSUME TypeOK, items # <<>>,
         items' = SubSeq(items, 1, Len(items) - 1)
  PROVE  /\ Len(items) > 0 /\ items[Len(items)] \in Dir
         /\ items' \in Seq(Dir) /\ Len(items') = Len(items) - 1
         /\ \A i \in 1 .. Len(items') : items'[i] = items[i]
  <1>1. items \in Seq(Dir) /\ Len(items) \in Nat /\ Len(items) > 0
    BY DEF TypeOK
  <1>2. items[Len(items)] \in Dir
    BY <1>1
  <1>3. items' \in Seq(Dir) /\ \A i \in 1 .. Len(items) - 1 : items'[i] = items[i]
    <2>1. \A i \in 1 .. Len(items) - 1 : items[i] \in Dir
      BY <1>1
    <2>2. /\ items' \in Seq(Dir)
          /\ \A i \in 1 .. (Len(items) - 1) - 1 + 1 : items'[i] = items[1 + i - 1]
      BY <1>1, <2>1, SubSeqProperties
    <2>3. ASSUME NEW i \in 1 .. Len(items) - 1
          PROVE  items'[i] = items[i]
      <3>1. i \in 1 .. (Len(items) - 1) - 1 + 1 /\ 1 + i - 1 = i
        BY <1>1
      <3> QED BY <2>2, <3>1
    <2> QED BY <2>2, <2>3
  <1>4. Len(items') = Len(items) - 1
    <2> DEFINE n == Len(items) - 1
    <2>1. n \in Nat /\ 1 \in Int /\ n \in Int
      BY <1>1
    <2>2. \A i \in 1 .. n : items[i] \in Dir
      BY <1>1
    <2>3. items' = SubSeq(items, 1, n)
      OBVIOUS
    <2> HIDE DEF n
    <2>4. Len(SubSeq(items, 1, n)) = IF 1 <= n THEN n - 1 + 1 ELSE 0
      BY <2>1, <2>2, SubSeqProperties
    <2>5. (IF 1 <= n THEN n - 1 + 1 ELSE 0) = n
      BY <2>1
    <2> QED BY <2>3, <2>4, <2>5 DEF n
  <1> QED BY <1>1, <1>2, <1>3, <1>4

\* A push puts its directory in the queue and keeps what was there.
LEMMA PushAdds ==
  ASSUME TypeOK, NEW d \in Dir, items' = Append(items, d)
  PROVE  /\ items' \in Seq(Dir) /\ Len(items') = Len(items) + 1
         /\ \A i \in 1 .. Len(items) : items'[i] = items[i]
         /\ items'[Len(items')] = d
  BY DEF TypeOK

\* Init establishes all of it.
LEMMA InitHolds == DirWalkAssumption /\ Init => IInv
  <1> SUFFICES ASSUME DirWalkAssumption, Init
               PROVE  IInv
    OBVIOUS
  <1>1. TypeOK
    <2>1. <<>> \in Seq(Dir)
      OBVIOUS
    <2> QED BY <2>1 DEF Init, TypeOK
  <1>2. CountInv
    <2>1. Busy = {} /\ Len(items) = 0
      BY DEF Init, Busy
    <2> QED BY <2>1, FS_EmptySet DEF Init, CountInv
  <1>3. CloseInv
    BY DEF Init, CloseInv
  <1>4. CoverInv
    BY DEF Init, CoverInv, DirWalkAssumption
  <1>5. FoundInv
    BY DEF Init, FoundInv
  <1> QED BY <1>1, <1>2, <1>3, <1>4, <1>5 DEF IInv

\* The counter stays exact, and a natural number, whatever the roots.
LEMMA CountStep ==
  ASSUME DirWalkAssumption, TypeOK, CountInv, [Next]_vars
  PROVE  TypeOK' /\ CountInv'
  <1> USE DEF DirWalkAssumption, TypeOK, CountInv
  <1>0. Cardinality(Busy) \in Nat
    BY FS_Subset, FS_CardinalityType DEF Busy
  <1>1. ASSUME NEW p \in Worker \cup {Main}, Signal(p)
        PROVE  TypeOK' /\ CountInv'
    BY <1>1 DEF Signal, Busy
  <1>2. CASE PushRoot
    <2>1. PICK r \in unpushed : Push(Main, r) /\ unpushed' = unpushed \ {r}
      BY <1>2 DEF PushRoot
    <2>2. r \in Dir
      BY <2>1
    <2>3. items' \in Seq(Dir) /\ Len(items') = Len(items) + 1
      BY <2>1, <2>2, PushAdds DEF Push
    <2>4. Busy' = Busy /\ pending' = pending + 1
      BY <1>2, <2>1 DEF PushRoot, Push, Busy
    <2>5. pending' = Len(items') + Cardinality(Busy')
      BY <1>0, <2>3, <2>4
    <2>6. TypeOK'
      BY <1>2, <2>1, <2>3, <2>4 DEF PushRoot, Push
    <2> QED BY <1>2, <2>1, <2>5, <2>6 DEF PushRoot, Push
  <1>3. ASSUME NEW w \in Worker, Sleep(w)
        PROVE  TypeOK' /\ CountInv'
    BY <1>3 DEF Sleep, Busy
  <1>4. ASSUME NEW w \in Worker, Pop(w)
        PROVE  TypeOK' /\ CountInv'
    <2> DEFINE d == items[Len(items)]
    <2>1. /\ Len(items) > 0 /\ d \in Dir
          /\ items' \in Seq(Dir) /\ Len(items') = Len(items) - 1
      BY <1>4, PopTakes DEF Pop
    <2>2. dir' = [dir EXCEPT ![w] = d] /\ todo' = [todo EXCEPT ![w] = Entries(d)]
      BY <1>4 DEF Pop
    <2>3. Entries(d) \subseteq Dir
      BY <2>1 DEF Entries
    <2>4. dir[w] = None /\ d # None
      BY <1>4, <2>1 DEF Pop, Popping
    <2>5. Cardinality(Busy') = Cardinality(Busy) + 1
      BY <2>1, <2>2, <2>4, BusyCount
    <2>6. TypeOK'
      BY <1>4, <2>1, <2>2, <2>3 DEF Pop
    <2>7. pending' = Len(items') + Cardinality(Busy')
      BY <1>0, <1>4, <2>1, <2>5 DEF Pop
    <2> QED BY <2>1, <2>2, <2>4, <2>6, <2>7
  <1>5. ASSUME NEW w \in Worker, Leave(w)
        PROVE  TypeOK' /\ CountInv'
    BY <1>5 DEF Leave, queue, Busy
  <1>6. ASSUME NEW w \in Worker, PushSub(w)
        PROVE  TypeOK' /\ CountInv'
    <2>1. PICK s \in todo[w] \ {dir[w]} :
            Push(w, s) /\ todo' = [todo EXCEPT ![w] = @ \ {s}]
      BY <1>6 DEF PushSub
    <2>2. s \in Dir
      BY <2>1
    <2>3. items' \in Seq(Dir) /\ Len(items') = Len(items) + 1
      BY <2>1, <2>2, PushAdds DEF Push
    <2>4. Busy' = Busy /\ pending' = pending + 1
      BY <1>6, <2>1 DEF PushSub, Push, Busy
    <2>5. pending' = Len(items') + Cardinality(Busy')
      BY <1>0, <2>3, <2>4
    <2>6. TypeOK'
      BY <1>6, <2>1, <2>3, <2>4 DEF PushSub, Push
    <2> QED BY <1>6, <2>1, <2>5, <2>6 DEF PushSub, Push
  <1>7. ASSUME NEW w \in Worker, Emit(w)
        PROVE  TypeOK' /\ CountInv'
    BY <1>7 DEF Emit, queue, Busy
  <1>8. ASSUME NEW w \in Worker, Finish(w)
        PROVE  TypeOK' /\ CountInv'
    <2>1. dir[w] # None /\ todo[w] = {} /\ dir' = [dir EXCEPT ![w] = None]
      BY <1>8 DEF Finish
    <2>2. Cardinality(Busy) > 0 /\ Cardinality(Busy') = Cardinality(Busy) - 1
      BY <2>1, BusyCount
    <2>3. pending' = pending - 1 /\ items' = items
      BY <1>8 DEF Finish
    <2>4. pending' \in Nat /\ pending' = Len(items') + Cardinality(Busy')
      BY <1>0, <2>2, <2>3
    <2> QED BY <1>8, <2>1, <2>4 DEF Finish
  <1>9. CASE UNCHANGED vars
    BY <1>9 DEF vars, queue, Busy
  <1> QED
    BY <1>1, <1>2, <1>3, <1>4, <1>5, <1>6, <1>7, <1>8, <1>9 DEF Next, Start, Work

----------------------------------------------------------------------------
(* Completeness, with one root.                                            *)

\* The queue is closed once, after the root was pushed, and then nothing is
\* queued or being read any more.
LEMMA CloseStep ==
  ASSUME DirWalkAssumption, OneRoot, TypeOK, CountInv, CloseInv, [Next]_vars
  PROVE  CloseInv'
  <1> USE DEF CloseInv
  <1>0. Cardinality(Busy) \in Nat /\ Len(items) \in Nat
    BY FS_Subset, FS_CardinalityType DEF Busy, TypeOK, DirWalkAssumption
  <1>a. ASSUME NEW w \in Worker, dir[w] # None
        PROVE  pending > 0
    <2>1. Busy # {} /\ IsFiniteSet(Busy)
      BY <1>a, FS_Subset DEF Busy, DirWalkAssumption
    <2>2. Cardinality(Busy) > 0
      BY <1>0, <2>1, FS_EmptySet
    <2> QED BY <1>0, <2>2 DEF CountInv
  <1>1. ASSUME NEW p \in Worker \cup {Main}, Signal(p)
        PROVE  CloseInv'
    BY <1>1 DEF Signal
  <1>2. CASE PushRoot
    <2>1. PICK r \in unpushed : Push(Main, r) /\ unpushed' = unpushed \ {r}
      BY <1>2 DEF PushRoot
    <2>2. unpushed' = {}
      BY <2>1 DEF OneRoot, TypeOK
    <2>3. ~closed
      BY <2>1
    <2> QED BY <1>2, <2>1, <2>2, <2>3 DEF PushRoot, Push
  <1>3. ASSUME NEW w \in Worker, Sleep(w)
        PROVE  CloseInv'
    BY <1>3 DEF Sleep
  <1>4. ASSUME NEW w \in Worker, Pop(w)
        PROVE  CloseInv'
    BY <1>4 DEF Pop
  <1>5. ASSUME NEW w \in Worker, Leave(w)
        PROVE  CloseInv'
    BY <1>5 DEF Leave, queue
  <1>6. ASSUME NEW w \in Worker, PushSub(w)
        PROVE  CloseInv'
    <2>1. todo[w] # {} /\ dir[w] # None
      BY <1>6 DEF PushSub, CountInv
    <2>2. pending > 0
      BY <1>a, <2>1
    <2>3. ~closed /\ unpushed = {}
      BY <2>2
    <2> QED BY <1>6, <2>3 DEF PushSub, Push
  <1>7. ASSUME NEW w \in Worker, Emit(w)
        PROVE  CloseInv'
    BY <1>7 DEF Emit, queue
  <1>8. ASSUME NEW w \in Worker, Finish(w)
        PROVE  CloseInv'
    <2>1. dir[w] # None
      BY <1>8 DEF Finish
    <2>2. pending > 0
      BY <1>a, <2>1
    <2>3. ~closed /\ unpushed = {}
      BY <2>2
    <2> QED BY <1>8, <2>3 DEF Finish
  <1>9. CASE UNCHANGED vars
    BY <1>9 DEF vars, queue
  <1> QED
    BY <1>1, <1>2, <1>3, <1>4, <1>5, <1>6, <1>7, <1>8, <1>9 DEF Next, Start, Work

\* No root and no subdirectory of what was read is lost on its way from an entry
\* of a worker to the queue, and from the queue to a worker.
LEMMA CoverStep ==
  ASSUME DirWalkAssumption, TypeOK, CountInv, CoverInv, [Next]_vars
  PROVE  CoverInv'
  <1> USE DEF TypeOK
  <1>1. ASSUME UNCHANGED <<items, dir, todo, unpushed, emitted>>
        PROVE  CoverInv'
    BY <1>1 DEF CoverInv, Accounted, Queued
  <1>2. CASE PushRoot
    <2>1. PICK r \in unpushed : Push(Main, r) /\ unpushed' = unpushed \ {r}
      BY <1>2 DEF PushRoot
    <2>2. r \in Dir /\ items' = Append(items, r)
      BY <2>1 DEF Push, DirWalkAssumption
    <2>3. \A d : Queued(d) => Queued(d)'
      BY <2>2, PushAdds DEF Queued
    <2>4. Queued(r)'
      BY <2>2, PushAdds DEF Queued
    <2>5. UNCHANGED <<dir, todo, emitted>>
      BY <1>2 DEF PushRoot
    <2>6. \A d : Accounted(d) => Accounted(d)'
      BY <2>3, <2>5 DEF Accounted
    <2>7. Accounted(r)'
      BY <2>4 DEF Accounted
    <2> QED BY <2>1, <2>5, <2>6, <2>7 DEF CoverInv
  <1>3. ASSUME NEW w \in Worker, Pop(w)
        PROVE  CoverInv'
    <2>0. PICK d0 \in Dir : d0 = items[Len(items)]
      BY <1>3, PopTakes DEF Pop
    <2>1. /\ dir' = [dir EXCEPT ![w] = d0] /\ todo' = [todo EXCEPT ![w] = Entries(d0)]
          /\ UNCHANGED <<unpushed, emitted>> /\ dir[w] = None
      BY <1>3, <2>0 DEF Pop, Popping
    <2>2. /\ Len(items) > 0 /\ Len(items') = Len(items) - 1
          /\ \A i \in 1 .. Len(items') : items'[i] = items[i]
      BY <1>3, PopTakes DEF Pop
    <2>3. \A d : Queued(d) => Queued(d)' \/ d = d0
      BY <2>0, <2>2 DEF Queued
    <2>4. Accounted(d0)'
      BY <2>1 DEF Accounted, Entries
    <2>5. todo[w] = {}
      BY <2>1 DEF CountInv
    <2>6. \A v \in Worker : v # w => dir'[v] = dir[v] /\ todo'[v] = todo[v]
      BY <2>1
    <2>7. ASSUME NEW d, Accounted(d)
          PROVE  Accounted(d)'
      BY <2>1, <2>3, <2>4, <2>5, <2>6, <2>7 DEF Accounted
    <2>8. ASSUME NEW d \in Dir \ Unreadable, NEW s \in Sub[d],
                 d \in emitted' \/ \E v \in Worker : dir'[v] = d
          PROVE  Accounted(s)' \/ \E v \in Worker : dir'[v] = d /\ s \in todo'[v]
      <3>1. CASE d = d0
        BY <2>1, <3>1 DEF Entries
      <3>2. CASE d # d0
        <4>1. d \in emitted \/ \E v \in Worker : dir[v] = d
          BY <2>1, <2>6, <2>8, <3>2
        <4>2. Accounted(s) \/ \E v \in Worker : dir[v] = d /\ s \in todo[v]
          BY <4>1 DEF CoverInv
        <4> QED BY <2>5, <2>6, <2>7, <4>2
      <3> QED BY <3>1, <3>2
    <2> QED BY <2>1, <2>7, <2>8 DEF CoverInv
  <1>4. ASSUME NEW w \in Worker, PushSub(w)
        PROVE  CoverInv'
    <2>1. PICK s0 \in todo[w] \ {dir[w]} :
            Push(w, s0) /\ todo' = [todo EXCEPT ![w] = @ \ {s0}]
      BY <1>4 DEF PushSub
    <2>2. s0 \in Dir /\ items' = Append(items, s0)
      BY <2>1 DEF Push
    <2>3. \A d : Queued(d) => Queued(d)'
      BY <2>2, PushAdds DEF Queued
    <2>4. Queued(s0)'
      BY <2>2, PushAdds DEF Queued
    <2>5. UNCHANGED <<dir, unpushed, emitted>>
      BY <1>4 DEF PushSub
    <2>6. \A v \in Worker : \A x \in todo[v] : x \in todo'[v] \/ (v = w /\ x = s0)
      BY <2>1
    <2>7. ASSUME NEW d, Accounted(d)
          PROVE  Accounted(d)'
      BY <2>1, <2>3, <2>5, <2>6, <2>7 DEF Accounted
    <2>8. Accounted(s0)'
      BY <2>4 DEF Accounted
    <2>9. ASSUME NEW d \in Dir \ Unreadable, NEW s \in Sub[d],
                 d \in emitted' \/ \E v \in Worker : dir'[v] = d
          PROVE  Accounted(s)' \/ \E v \in Worker : dir'[v] = d /\ s \in todo'[v]
      <3>1. Accounted(s) \/ \E v \in Worker : dir[v] = d /\ s \in todo[v]
        BY <2>5, <2>9 DEF CoverInv
      <3> QED BY <2>5, <2>6, <2>7, <2>8, <3>1
    <2> QED BY <2>5, <2>7, <2>9 DEF CoverInv
  <1>5. ASSUME NEW w \in Worker, Emit(w)
        PROVE  CoverInv'
    <2>1. /\ dir[w] \in todo[w] /\ emitted' = emitted \cup {dir[w]}
          /\ todo' = [todo EXCEPT ![w] = @ \ {dir[w]}]
          /\ UNCHANGED <<items, dir, unpushed>>
      BY <1>5 DEF Emit, queue
    <2>2. \A v \in Worker : \A x \in todo[v] : x \in todo'[v] \/ (v = w /\ x = dir[w])
      BY <2>1
    <2>3. ASSUME NEW d, Accounted(d)
          PROVE  Accounted(d)'
      BY <2>1, <2>2, <2>3 DEF Accounted, Queued
    <2>4. ASSUME NEW d \in Dir \ Unreadable, NEW s \in Sub[d],
                 d \in emitted' \/ \E v \in Worker : dir'[v] = d
          PROVE  Accounted(s)' \/ \E v \in Worker : dir'[v] = d /\ s \in todo'[v]
      <3>1. d \in emitted \/ \E v \in Worker : dir[v] = d
        BY <2>1, <2>4
      <3>2. Accounted(s) \/ \E v \in Worker : dir[v] = d /\ s \in todo[v]
        BY <3>1 DEF CoverInv
      <3>3. s # d
        BY DEF DirWalkAssumption
      <3> QED BY <2>1, <2>2, <2>3, <3>2, <3>3
    <2> QED BY <2>1, <2>3, <2>4 DEF CoverInv
  <1>6. ASSUME NEW w \in Worker, Finish(w)
        PROVE  CoverInv'
    <2>1. /\ todo[w] = {} /\ dir' = [dir EXCEPT ![w] = None]
          /\ UNCHANGED <<items, todo, unpushed, emitted>>
      BY <1>6 DEF Finish
    <2>2. \A v \in Worker : v # w => dir'[v] = dir[v]
      BY <2>1
    <2>3. ASSUME NEW d, Accounted(d)
          PROVE  Accounted(d)'
      BY <2>1, <2>2, <2>3 DEF Accounted, Queued
    <2>4. ASSUME NEW d \in Dir \ Unreadable, NEW s \in Sub[d],
                 d \in emitted' \/ \E v \in Worker : dir'[v] = d
          PROVE  Accounted(s)' \/ \E v \in Worker : dir'[v] = d /\ s \in todo'[v]
      <3>1. d \in emitted \/ \E v \in Worker : dir[v] = d
        BY <2>1, <2>2, <2>4 DEF DirWalkAssumption
      <3>2. Accounted(s) \/ \E v \in Worker : dir[v] = d /\ s \in todo[v]
        BY <3>1 DEF CoverInv
      <3> QED BY <2>1, <2>2, <2>3, <3>2
    <2> QED BY <2>1, <2>3, <2>4 DEF CoverInv
  <1>7. ASSUME NEW w \in Worker, Sleep(w) \/ Leave(w)
        PROVE  CoverInv'
    BY <1>1, <1>7 DEF Sleep, Leave, queue
  <1>8. ASSUME NEW p \in Worker \cup {Main}, Signal(p)
        PROVE  CoverInv'
    BY <1>1, <1>8 DEF Signal
  <1>9. CASE UNCHANGED vars
    BY <1>1, <1>9 DEF vars, queue
  <1> QED
    BY <1>2, <1>3, <1>4, <1>5, <1>6, <1>7, <1>8, <1>9 DEF Next, Start, Work

\* Reachable holds the roots and the subdirectories of what it holds, and is
\* contained in every set of directories that does.
LEMMA ReachableIsClosed ==
  ASSUME DirWalkAssumption
  PROVE  /\ Closed(Reachable)
         /\ \A S \in SUBSET Dir : Closed(S) => Reachable \subseteq S
  BY DEF DirWalkAssumption, Closed, Reachable

\* Every step keeps the fact that only reachable directories are handed out.
LEMMA FoundStep ==
  ASSUME DirWalkAssumption, TypeOK, CountInv, FoundInv, [Next]_vars
  PROVE  FoundInv'
  <1> USE DEF TypeOK, FoundInv
  <1>0. ASSUME NEW w \in Worker, NEW s \in todo[w]
        PROVE  s \in Reachable /\ dir[w] \notin Unreadable
    <2>1. dir[w] # None
      BY <1>0 DEF CountInv
    <2>2. s \in Entries(dir[w]) /\ dir[w] \in Reachable
      BY <1>0, <2>1 DEF CountInv
    <2> QED BY <2>2, ReachableIsClosed DEF Closed, Entries
  <1>1. ASSUME UNCHANGED <<items, dir, emitted>>
        PROVE  FoundInv'
    BY <1>1
  <1>2. CASE PushRoot
    <2>1. PICK r \in unpushed : Push(Main, r)
      BY <1>2 DEF PushRoot
    <2>2. r \in Dir /\ r \in Reachable /\ items' = Append(items, r)
      BY <2>1, ReachableIsClosed DEF Push, Closed, DirWalkAssumption
    <2>3. \A i \in 1 .. Len(items') : items'[i] \in Reachable
      BY <2>2, PushAdds
    <2> QED BY <1>2, <2>3 DEF PushRoot
  <1>3. ASSUME NEW w \in Worker, Pop(w)
        PROVE  FoundInv'
    <2>1. PICK d0 \in Dir : d0 = items[Len(items)]
      BY <1>3, PopTakes DEF Pop
    <2>2. /\ Len(items) > 0 /\ Len(items') = Len(items) - 1
          /\ \A i \in 1 .. Len(items') : items'[i] = items[i]
      BY <1>3, PopTakes DEF Pop
    <2>3. d0 \in Reachable
      BY <2>1, <2>2
    <2>4. \A i \in 1 .. Len(items') : items'[i] \in Reachable
      BY <2>2
    <2>5. dir' = [dir EXCEPT ![w] = d0] /\ emitted' = emitted
      BY <1>3, <2>1 DEF Pop
    <2> QED BY <2>3, <2>4, <2>5
  <1>4. ASSUME NEW w \in Worker, PushSub(w)
        PROVE  FoundInv'
    <2>1. PICK s \in todo[w] : Push(w, s)
      BY <1>4 DEF PushSub
    <2>2. s \in Dir /\ s \in Reachable /\ items' = Append(items, s)
      BY <1>0, <2>1 DEF Push
    <2>3. \A i \in 1 .. Len(items') : items'[i] \in Reachable
      BY <2>2, PushAdds
    <2> QED BY <1>4, <2>3 DEF PushSub
  <1>5. ASSUME NEW w \in Worker, Emit(w)
        PROVE  FoundInv'
    <2>1. dir[w] \in Reachable \ Unreadable
      BY <1>0, <1>5 DEF Emit
    <2> QED BY <1>5, <2>1 DEF Emit, queue
  <1>6. ASSUME NEW w \in Worker, Finish(w)
        PROVE  FoundInv'
    BY <1>6 DEF Finish
  <1>7. ASSUME NEW w \in Worker, Sleep(w) \/ Leave(w)
        PROVE  FoundInv'
    BY <1>1, <1>7 DEF Sleep, Leave, queue
  <1>8. ASSUME NEW p \in Worker \cup {Main}, Signal(p)
        PROVE  FoundInv'
    BY <1>1, <1>8 DEF Signal
  <1>9. CASE UNCHANGED vars
    BY <1>1, <1>9 DEF vars, queue
  <1> QED
    BY <1>2, <1>3, <1>4, <1>5, <1>6, <1>7, <1>8, <1>9 DEF Next, Start, Work

\* Every step keeps the whole invariant when there is one root.
LEMMA StepHolds ==
  ASSUME DirWalkAssumption, OneRoot, IInv, [Next]_vars
  PROVE  IInv'
  BY CountStep, CloseStep, CoverStep, FoundStep DEF IInv

\* Once WalkConcurrent has returned no worker holds anything.
LEMMA ReturnedIsIdle ==
  ASSUME DirWalkAssumption, IInv, Returned
  PROVE  items = <<>> /\ \A w \in Worker : dir[w] = None /\ todo[w] = {}
  <1> USE DEF IInv
  <1>1. pending = 0
    BY DEF Returned, CloseInv, DirWalkAssumption
  <1>2. Cardinality(Busy) \in Nat /\ Len(items) \in Nat /\ IsFiniteSet(Busy)
    BY FS_Subset, FS_CardinalityType DEF Busy, TypeOK, DirWalkAssumption
  <1>3. Len(items) = 0 /\ Cardinality(Busy) = 0
    BY <1>1, <1>2 DEF CountInv
  <1>4. items = <<>>
    BY <1>3 DEF TypeOK
  <1> QED BY <1>2, <1>3, <1>4, FS_EmptySet DEF Busy, CountInv

\* Once every worker has left, what was emitted and what cannot be read hold the
\* roots and all subdirectories, and so all there is to find.
LEMMA ReturnedIsComplete ==
  ASSUME DirWalkAssumption, IInv, Returned
  PROVE  emitted = Reachable \ Unreadable
  <1> USE DEF IInv
  <1>1. unpushed = {}
    BY DEF Returned
  <1>2. Len(items) = 0 /\ \A w \in Worker : dir[w] = None /\ todo[w] = {}
    BY ReturnedIsIdle
  <1>5. \A d : Accounted(d) => d \in emitted \cup Unreadable
    BY <1>2 DEF Accounted, Queued
  <1> DEFINE S == Dir \cap (emitted \cup Unreadable)
  <1>6. Roots \subseteq S
    BY <1>1, <1>5 DEF CoverInv, DirWalkAssumption
  <1>7. ASSUME NEW d \in S \ Unreadable
        PROVE  Sub[d] \subseteq S
    <2>1. \A s \in Sub[d] : Accounted(s)
      BY <1>2 DEF CoverInv
    <2> QED BY <1>5, <2>1 DEF DirWalkAssumption
  <1>8. Closed(S)
    BY <1>6, <1>7 DEF Closed
  <1>9. Reachable \subseteq S
    BY <1>8, ReachableIsClosed
  <1> QED BY <1>9 DEF FoundInv

\* Nobody comes back and no root is left to push.
LEMMA ReturnedStays ==
  ASSUME DirWalkAssumption, TypeOK, Returned, [Next]_vars
  PROVE  Returned'
  <1> USE DEF Returned, TypeOK
  <1>1. ASSUME NEW p \in Worker \cup {Main}, Signal(p)
        PROVE  Returned'
    BY <1>1 DEF Signal
  <1>2. ~PushRoot
    BY DEF PushRoot
  <1>3. ASSUME NEW w \in Worker, PushSub(w)
        PROVE  Returned'
    BY <1>3 DEF PushSub, Push, DirWalkAssumption
  <1>4. ASSUME NEW w \in Worker, Sleep(w) \/ Pop(w) \/ Emit(w) \/ Finish(w)
        PROVE  Returned'
    <2>1. UNCHANGED <<out, unpushed, ringing>>
      BY <1>4 DEF Sleep, Pop, Emit, Finish, queue
    <2> QED BY <2>1
  <1>6. ASSUME NEW w \in Worker, Leave(w)
        PROVE  Returned'
    BY <1>6 DEF Leave, queue
  <1>5. CASE UNCHANGED vars
    BY <1>5 DEF vars, queue
  <1> QED BY <1>1, <1>2, <1>3, <1>4, <1>5, <1>6 DEF Next, Start, Work

Complete == Returned => emitted = Reachable \ Unreadable

\* A step that emits does so before the return, and emits a file there is to
\* find; one that makes Returned true has nothing left to emit.
LEMMA PromiseStep ==
  ASSUME DirWalkAssumption, IInv, IInv', Complete', [Next]_vars
  PROVE  [Promise!Next]_(Promise!vars)
  <1> USE DEF Promise!Next, Promise!vars
  <1>1. Returned => Returned'
    BY ReturnedStays DEF IInv
  <1>2. CASE emitted' = emitted
    <2>1. CASE Returned' <=> Returned
      <3>1. Returned' = Returned
        BY <2>1 DEF Returned
      <3> QED BY <1>2, <3>1
    <2>2. CASE ~Returned /\ Returned'
      <3>1. emitted = Reachable \ Unreadable
        BY <1>2, <2>2 DEF Complete
      <3> QED BY <1>2, <2>2, <3>1 DEF Promise!Return
    <2> QED BY <1>1, <2>1, <2>2
  <1>3. CASE emitted' # emitted
    <2>1. PICK w \in Worker : Emit(w)
      BY <1>3 DEF Next, Start, Work, vars, queue, PushRoot, Signal, Sleep,
        Pop, Leave, PushSub, Finish
    <2>2. emitted' = emitted \cup {dir[w]} /\ dir[w] \in todo[w] /\ Returned' = Returned
      BY <2>1 DEF Emit, queue, Returned
    <2>3. ~Returned
      BY <2>2, ReturnedIsIdle
    <2>4. dir[w] \in (Reachable \ Unreadable) \ emitted
      BY <1>3, <2>2 DEF IInv, FoundInv
    <2> QED BY <2>2, <2>3, <2>4 DEF Promise!Emit
  <1> QED BY <1>2, <1>3

----------------------------------------------------------------------------
(* Each file once, however many roots.                                     *)

\* Each directory has one parent at most, and no root has one.
IsForest ==
  /\ \A d, e \in Dir : Sub[d] \cap Sub[e] # {} => d = e
  /\ \A d \in Dir : Sub[d] \cap Roots = {}

Begun(d) == d \in emitted \/ \E w \in Worker : dir[w] = d
Seen(d) == Queued(d) \/ Begun(d)

\* A directory is in one place only, and what is below it in none before it was
\* begun and its entry was taken off.
OnceInv ==
  /\ \A i, j \in 1 .. Len(items) : items[i] = items[j] => i = j
  /\ \A d \in Dir : ~(Queued(d) /\ Begun(d))
  /\ \A v, w \in Worker : dir[v] = dir[w] /\ dir[w] # None => v = w
  /\ \A w \in Worker :
       dir[w] \notin Unreadable \cup {None} => (dir[w] \in todo[w] <=> dir[w] \notin emitted)
  /\ \A r \in unpushed : ~Seen(r)
  /\ \A d \in Dir : \A s \in Sub[d] : Seen(s) =>
       /\ d \notin Unreadable /\ Begun(d)
       /\ \A w \in Worker : dir[w] = d => s \notin todo[w]

\* A push of a directory that nobody has seen, by its parent or as a root.
LEMMA PushKeepsOnce ==
  ASSUME DirWalkAssumption, IsForest, TypeOK, OnceInv, NEW s \in Dir,
         ~Seen(s), items' = Append(items, s), UNCHANGED <<dir, emitted>>,
         unpushed' \subseteq unpushed \ {s},
         \A w \in Worker : todo'[w] \subseteq todo[w] /\ s \notin todo'[w],
         \A w \in Worker : dir[w] # s => (dir[w] \in todo'[w] <=> dir[w] \in todo[w]),
         \A d \in Dir : s \in Sub[d] => d \notin Unreadable /\ Begun(d)
  PROVE  OnceInv'
  <1> USE DEF TypeOK, OnceInv
  <1>1. /\ Len(items) \in Nat /\ Len(items') = Len(items) + 1 /\ items'[Len(items')] = s
        /\ \A i \in 1 .. Len(items) : items'[i] = items[i]
    BY PushAdds
  <1>2. \A i \in 1 .. Len(items') : i \in 1 .. Len(items) \/ i = Len(items')
    BY <1>1
  <1>3. \A d : Queued(d)' <=> Queued(d) \/ d = s
    <2>1. \A i \in 1 .. Len(items) : i \in 1 .. Len(items')
      BY <1>1
    <2>2. Len(items') \in 1 .. Len(items')
      BY <1>1
    <2> QED BY <1>1, <1>2, <2>1, <2>2 DEF Queued
  <1>4. \A d : Begun(d)' <=> Begun(d)
    BY DEF Begun
  <1>5. \A d : Seen(d)' <=> Seen(d) \/ d = s
    BY <1>3, <1>4 DEF Seen
  <1>6. \A w \in Worker : dir[w] # s
    BY DEF Seen, Begun
  <1>7. \A i, j \in 1 .. Len(items') : items'[i] = items'[j] => i = j
    <2>1. \A i \in 1 .. Len(items) : items[i] # s
      BY DEF Seen, Queued
    <2> QED BY <1>1, <1>2, <2>1
  <1>8. \A d \in Dir : ~(Queued(d)' /\ Begun(d)')
    BY <1>3, <1>4 DEF Seen
  <1>9. \A d \in Dir : \A e \in Sub[d] : Seen(e)' =>
          /\ d \notin Unreadable /\ Begun(d)'
          /\ \A w \in Worker : dir'[w] = d => e \notin todo'[w]
    BY <1>4, <1>5
  <1>10. \A r \in unpushed' : ~Seen(r)'
    BY <1>5
  <1> QED BY <1>6, <1>7, <1>8, <1>9, <1>10

\* The walk keeps every directory in one place, whenever the queue is closed.
LEMMA OnceStep ==
  ASSUME DirWalkAssumption, IsForest, TypeOK, CountInv, OnceInv, [Next]_vars
  PROVE  OnceInv'
  <1> USE DEF TypeOK, OnceInv
  <1>1. ASSUME UNCHANGED <<items, dir, todo, unpushed, emitted>>
        PROVE  OnceInv'
    BY <1>1 DEF Seen, Begun, Queued
  <1>2. CASE PushRoot
    <2>1. PICK r \in unpushed : Push(Main, r) /\ unpushed' = unpushed \ {r}
      BY <1>2 DEF PushRoot
    <2>2. r \in Dir /\ ~Seen(r) /\ \A d \in Dir : r \notin Sub[d]
      BY <2>1 DEF DirWalkAssumption, IsForest
    <2>3. UNCHANGED <<dir, todo, emitted>> /\ items' = Append(items, r)
      BY <1>2, <2>1 DEF PushRoot, Push
    <2>4. \A w \in Worker : r \notin todo[w]
      BY <2>2 DEF CountInv, Entries, Seen, Begun, DirWalkAssumption
    <2> QED BY <2>1, <2>2, <2>3, <2>4, PushKeepsOnce
  <1>3. ASSUME NEW w \in Worker, PushSub(w)
        PROVE  OnceInv'
    <2>1. PICK s \in todo[w] \ {dir[w]} :
            Push(w, s) /\ todo' = [todo EXCEPT ![w] = @ \ {s}]
      BY <1>3 DEF PushSub
    <2>2. dir[w] \in Dir \ Unreadable /\ s \in Sub[dir[w]] /\ s \in Dir
      BY <2>1 DEF CountInv, Entries, DirWalkAssumption
    <2>3. ~Seen(s) /\ s \notin Roots
      BY <2>1, <2>2 DEF IsForest
    <2>4. \A d \in Dir : s \in Sub[d] => d = dir[w]
      BY <2>2 DEF IsForest
    <2>5. \A d \in Dir : s \in Sub[d] => d \notin Unreadable /\ Begun(d)
      BY <2>2, <2>4 DEF Begun
    <2>6. UNCHANGED <<dir, unpushed, emitted>> /\ items' = Append(items, s)
      BY <1>3, <2>1 DEF PushSub, Push
    <2>7. \A v \in Worker : s \in todo[v] => v = w
      <3> SUFFICES ASSUME NEW v \in Worker, s \in todo[v] PROVE v = w
        OBVIOUS
      <3>1. dir[v] # None /\ s \in Entries(dir[v])
        BY DEF CountInv
      <3>2. dir[v] # s
        BY <2>3 DEF Seen, Begun
      <3>3. dir[v] \in Dir /\ s \in Sub[dir[v]]
        BY <3>1, <3>2 DEF Entries
      <3> QED BY <2>4, <3>1, <3>3
    <2> QED BY <2>1, <2>2, <2>3, <2>5, <2>6, <2>7, PushKeepsOnce
  <1>4. ASSUME NEW w \in Worker, Pop(w)
        PROVE  OnceInv'
    <2> DEFINE d == items[Len(items)]
    <2>1. /\ Len(items) > 0 /\ d \in Dir /\ Len(items) \in Nat
          /\ Len(items') = Len(items) - 1
          /\ \A i \in 1 .. Len(items') : items'[i] = items[i]
      BY <1>4, PopTakes DEF Pop
    <2>2. /\ dir' = [dir EXCEPT ![w] = d] /\ todo' = [todo EXCEPT ![w] = Entries(d)]
          /\ UNCHANGED <<unpushed, emitted>>
      BY <1>4 DEF Pop
    <2>3. d # None /\ dir[w] = None
      BY <1>4, <2>1 DEF Pop, Popping, DirWalkAssumption
    <2>4. Len(items) \in 1 .. Len(items) /\ \A i \in 1 .. Len(items') : i \in 1 .. Len(items)
      BY <2>1
    <2>5. Queued(d) /\ ~Begun(d)
      BY <2>1, <2>4 DEF Queued
    <2>6. \A e : Queued(e)' => Queued(e) /\ e # d
      <3>1. \A i \in 1 .. Len(items') : i # Len(items)
        BY <2>1
      <3> QED BY <2>1, <2>4, <3>1 DEF Queued
    <2>7. \A e \in Dir : Begun(e)' <=> Begun(e) \/ e = d
      <3>1. \A e \in Dir : e # None
        BY DEF DirWalkAssumption
      <3> QED BY <2>2, <2>3, <3>1 DEF Begun
    <2>8. \A e \in Dir : Seen(e)' => Seen(e)
      BY <2>5, <2>6, <2>7 DEF Seen
    <2>9. \A i, j \in 1 .. Len(items') : items'[i] = items'[j] => i = j
      BY <2>1, <2>4
    <2>10. \A e \in Dir : ~(Queued(e)' /\ Begun(e)')
      BY <2>6, <2>7
    <2>11. \A v, u \in Worker : dir'[v] = dir'[u] /\ dir'[u] # None => v = u
      BY <2>2, <2>5 DEF Begun
    <2>12. \A v \in Worker : dir'[v] \notin Unreadable \cup {None} =>
             (dir'[v] \in todo'[v] <=> dir'[v] \notin emitted')
      BY <2>2, <2>5 DEF Begun, Entries
    <2>13. \A r \in unpushed' : ~Seen(r)'
      BY <2>2, <2>8 DEF DirWalkAssumption
    <2>14. ASSUME NEW e \in Dir, NEW s \in Sub[e], Seen(s)'
           PROVE  /\ e \notin Unreadable /\ Begun(e)'
                  /\ \A v \in Worker : dir'[v] = e => s \notin todo'[v]
      <3>1. s \in Dir /\ Seen(s)
        BY <2>8, <2>14 DEF DirWalkAssumption
      <3>2. e \notin Unreadable /\ Begun(e)
        BY <3>1
      <3>3. e # d
        BY <2>5, <3>2
      <3> QED BY <2>2, <2>7, <3>1, <3>2, <3>3
    <2> QED BY <2>9, <2>10, <2>11, <2>12, <2>13, <2>14
  <1>5. ASSUME NEW w \in Worker, Emit(w)
        PROVE  OnceInv'
    <2>1. /\ dir[w] \in todo[w] /\ dir[w] # None
          /\ emitted' = emitted \cup {dir[w]}
          /\ todo' = [todo EXCEPT ![w] = @ \ {dir[w]}]
          /\ UNCHANGED <<items, dir, unpushed>>
      BY <1>5 DEF Emit, queue, CountInv
    <2>2. \A d : Queued(d)' <=> Queued(d)
      BY <2>1 DEF Queued
    <2>3. \A d : Begun(d)' <=> Begun(d)
      BY <2>1 DEF Begun
    <2>4. \A d : Seen(d)' <=> Seen(d)
      BY <2>2, <2>3 DEF Seen
    <2>5. \A v \in Worker : todo'[v] \subseteq todo[v]
      BY <2>1
    <2>6. \A v \in Worker : dir'[v] \notin Unreadable \cup {None} =>
            (dir'[v] \in todo'[v] <=> dir'[v] \notin emitted')
      BY <2>1
    <2>7. \A d \in Dir : ~(Queued(d)' /\ Begun(d)')
      BY <2>2, <2>3
    <2>8. \A d \in Dir : \A s \in Sub[d] : Seen(s)' =>
            /\ d \notin Unreadable /\ Begun(d)'
            /\ \A v \in Worker : dir'[v] = d => s \notin todo'[v]
      BY <2>1, <2>3, <2>4, <2>5
    <2>9. \A r \in unpushed' : ~Seen(r)'
      BY <2>1, <2>4
    <2> QED BY <2>1, <2>6, <2>7, <2>8, <2>9
  <1>6. ASSUME NEW w \in Worker, Finish(w)
        PROVE  OnceInv'
    <2>1. /\ dir[w] # None /\ todo[w] = {} /\ dir' = [dir EXCEPT ![w] = None]
          /\ UNCHANGED <<items, todo, unpushed, emitted>>
      BY <1>6 DEF Finish
    <2>2. \A d : Queued(d)' <=> Queued(d)
      BY <2>1 DEF Queued
    <2>3. \A d \in Dir : Begun(d)' => Begun(d)
      <3>1. None \notin Dir
        BY DEF DirWalkAssumption
      <3> QED BY <2>1, <3>1 DEF Begun
    <2>4. \A d \in Dir \ Unreadable : Begun(d) => Begun(d)'
      BY <2>1 DEF Begun
    <2>5. \A d \in Dir : Seen(d)' => Seen(d)
      BY <2>2, <2>3 DEF Seen
    <2>6. ASSUME NEW d \in Dir, NEW s \in Sub[d], Seen(s)'
          PROVE  /\ d \notin Unreadable /\ Begun(d)'
                 /\ \A v \in Worker : dir'[v] = d => s \notin todo'[v]
      <3>1. s \in Dir /\ Seen(s)
        BY <2>5, <2>6 DEF DirWalkAssumption
      <3>2. d # None
        BY DEF DirWalkAssumption
      <3> QED BY <2>1, <2>4, <3>1, <3>2
    <2>7. \A r \in unpushed' : ~Seen(r)'
      BY <2>1, <2>5 DEF DirWalkAssumption
    <2>8. \A d \in Dir : ~(Queued(d)' /\ Begun(d)')
      BY <2>2, <2>3
    <2> QED BY <2>1, <2>6, <2>7, <2>8
  <1>7. ASSUME NEW p \in Worker \cup {Main}, Signal(p)
        PROVE  OnceInv'
    BY <1>1, <1>7 DEF Signal
  <1>8. ASSUME NEW w \in Worker, Sleep(w) \/ Leave(w)
        PROVE  OnceInv'
    BY <1>1, <1>8 DEF Sleep, Leave, queue
  <1>9. CASE UNCHANGED vars
    BY <1>1, <1>9 DEF vars, queue
  <1> QED
    BY <1>2, <1>3, <1>4, <1>5, <1>6, <1>7, <1>8, <1>9 DEF Next, Start, Work

----------------------------------------------------------------------------
(* Nobody waits for nobody, whatever the roots.                            *)

\* Who sleeps has no directory and the queue is open; whoever pushed to it has yet
\* to signal or somebody is awake; with nothing left to come the queue is closed.
WaitInv ==
  /\ closed => asleep = {}
  /\ unpushed = {} /\ pending = 0 => closed
  /\ out # {} => closed
  /\ \A w \in asleep : dir[w] = None
  /\ \A w \in ringing \cap Worker : dir[w] # None
  /\ items # <<>> /\ ~closed => ringing # {} \/ asleep # Worker

\* Every step of the queue keeps it.
LEMMA WaitStep ==
  ASSUME DirWalkAssumption, TypeOK, CountInv, WaitInv, [Next]_vars
  PROVE  WaitInv'
  <1> USE DEF TypeOK, WaitInv
  <1>0. Cardinality(Busy) \in Nat /\ Len(items) \in Nat
    BY FS_Subset, FS_CardinalityType DEF Busy, DirWalkAssumption
  <1>1. ASSUME NEW p \in Worker \cup {Main}, Signal(p)
        PROVE  WaitInv'
    BY <1>1 DEF Signal, DirWalkAssumption
  <1>2. ASSUME NEW p \in Worker \cup {Main}, NEW d \in Dir, Push(p, d), UNCHANGED <<dir, out>>,
               p = Main \/ dir[p] # None
        PROVE  WaitInv'
    <2>1. pending' # 0
      BY <1>2 DEF Push
    <2> QED BY <1>2, <2>1 DEF Push, DirWalkAssumption
  <1>3. CASE PushRoot
    BY <1>2, <1>3 DEF PushRoot, DirWalkAssumption
  <1>4. ASSUME NEW w \in Worker, PushSub(w)
        PROVE  WaitInv'
    <2>1. PICK s \in todo[w] \ {dir[w]} : Push(w, s)
      BY <1>4 DEF PushSub
    <2>2. s \in Dir /\ dir[w] # None
      BY <2>1 DEF CountInv
    <2> QED BY <1>2, <1>4, <2>1, <2>2 DEF PushSub
  <1>5. ASSUME NEW w \in Worker, Sleep(w)
        PROVE  WaitInv'
    BY <1>5 DEF Sleep, Popping
  <1>6. ASSUME NEW w \in Worker, Pop(w)
        PROVE  WaitInv'
    <2>1. items[Len(items)] \in Dir
      BY <1>6, PopTakes DEF Pop
    <2>2. /\ w \notin asleep /\ dir' = [dir EXCEPT ![w] = items[Len(items)]]
          /\ UNCHANGED <<pending, closed, asleep, ringing, out, unpushed>>
      BY <1>6 DEF Pop, Popping
    <2> QED BY <2>1, <2>2 DEF DirWalkAssumption
  <1>7. ASSUME NEW w \in Worker, Leave(w) \/ Emit(w)
        PROVE  WaitInv'
    BY <1>7 DEF Leave, Emit, queue
  <1>8. ASSUME NEW w \in Worker, Finish(w)
        PROVE  WaitInv'
    <2>1. /\ dir[w] # None /\ w \notin ringing /\ w \notin asleep
          /\ dir' = [dir EXCEPT ![w] = None]
          /\ pending' = pending - 1 /\ closed' = (closed \/ pending' = 0)
          /\ asleep' = IF pending' = 0 THEN {} ELSE asleep
          /\ UNCHANGED <<items, ringing, out, unpushed>>
      BY <1>8 DEF Finish
    <2> QED BY <2>1
  <1>9. CASE UNCHANGED vars
    BY <1>9 DEF vars, queue
  <1> QED
    BY <1>1, <1>3, <1>4, <1>5, <1>6, <1>7, <1>8, <1>9 DEF Next, Start, Work

----------------------------------------------------------------------------
(* The theorems.                                                           *)

\* Whatever the roots: pending counts exactly the directories that are queued or
\* being read, and so never drops below zero.
THEOREM CountIsExact ==
  ASSUME DirWalkAssumption
  PROVE  Spec => [](TypeOK /\ CountInv)
  <1>1. Init => TypeOK /\ CountInv
    BY InitHolds DEF IInv
  <1>2. TypeOK /\ CountInv /\ [Next]_vars => TypeOK' /\ CountInv'
    BY CountStep
  <1> QED BY <1>1, <1>2, PTL DEF Spec

\* With one root, IInv holds in every reachable state.
THEOREM InvariantHolds ==
  ASSUME DirWalkAssumption, OneRoot
  PROVE  Spec => []IInv
  <1>1. Init => IInv
    BY InitHolds
  <1>2. IInv /\ [Next]_vars => IInv'
    BY StepHolds
  <1> QED BY <1>1, <1>2, PTL DEF Spec

\* A library with one folder is walked completely, whatever its tree and however
\* many workers there are.
THEOREM OneRootIsWalked ==
  ASSUME DirWalkAssumption, OneRoot
  PROVE  Spec => []WalkIsComplete
  <1>1. IInv => WalkIsComplete
    BY ReturnedIsComplete DEF WalkIsComplete
  <1> QED BY <1>1, InvariantHolds, PTL

\* With one root WalkConcurrent implements the safety part of its promise: each
\* step emits one file there is to find, returns, or shows nothing.
THEOREM ImplementsPromise ==
  ASSUME DirWalkAssumption, OneRoot
  PROVE  Spec => Promise!SafeSpec
  <1>1. Init => Promise!Init
    BY DEF Init, Promise!Init, Returned, DirWalkAssumption
  <1>2. IInv => Complete
    BY ReturnedIsComplete DEF Complete
  <1>3. IInv /\ IInv' /\ Complete' /\ [Next]_vars => [Promise!Next]_(Promise!vars)
    BY PromiseStep
  <1> QED BY <1>1, <1>2, <1>3, InvariantHolds, PTL DEF Spec, Promise!SafeSpec

\* Two workers never read the same directory, so that no file is staged twice
\* (scanner/walker.go): in a forest, whatever its roots, and though more than one
\* root may have the queue closed too early.
THEOREM FilesAreEmittedOnce ==
  ASSUME DirWalkAssumption, IsForest
  PROVE  Spec => EmittedOnce
  <1> DEFINE Inv == TypeOK /\ CountInv /\ OnceInv
             Fresh == \A w \in Worker : dir[w] \in todo[w] \ todo'[w] => dir[w] \notin emitted
  <1>1. Init => Inv
    <2> SUFFICES ASSUME Init PROVE OnceInv
      BY InitHolds DEF IInv
    <2>1. Len(items) = 0 /\ emitted = {} /\ \A w \in Worker : dir[w] = None
      BY DEF Init
    <2>2. \A d \in Dir : ~Seen(d)
      BY <2>1 DEF Seen, Begun, Queued, DirWalkAssumption
    <2> QED BY <2>1, <2>2 DEF Init, OnceInv, Seen, DirWalkAssumption
  <1>2. Inv /\ [Next]_vars => Inv'
    BY CountStep, OnceStep
  <1>3. ASSUME Inv, [Next]_vars PROVE [Fresh]_vars
    <2> SUFFICES ASSUME NEW w \in Worker, dir[w] \in todo[w] PROVE dir[w] \notin emitted
      OBVIOUS
    <2>1. dir[w] \notin Unreadable \cup {None}
      BY <1>3 DEF CountInv, Entries, DirWalkAssumption
    <2> QED BY <1>3, <2>1 DEF OnceInv
  <1> QED BY <1>1, <1>2, <1>3, PTL DEF Spec, EmittedOnce

\* No worker sleeps in vain: while one is in cond.Wait the queue is open, and a
\* root is still to be pushed, Main is about to signal, or another worker is
\* awake; and what is queued is about to be signalled or has somebody to take it.
\* No Signal is lost and the workers do not all wait for each other
\* (scanner/walker.go).
THEOREM NobodyWaitsInVain ==
  ASSUME DirWalkAssumption
  PROVE  Spec => [](asleep # {} =>
                      /\ ~closed
                      /\ unpushed # {} \/ Main \in ringing \/ asleep \cup out # Worker
                      /\ items # <<>> => ringing # {} \/ asleep \cup out # Worker)
  <1> DEFINE Inv == TypeOK /\ CountInv /\ WaitInv
             NotInVain ==
               asleep # {} =>
                 /\ ~closed
                 /\ unpushed # {} \/ Main \in ringing \/ asleep \cup out # Worker
                 /\ items # <<>> => ringing # {} \/ asleep \cup out # Worker
  <1>1. Init => Inv
    <2>1. Init => WaitInv
      BY DEF Init, WaitInv, DirWalkAssumption
    <2> QED BY <2>1, InitHolds DEF IInv
  <1>2. Inv /\ [Next]_vars => Inv'
    BY CountStep, WaitStep
  <1>3. Inv => NotInVain
    <2> SUFFICES ASSUME Inv, asleep # {} PROVE NotInVain
      OBVIOUS
    <2>1. ~closed /\ out = {}
      BY DEF WaitInv
    <2>2. CASE asleep = Worker
      <3>1. Busy = {} /\ ringing \cap Worker = {}
        BY <2>2 DEF WaitInv, Busy
      <3>2. pending = Len(items) /\ Len(items) \in Nat /\ items \in Seq(Dir)
        BY <3>1, FS_EmptySet DEF CountInv, TypeOK
      <3>3. items # <<>> => Main \in ringing
        BY <2>1, <2>2, <3>1 DEF WaitInv, TypeOK
      <3>4. unpushed # {} \/ items # <<>>
        BY <2>1, <3>2 DEF WaitInv
      <3> QED BY <2>1, <3>3, <3>4
    <2>3. CASE asleep # Worker
      BY <2>1, <2>3 DEF TypeOK
    <2> QED BY <2>2, <2>3
  <1> QED BY <1>1, <1>2, <1>3, PTL DEF Spec
=============================================================================
