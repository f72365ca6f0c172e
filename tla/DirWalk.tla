------------------------------- MODULE DirWalk -------------------------------
(***************************************************************************)
(* WalkConcurrent (scanner/walker.go): workers share a queue of            *)
(* directories (dirQueue).  Each takes one, reads it, pushes its           *)
(* subdirectories and emits its media files; "pending" counts what was     *)
(* pushed and not finished, and the worker that brings it to zero closes   *)
(* the queue.  The caller's goroutine (Main) starts the workers first and  *)
(* pushes the roots after that, one by one.                                *)
(* A directory holds one media file, which stands for the files in it.     *)
(***************************************************************************)
EXTENDS Integers, Sequences, FiniteSets

CONSTANTS
  Dir,         \* directories
  Roots,       \* the folders of the library
  Sub,         \* the subdirectories of each directory
  Unreadable,  \* directories os.ReadDir fails on
  Worker, Main,
  None         \* no directory

\* With no root WalkConcurrent returns at once, and it runs one worker at least.
ASSUME DirWalkAssumption ==
  /\ Roots \subseteq Dir /\ Roots # {}
  /\ Sub \in [Dir -> SUBSET Dir]
  /\ \A d \in Dir : d \notin Sub[d]
  /\ IsFiniteSet(Worker) /\ Worker # {}
  /\ Main \notin Worker /\ None \notin Dir

VARIABLES
  items,    \* dirQueue.items
  pending,  \* dirQueue.pending
  closed,   \* dirQueue.closed
  asleep,   \* workers in cond.Wait
  ringing,  \* goroutines between the unlock and the Signal of a push
  dir,      \* the directory each worker has taken
  todo,     \* the entries of it that are left; dir itself is its media file
  out,      \* workers that have left
  unpushed, \* roots that Main has yet to push
  emitted   \* directories whose media file was emitted

queue == <<items, pending, closed, asleep, ringing>>
vars == <<queue, dir, todo, out, unpushed, emitted>>

Init ==
  /\ items = <<>> /\ pending = 0 /\ closed = FALSE
  /\ asleep = {} /\ ringing = {}
  /\ dir = [w \in Worker |-> None]
  /\ todo = [w \in Worker |-> {}]
  /\ out = {}
  /\ unpushed = Roots
  /\ emitted = {}

\* os.ReadDir; when it fails the directory passes for an empty one.
Entries(d) == IF d \in Unreadable THEN {} ELSE Sub[d] \cup {d}

----------------------------------------------------------------------------
(* dirQueue.                                                               *)

\* push, up to its Unlock.  The Signal comes after it.
Push(p, d) ==
  /\ p \notin ringing
  /\ pending' = pending + 1
  /\ items' = Append(items, d)
  /\ ringing' = ringing \cup {p}
  /\ UNCHANGED <<closed, asleep>>

\* cond.Signal wakes one worker, if any is asleep.
Signal(p) ==
  /\ p \in ringing
  /\ ringing' = ringing \ {p}
  /\ \/ asleep = {} /\ UNCHANGED asleep
     \/ \E w \in asleep : asleep' = asleep \ {w}
  /\ UNCHANGED <<items, pending, closed, dir, todo, out, unpushed, emitted>>

\* A worker in popOrWait that is awake.
Popping(w) == w \notin asleep \cup out /\ dir[w] = None

Sleep(w) ==
  /\ Popping(w)
  /\ items = <<>> /\ ~closed
  /\ asleep' = asleep \cup {w}
  /\ UNCHANGED <<items, pending, closed, ringing, dir, todo, out, unpushed, emitted>>

\* Mutant: the queue is cut at the wrong end.
PopFirst(w) ==
  /\ Popping(w)
  /\ items # <<>>
  /\ LET d == items[Len(items)] IN
       /\ dir' = [dir EXCEPT ![w] = d]
       /\ todo' = [todo EXCEPT ![w] = Entries(d)]
  /\ items' = Tail(items)
  /\ UNCHANGED <<pending, closed, asleep, ringing, out, unpushed, emitted>>

\* It takes the last directory pushed and reads it.
Pop(w) ==
  /\ Popping(w)
  /\ items # <<>>
  /\ LET d == items[Len(items)] IN
       /\ dir' = [dir EXCEPT ![w] = d]
       /\ todo' = [todo EXCEPT ![w] = Entries(d)]
  /\ items' = SubSeq(items, 1, Len(items) - 1)
  /\ UNCHANGED <<pending, closed, asleep, ringing, out, unpushed, emitted>>

Leave(w) ==
  /\ Popping(w)
  /\ items = <<>> /\ closed
  /\ out' = out \cup {w}
  /\ UNCHANGED <<queue, dir, todo, unpushed, emitted>>

----------------------------------------------------------------------------
(* What a worker does with its directory, and Main.                        *)

PushSub(w) ==
  /\ \E s \in todo[w] \ {dir[w]} :
       /\ Push(w, s)
       /\ todo' = [todo EXCEPT ![w] = @ \ {s}]
  /\ UNCHANGED <<dir, out, unpushed, emitted>>

Emit(w) ==
  /\ w \notin ringing
  /\ dir[w] \in todo[w]
  /\ emitted' = emitted \cup {dir[w]}
  /\ todo' = [todo EXCEPT ![w] = @ \ {dir[w]}]
  /\ UNCHANGED <<queue, dir, out, unpushed>>

\* Mutant: the Broadcast is left out.
FinishQuietly(w) ==
  /\ dir[w] # None /\ todo[w] = {} /\ w \notin ringing
  /\ dir' = [dir EXCEPT ![w] = None]
  /\ pending' = pending - 1
  /\ closed' = (closed \/ pending' = 0)
  /\ UNCHANGED <<items, asleep, ringing, todo, out, unpushed, emitted>>

\* finish; the Broadcast wakes everyone.
Finish(w) ==
  /\ dir[w] # None /\ todo[w] = {} /\ w \notin ringing
  /\ dir' = [dir EXCEPT ![w] = None]
  /\ pending' = pending - 1
  /\ closed' = (closed \/ pending' = 0)
  /\ asleep' = IF pending' = 0 THEN {} ELSE asleep
  /\ UNCHANGED <<items, ringing, todo, out, unpushed, emitted>>

PushRoot ==
  /\ \E r \in unpushed : Push(Main, r) /\ unpushed' = unpushed \ {r}
  /\ UNCHANGED <<dir, todo, out, emitted>>

Work(w) ==
  \/ Signal(w) \/ Sleep(w) \/ Pop(w) \/ Leave(w)
  \/ PushSub(w) \/ Emit(w) \/ Finish(w)

Start == PushRoot \/ Signal(Main)

Next == Start \/ \E w \in Worker : Work(w)

Spec == Init /\ [][Next]_vars

\* Main and every worker run as goroutines do.
FairSpec == Spec /\ WF_vars(Start) /\ \A w \in Worker : WF_vars(Work(w))

----------------------------------------------------------------------------
(* Properties.                                                             *)

TypeOK ==
  /\ items \in Seq(Dir) /\ pending \in Nat /\ closed \in BOOLEAN
  /\ asleep \subseteq Worker /\ ringing \subseteq Worker \cup {Main}
  /\ dir \in [Worker -> Dir \cup {None}]
  /\ todo \in [Worker -> SUBSET Dir]
  /\ out \subseteq Worker /\ unpushed \subseteq Roots /\ emitted \subseteq Dir

\* wg.Wait is through.
Returned == out = Worker /\ unpushed = {} /\ Main \notin ringing

\* The directories below the roots, as far as the readable ones show them: the
\* smallest set that holds the roots and the subdirectories of what it holds.
Closed(S) == Roots \subseteq S /\ \A d \in S \ Unreadable : Sub[d] \subseteq S
Reachable == {d \in Dir : \A S \in SUBSET Dir : Closed(S) => d \in S}

\* When WalkConcurrent returns, the media file of every directory it could reach
\* and read was emitted: no worker has left while there was, or was still to
\* come, something to read.
WalkIsComplete == Returned => Reachable \ Unreadable \subseteq emitted

\* Two workers never read the same directory, so no file is staged twice.
EmittedOnce ==
  [][\A w \in Worker : dir[w] \in todo[w] \ todo'[w] => dir[w] \notin emitted]_vars

\* What WalkConcurrent does as WalkPromise sees it.
Promise == INSTANCE WalkPromise WITH
  Found <- Reachable \ Unreadable, returned <- Returned
=============================================================================
