---------------------------- MODULE RateLimiter ----------------------------
(* Limiter: one mutex and one time that spaces the requests of every       *)
(* service that talks to an account (debrid/limiter.go). A caller is one   *)
(* call of Wait.                                                           *)
EXTENDS Naturals, FiniteSets

CONSTANTS
  Call,      \* calls of Wait, of any goroutine
  Interval,  \* time units between two requests: a minute / perMinute
  MaxTime    \* bound: the clock stops there

ConstantsOK == Interval \in Nat \ {0} /\ MaxTime \in Nat

VARIABLES
  now,       \* the clock
  next,      \* Limiter.next
  call,      \* call -> "none", "waiting", "granted" or "cancelled"
  due        \* call -> when its timer fires

vars == <<now, next, call, due>>

Later(t) == IF next > t THEN next ELSE t

\* Mutant: the next slot is counted from the clock, not from the slot taken.
ReserveFromNow(c) ==
  /\ call[c] = "none"
  /\ due' = [due EXCEPT ![c] = Later(now)]
  /\ next' = now + Interval
  /\ call' = [call EXCEPT ![c] = IF next > now THEN "waiting" ELSE "granted"]
  /\ UNCHANGED now

\* Under the mutex: the slot is taken before the wait. A call whose wait is
\* zero goes on at once.
Reserve(c) ==
  /\ call[c] = "none"
  /\ due' = [due EXCEPT ![c] = Later(now)]
  /\ next' = Later(now) + Interval
  /\ call' = [call EXCEPT ![c] = IF next > now THEN "waiting" ELSE "granted"]
  /\ UNCHANGED now

\* The timer may fire late, and a select that has both cases takes either.
Grant(c) ==
  /\ call[c] = "waiting" /\ now >= due[c]
  /\ call' = [call EXCEPT ![c] = "granted"]
  /\ UNCHANGED <<now, next, due>>

\* A cancelled call does not give its slot back.
Cancel(c) ==
  /\ call[c] = "waiting"
  /\ call' = [call EXCEPT ![c] = "cancelled"]
  /\ UNCHANGED <<now, next, due>>

Tick == now < MaxTime /\ now' = now + 1 /\ UNCHANGED <<next, call, due>>

Init ==
  /\ now = 0 /\ next = 0
  /\ call = [c \in Call |-> "none"] /\ due = [c \in Call |-> 0]

Next == Tick \/ \E c \in Call : Reserve(c) \/ Grant(c) \/ Cancel(c)

Spec == Init /\ [][Next]_vars

-----------------------------------------------------------------------------
(* Properties.                                                             *)

\* The clock, the reserved slot and the place of each call.
TypeOK ==
  /\ now \in Nat /\ next \in Nat
  /\ call \in [Call -> {"none", "waiting", "granted", "cancelled"}]
  /\ due \in [Call -> Nat]

Taken == {c \in Call : call[c] # "none"}

\* Two calls never share a slot, whichever goroutines they are of and whoever
\* gave up meanwhile: their requests go out no sooner than times that are an
\* interval apart.
Paced ==
  /\ \A c, d \in Taken : c # d => due[c] >= due[d] + Interval \/ due[d] >= due[c] + Interval
  /\ \A c \in Call : call[c] = "granted" => now >= due[c]
=============================================================================
