------------------------- MODULE RateLimiterProofs -------------------------
(***************************************************************************)
(* Proofs about RateLimiter for every number of callers, every interval    *)
(* and every length of the run.                                            *)
(***************************************************************************)
EXTENDS RateLimiter, TLAPS

\* A slot handed out lies an interval before the next one: what keeps the slot
\* of a new call apart from all those before it, the cancelled ones included.
SlotsBeforeNext == \A c \in Taken : due[c] + Interval <= next

IInv == TypeOK /\ SlotsBeforeNext /\ Paced

\* The slot a call takes is neither before the clock nor before the next slot.
LEMMA LaterBound ==
  ASSUME NEW t \in Nat, next \in Nat
  PROVE  Later(t) \in Nat /\ Later(t) >= t /\ Later(t) >= next
BY DEF Later

\* A call that takes a slot keeps it apart from the slots taken before.
LEMMA ReserveStep ==
  ASSUME ConstantsOK, IInv, NEW c \in Call, Reserve(c)
  PROVE  IInv'
<1> USE DEF ConstantsOK
<1> DEFINE slot == Later(now)
<1>1. TypeOK /\ SlotsBeforeNext /\ Paced
  BY DEF IInv
<1>2. slot \in Nat /\ slot >= now /\ slot >= next
  BY <1>1, LaterBound DEF TypeOK
<1>3. /\ call[c] = "none" /\ now' = now /\ next' = slot + Interval
      /\ due' = [due EXCEPT ![c] = slot]
      /\ call' = [call EXCEPT ![c] = IF next > now THEN "waiting" ELSE "granted"]
  BY DEF Reserve
<1> HIDE DEF slot
<1>4. /\ due'[c] = slot
      /\ \A d \in Call : d # c => due'[d] = due[d] /\ call'[d] = call[d]
  BY <1>1, <1>3 DEF TypeOK
<1>5. TypeOK'
  BY <1>1, <1>2, <1>3 DEF TypeOK
<1>6. \A d \in Taken' : d # c => d \in Taken
  BY <1>4 DEF Taken
<1>7. \A d \in Taken' : d # c => due[d] \in Nat /\ due[d] + Interval <= next
  BY <1>1, <1>6 DEF SlotsBeforeNext, TypeOK, Taken
<1>8. \A d \in Taken' : d # c => due'[d] = due[d]
  BY <1>4 DEF Taken
<1>9. SlotsBeforeNext'
  <2> SUFFICES ASSUME NEW d \in Taken' PROVE due'[d] + Interval <= next'
    BY DEF SlotsBeforeNext
  <2>1. CASE d = c
    BY <2>1, <1>2, <1>3, <1>4
  <2>2. CASE d # c
    <3>1. due'[d] = due[d] /\ due[d] \in Nat /\ due[d] + Interval <= next
      BY <2>2, <1>7, <1>8
    <3>2. next \in Nat /\ next <= slot
      BY <1>1, <1>2 DEF TypeOK
    <3> QED BY <3>1, <3>2, <1>2, <1>3
  <2> QED BY <2>1, <2>2
<1>10. Paced'
  <2>1. ASSUME NEW a \in Taken', NEW b \in Taken', a # b
        PROVE  due'[a] >= due'[b] + Interval \/ due'[b] >= due'[a] + Interval
    <3>1. CASE a = c
      <4>1. due'[b] = due[b] /\ due[b] \in Nat /\ due[b] + Interval <= next
        BY <2>1, <3>1, <1>7, <1>8
      <4> QED BY <4>1, <3>1, <1>1, <1>2, <1>4 DEF TypeOK
    <3>2. CASE b = c
      <4>1. due'[a] = due[a] /\ due[a] \in Nat /\ due[a] + Interval <= next
        BY <2>1, <3>2, <1>7, <1>8
      <4> QED BY <4>1, <3>2, <1>1, <1>2, <1>4 DEF TypeOK
    <3>3. CASE a # c /\ b # c
      <4>1. a \in Taken /\ b \in Taken /\ due'[a] = due[a] /\ due'[b] = due[b]
        BY <3>3, <1>6, <1>8
      <4> QED BY <4>1, <2>1, <1>1 DEF Paced
    <3> QED BY <3>1, <3>2, <3>3
  <2>2. ASSUME NEW d \in Call, call'[d] = "granted" PROVE now' >= due'[d]
    <3>1. CASE d = c
      <4>1. ~ (next > now)
        BY <3>1, <2>2, <1>1, <1>3 DEF TypeOK
      <4>2. slot = now
        BY <4>1 DEF Later, slot
      <4> QED BY <4>2, <3>1, <1>1, <1>3, <1>4 DEF TypeOK
    <3>2. CASE d # c
      BY <3>2, <2>2, <1>1, <1>3, <1>4 DEF Paced
    <3> QED BY <3>1, <3>2
  <2> QED BY <2>1, <2>2 DEF Paced
<1> QED BY <1>5, <1>9, <1>10 DEF IInv

\* A call that goes on or gives up has its slot still.
LEMMA WaitEnds ==
  ASSUME IInv, NEW c \in Call, Grant(c) \/ Cancel(c)
  PROVE  IInv'
<1>1. TypeOK /\ SlotsBeforeNext /\ Paced
  BY DEF IInv
<1>2. /\ call[c] = "waiting" /\ UNCHANGED <<now, next, due>>
      /\ \/ call' = [call EXCEPT ![c] = "granted"] /\ now >= due[c]
         \/ call' = [call EXCEPT ![c] = "cancelled"]
  BY DEF Grant, Cancel
<1>3. TypeOK'
  BY <1>1, <1>2 DEF TypeOK
<1>4. Taken' = Taken
  BY <1>1, <1>2 DEF Taken, TypeOK
<1>5. SlotsBeforeNext'
  BY <1>1, <1>2, <1>4 DEF SlotsBeforeNext
<1>6. \A d \in Call : call'[d] = "granted" => now >= due[d]
  BY <1>1, <1>2 DEF Paced, TypeOK
<1>7. Paced'
  BY <1>1, <1>2, <1>4, <1>6 DEF Paced
<1> QED BY <1>3, <1>5, <1>7 DEF IInv

\* Time passing takes nothing from what was granted.
LEMMA TickStep ==
  ASSUME IInv, Tick
  PROVE  IInv'
<1>1. TypeOK /\ SlotsBeforeNext /\ Paced
  BY DEF IInv
<1>2. now' = now + 1 /\ UNCHANGED <<next, call, due>>
  BY DEF Tick
<1>3. TypeOK'
  BY <1>1, <1>2 DEF TypeOK
<1>4. Taken' = Taken /\ SlotsBeforeNext'
  BY <1>1, <1>2 DEF SlotsBeforeNext, Taken
<1>5. ASSUME NEW d \in Call, call'[d] = "granted" PROVE now' >= due'[d]
  <2>1. now \in Nat /\ due[d] \in Nat /\ now >= due[d]
    BY <1>1, <1>2, <1>5 DEF TypeOK, Paced
  <2> QED BY <2>1, <1>2
<1>6. Paced'
  BY <1>1, <1>2, <1>4, <1>5 DEF Paced
<1> QED BY <1>3, <1>4, <1>6 DEF IInv

\* The inductive invariant holds in every state of the limiter.
THEOREM Inductive ==
  ASSUME ConstantsOK PROVE Spec => []IInv
<1>1. Init => IInv
  BY DEF Init, IInv, TypeOK, SlotsBeforeNext, Paced, Taken
<1>2. IInv /\ [Next]_vars => IInv'
  <2> SUFFICES ASSUME IInv, [Next]_vars PROVE IInv'
    OBVIOUS
  <2>1. CASE Tick
    BY <2>1, TickStep
  <2>2. ASSUME NEW c \in Call, Reserve(c) PROVE IInv'
    BY <2>2, ReserveStep
  <2>3. ASSUME NEW c \in Call, Grant(c) \/ Cancel(c) PROVE IInv'
    BY <2>3, WaitEnds
  <2>4. CASE UNCHANGED vars
    BY <2>4 DEF vars, IInv, TypeOK, SlotsBeforeNext, Paced, Taken
  <2> QED BY <2>1, <2>2, <2>3, <2>4 DEF Next
<1> QED BY <1>1, <1>2, PTL DEF Spec

\* Requests to an account go out no closer than the interval, for any number of
\* services that share it and whichever of their calls give up (limiter.go).
THEOREM LimiterPaces ==
  ASSUME ConstantsOK PROVE Spec => []Paced
<1>1. IInv => Paced
  BY DEF IInv
<1> QED BY <1>1, Inductive, PTL

\* The clock, the next slot and the calls are what they are declared to be.
THEOREM LimiterType ==
  ASSUME ConstantsOK PROVE Spec => []TypeOK
<1>1. IInv => TypeOK
  BY DEF IInv
<1> QED BY <1>1, Inductive, PTL
=============================================================================
