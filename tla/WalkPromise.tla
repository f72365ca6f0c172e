----------------------------- MODULE WalkPromise -----------------------------
(***************************************************************************)
(* What WalkConcurrent (scanner/walker.go) promises its caller: it emits   *)
(* the media file of every directory it can reach and read, once each, and *)
(* then it returns.                                                        *)
(***************************************************************************)
CONSTANT Found        \* directories whose media file there is to find
VARIABLES emitted,    \* those it has emitted
          returned    \* WalkConcurrent has returned

Init == emitted = {} /\ returned = FALSE

Emit ==
  /\ ~returned
  /\ \E d \in Found \ emitted : emitted' = emitted \cup {d}
  /\ UNCHANGED returned

Return ==
  /\ ~returned
  /\ emitted = Found
  /\ returned' = TRUE
  /\ UNCHANGED emitted

Next == Emit \/ Return

vars == <<emitted, returned>>

SafeSpec == Init /\ [][Next]_vars

Progress == WF_vars(Next)

Spec == SafeSpec /\ Progress
=============================================================================
