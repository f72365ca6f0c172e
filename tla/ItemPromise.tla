---------------------------- MODULE ItemPromise ----------------------------
(***************************************************************************)
(* What acquisition promises about one movie or episode, whatever happens  *)
(* behind it: a link, once there, stays until a better one replaces it;    *)
(* 'owned' is only said of an item with a link; a link that is delivered   *)
(* was not thrown away before, and the link an item plays is not thrown    *)
(* away.  Acquisition implements it under the identity mapping.            *)
(***************************************************************************)
CONSTANTS Candidate, OldLink, WebDAV, LocalFile, None

VARIABLES status, path, gone

promiseVars == <<status, path, gone>>

InFlight == {"searching", "acquiring"}

Init ==
  /\ \/ status = "placeholder" /\ path = None
     \/ status = "owned" /\ path = OldLink
  /\ gone = {}

\* Somebody works on the item.  A placeholder is first searched for.
Work ==
  /\ status' \in InFlight
  /\ status = "placeholder" => status' = "searching"
  /\ UNCHANGED <<path, gone>>

\* A link is delivered, by the attempt or by a scan.
Deliver ==
  /\ status' = "owned"
  /\ path' \in (Candidate \ gone) \cup {WebDAV, LocalFile}
  /\ UNCHANGED gone

\* The attempt failed and the item says so.
GiveUp ==
  /\ status # "placeholder"
  /\ status' = "error"
  /\ UNCHANGED <<path, gone>>

\* The attempt failed and the item keeps the link it had.
Restore ==
  /\ path # None
  /\ status' = "owned"
  /\ UNCHANGED <<path, gone>>

\* A candidate that was of no use is deleted from the provider.
Discard ==
  /\ \E c \in Candidate \ {path} : gone' = gone \cup {c}
  /\ UNCHANGED <<status, path>>

Next == Work \/ Deliver \/ GiveUp \/ Restore \/ Discard

Spec == Init /\ [][Next]_promiseVars
=============================================================================
