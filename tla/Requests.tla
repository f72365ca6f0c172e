------------------------------- MODULE Requests -------------------------------
(* Content requests for one title, the browse page that opens it, and the    *)
(* fulfilment of both: find or create a row of the title per library, record *)
(* it, begin its acquisition (httpapi/content_requests.go,                   *)
(* httpapi/catalog.go, store/content_requests.go, acquisition/service.go).   *)
(* To begin is Acquire for a movie, SetMediaItemMonitored for a series.      *)
EXTENDS Naturals, FiniteSets, Sequences, Functions

CONSTANTS
  Request,   \* ids of content_requests
  Library,   \* libraries of the title's media type
  Opened,    \* those the browse page opens it in
  Targets,   \* orders in which ListDefaultRequestTargets may return some of them
  Handler    \* request handlers and fulfilments that run at one time

ConstantsOK == Opened \subseteq Library /\ Targets \subseteq Seq(Library) /\ IsFiniteSet(Handler)

VARIABLES
  target,    \* the default request targets, standard before 4K
  status,    \* request -> "none", its status or "deleted"
  recorded,  \* content_request_fulfillments: <<request, library>>
  rows,      \* library -> media_items of the title
  begun,     \* libraries where its acquisition was begun
  at,        \* handler -> where it is
  req,       \* handler -> its request, or "none"
  lib,       \* handler -> the library it is at, or "none"
  todo,      \* handler -> targets its fulfilment has yet to come to
  missed,    \* <<request, library>>: since the request's last approval nobody set
             \* out for the library, or a call failed there
  crowd      \* library -> most handlers that were finding its row at one time

requestVars == <<status, recorded>>
itemVars == <<rows, begun>>
handlerVars == <<at, req, lib, todo>>
vars == <<target, requestVars, itemVars, handlerVars, missed, crowd>>

Exists(q) == status[q] \in {"pending", "approved", "declined"}

Goto(h, where) == at' = [at EXCEPT ![h] = where]
End(h) ==
  /\ Goto(h, "idle")
  /\ req' = [req EXCEPT ![h] = "none"] /\ lib' = [lib EXCEPT ![h] = "none"]
  /\ todo' = [todo EXCEPT ![h] = <<>>]

\* The unique index: one pending request of a title.
Conflict == \E q \in Request : status[q] = "pending"

Insert(h, q) ==
  /\ status[q] = "none" /\ ~Conflict
  /\ status' = [status EXCEPT ![q] = "pending"]
  /\ req' = [req EXCEPT ![h] = q]

\* A goroutine of FulfillRequest starts on the request.
Triggered(q) == missed' = {p \in missed : p[1] # q}

\* None does: acquisition is not configured, or the approved row could not be
\* read again. Nothing takes the request up later but another approval.
Dropped(q) == missed' = missed \cup ({q} \X Range(target))

\* The goroutine is g.
Fulfil(g, q) ==
  /\ Goto(g, "targets") /\ req' = [req EXCEPT ![g] = q]
  /\ Triggered(q)

-----------------------------------------------------------------------------
(* The request handlers.                                                   *)

CreateRequest(h) ==
  /\ at[h] = "idle"
  /\ \E q \in Request : Insert(h, q)
  /\ Goto(h, "setting")
  /\ UNCHANGED <<target, recorded, itemVars, lib, todo, missed, crowd>>

\* GetRequestSettings, as an admin left them. Without auto-approval, or when a
\* statement fails, the request is left pending.
ReadSetting(h) ==
  /\ at[h] = "setting"
  /\ \/ Goto(h, "approve") /\ UNCHANGED <<req, lib, todo>>
     \/ End(h)
  /\ UNCHANGED <<target, requestVars, itemVars, missed, crowd>>

Approved(q) == Exists(q) /\ status' = [status EXCEPT ![q] = "approved"]

\* The row may have been deleted, or declined, meanwhile: only the former counts.
AutoApprove(h) ==
  /\ at[h] = "approve"
  /\ \/ Approved(req[h]) /\ Fulfil(h, req[h]) /\ UNCHANGED <<lib, todo>>
     \/ Approved(req[h]) /\ Dropped(req[h]) /\ End(h)
     \/ End(h) /\ UNCHANGED <<status, missed>>
  /\ UNCHANGED <<target, recorded, itemVars, crowd>>

\* handleDecideContentRequest: whatever the request's status is by now.
Approve(h, q) ==
  /\ at[h] = "idle" /\ Approved(q)
  /\ \/ Fulfil(h, q)
     \/ Dropped(q) /\ UNCHANGED <<at, req>>
  /\ UNCHANGED <<target, recorded, itemVars, lib, todo, crowd>>

Decline(q) ==
  /\ Exists(q)
  /\ status' = [status EXCEPT ![q] = "declined"]
  /\ UNCHANGED <<target, recorded, itemVars, handlerVars, missed, crowd>>

\* The fulfilments of a deleted request go with it.
Delete(q) ==
  /\ status' = [status EXCEPT ![q] = "deleted"]
  /\ recorded' = {p \in recorded : p[1] # q}

AdminDelete(q) ==
  /\ Exists(q) /\ Delete(q)
  /\ UNCHANGED <<target, itemVars, handlerVars, missed, crowd>>

\* The requester's withdrawal looks at the status, then deletes.
BeginWithdraw(h, q) ==
  /\ at[h] = "idle" /\ status[q] = "pending"
  /\ Goto(h, "withdraw") /\ req' = [req EXCEPT ![h] = q]
  /\ UNCHANGED <<target, requestVars, itemVars, lib, todo, missed, crowd>>

Withdraw(h) ==
  /\ at[h] = "withdraw"
  /\ IF Exists(req[h]) THEN Delete(req[h]) ELSE UNCHANGED requestVars
  /\ End(h)
  /\ UNCHANGED <<target, itemVars, missed, crowd>>

-----------------------------------------------------------------------------
(* MaterializePlaceholder, by an opening and by a fulfilment.              *)

Finding == {"openFind", "openCreate", "find", "create"}
Finders(l) == {h \in Handler : lib[h] = l /\ at[h] \in Finding}
Crowded(l) == crowd' = [crowd EXCEPT ![l] =
                          IF @ > Cardinality(Finders(l)) THEN @ ELSE Cardinality(Finders(l)) + 1]

\* Mutant: only a row that nothing was begun for is found.
FoundUnbegun(l) == rows[l] > 0 /\ l \notin begun

\* By library, kind and tmdb_id, whatever the row's state is.
Found(l) == rows[l] > 0

Find(h, where, create, found) ==
  /\ at[h] = where
  /\ Goto(h, IF Found(lib[h]) THEN found ELSE create)
  /\ UNCHANGED <<target, requestVars, itemVars, req, lib, todo, missed, crowd>>

\* TMDb is asked for the details between the look and the insert.
Create(h, where, found) ==
  /\ at[h] = where
  /\ rows' = [rows EXCEPT ![lib[h]] = @ + 1]
  /\ Goto(h, found)
  /\ UNCHANGED <<target, requestVars, begun, req, lib, todo, missed, crowd>>

\* The look, TMDb, the insert or reading the row again fails: after the insert
\* there is a row that nobody is told of.
NoItem(h) ==
  \/ UNCHANGED rows
  \/ at[h] \in {"create", "openCreate"} /\ rows' = [rows EXCEPT ![lib[h]] = @ + 1]

-----------------------------------------------------------------------------
(* FulfillRequest.                                                         *)

\* MaterializePlaceholder for the first library of the list, if there is one.
NextTarget(h, list) ==
  IF list = <<>>
  THEN End(h) /\ UNCHANGED crowd
  ELSE /\ Goto(h, "find") /\ lib' = [lib EXCEPT ![h] = Head(list)]
       /\ todo' = [todo EXCEPT ![h] = Tail(list)]
       /\ Crowded(Head(list)) /\ UNCHANGED req

ListTargets(h) ==
  /\ at[h] = "targets"
  /\ \/ NextTarget(h, target) /\ UNCHANGED missed
     \/ Dropped(req[h]) /\ End(h) /\ UNCHANGED crowd
  /\ UNCHANGED <<target, requestVars, itemVars>>

\* A call for h's library fails: it is logged, and nobody tries again.
Fails(h) == missed' = missed \cup {<<req[h], lib[h]>>}

\* Mutant: a library without an item ends the fulfilment.
FindFailsForAll(h) ==
  /\ at[h] \in {"find", "create"} /\ NoItem(h)
  /\ Fails(h) /\ End(h)
  /\ UNCHANGED <<target, requestVars, begun, crowd>>

FindFails(h) ==
  /\ at[h] \in {"find", "create"} /\ NoItem(h)
  /\ Fails(h) /\ NextTarget(h, todo[h])
  /\ UNCHANGED <<target, requestVars, begun>>

\* Refused when the request is gone or has the library already. The work goes
\* on all the same, and when the statement fails.
Record(h) ==
  /\ at[h] = "record"
  /\ \/ /\ recorded' = recorded \cup (IF Exists(req[h]) THEN {<<req[h], lib[h]>>} ELSE {})
        /\ UNCHANGED missed
     \/ Fails(h) /\ UNCHANGED recorded
  /\ Goto(h, "begin")
  /\ UNCHANGED <<target, status, itemVars, req, lib, todo, crowd>>

Begin(h) ==
  /\ at[h] = "begin"
  /\ \/ begun' = begun \cup {lib[h]} /\ UNCHANGED missed
     \/ Fails(h) /\ UNCHANGED begun
  /\ NextTarget(h, todo[h])
  /\ UNCHANGED <<target, requestVars, rows>>

-----------------------------------------------------------------------------
(* handleOpenCatalogEntry.                                                 *)

Open(h, l) ==
  /\ at[h] = "idle"
  /\ Goto(h, "openFind") /\ lib' = [lib EXCEPT ![h] = l]
  /\ Crowded(l)
  /\ UNCHANGED <<target, requestVars, itemVars, req, todo, missed>>

OpenFails(h) ==
  /\ at[h] \in {"openFind", "openCreate"} /\ NoItem(h)
  /\ End(h)
  /\ UNCHANGED <<target, requestVars, begun, missed, crowd>>

\* ContentRequestExistsForTmdbID counts a request of any status.
AskLogged(h) ==
  /\ at[h] = "ask"
  /\ \/ Goto(h, "preempt")  \* one exists, or the store does not tell
     \/ (\A q \in Request : ~Exists(q)) /\ Goto(h, "log")
  /\ UNCHANGED <<target, requestVars, itemVars, req, lib, todo, missed, crowd>>

\* The row may be refused by now.
Log(h) ==
  /\ at[h] = "log"
  /\ \/ \E q \in Request : Insert(h, q) /\ Goto(h, "openApprove")
     \/ Goto(h, "preempt") /\ UNCHANGED <<status, req>>
  /\ UNCHANGED <<target, recorded, itemVars, lib, todo, missed, crowd>>

\* Approved, and g the goroutine of its fulfilment while h goes on.
OpenApprove(h) ==
  /\ at[h] = "openApprove"
  /\ \/ \E g \in Handler :
          /\ at[g] = "idle" /\ Approved(req[h]) /\ Triggered(req[h])
          /\ at' = [at EXCEPT ![h] = "ownRecord", ![g] = "targets"]
          /\ req' = [req EXCEPT ![g] = req[h]]
     \/ Approved(req[h]) /\ Dropped(req[h]) /\ Goto(h, "preempt") /\ UNCHANGED req
     \/ Goto(h, "preempt") /\ UNCHANGED <<status, req, missed>>
  /\ UNCHANGED <<target, recorded, itemVars, lib, todo, crowd>>

\* A library that is no default target is recorded by the handler, if it can.
OwnRecord(h) ==
  /\ at[h] = "ownRecord"
  /\ recorded' \in {recorded, recorded \cup
       (IF Exists(req[h]) /\ lib[h] \notin Range(target) THEN {<<req[h], lib[h]>>} ELSE {})}
  /\ Goto(h, "preempt")
  /\ UNCHANGED <<target, status, itemVars, req, lib, todo, missed, crowd>>

\* Whatever became of the request.
Preempt(h) ==
  /\ at[h] = "preempt"
  /\ begun' \in {begun, begun \cup {lib[h]}}
  /\ End(h)
  /\ UNCHANGED <<target, requestVars, rows, missed, crowd>>

-----------------------------------------------------------------------------

Init ==
  /\ target \in Targets
  /\ status = [q \in Request |-> "none"] /\ recorded = {}
  /\ rows = [l \in Library |-> 0] /\ begun = {}
  /\ at = [h \in Handler |-> "idle"]
  /\ req = [h \in Handler |-> "none"] /\ lib = [h \in Handler |-> "none"]
  /\ todo = [h \in Handler |-> <<>>]
  /\ missed = {} /\ crowd = [l \in Library |-> 0]

Step(h) ==
  \/ ReadSetting(h) \/ AutoApprove(h) \/ Withdraw(h)
  \/ ListTargets(h) \/ Find(h, "find", "create", "record") \/ Create(h, "create", "record")
  \/ FindFails(h) \/ Record(h) \/ Begin(h)
  \/ Find(h, "openFind", "openCreate", "ask") \/ Create(h, "openCreate", "ask")
  \/ OpenFails(h) \/ AskLogged(h) \/ Log(h) \/ OpenApprove(h) \/ OwnRecord(h) \/ Preempt(h)

Next ==
  \/ \E q \in Request : Decline(q) \/ AdminDelete(q)
  \/ \E h \in Handler :
       \/ Step(h) \/ CreateRequest(h)
       \/ \E q \in Request : Approve(h, q) \/ BeginWithdraw(h, q)
       \/ \E l \in Opened : Open(h, l)

\* A handler or goroutine goes on: the calls it makes have timeouts.
Fairness == \A h \in Handler : WF_vars(Step(h))

Spec == Init /\ [][Next]_vars /\ Fairness

-----------------------------------------------------------------------------
(* Properties.                                                             *)

\* The rows of the title, the requests and the place of each handler.
TypeOK ==
  /\ target \in Targets
  /\ status \in [Request -> {"none", "pending", "approved", "declined", "deleted"}]
  /\ recorded \subseteq Request \X Library /\ missed \subseteq Request \X Library
  /\ rows \in [Library -> Nat] /\ crowd \in [Library -> Nat] /\ begun \subseteq Library
  /\ at \in [Handler -> Finding \cup {"idle", "setting", "approve", "withdraw", "targets",
                 "record", "begin", "ask", "log", "openApprove", "ownRecord", "preempt"}]
  /\ req \in [Handler -> Request \cup {"none"}]
  /\ lib \in [Handler -> Library \cup {"none"}]
  /\ todo \in [Handler -> Seq(Library)]

\* A library never holds more rows of the title than there were handlers that
\* looked for one at one time: however often, by whomever and after whatever
\* outcome the title is opened, requested and approved, a row that exists is
\* the one that is used.
RowsWithinCrowd == \A l \in Library : rows[l] <= crowd[l]

\* With every handler at rest nothing is left out: an approved request has a row,
\* a fulfilment and an acquisition begun in every default target that its last
\* approval came to and where no call failed. An approval comes to none when there
\* is no acquisition service or no list of the targets. (triggerFulfillment)
RestIsFulfilled ==
  (\A h \in Handler : at[h] = "idle") =>
    \A q \in Request, l \in Range(target) :
      status[q] = "approved" /\ <<q, l>> \notin missed =>
        <<q, l>> \in recorded /\ l \in begun /\ rows[l] > 0

\* An approved request comes to a default target, whoever declines it, approves
\* it again or opens the title meanwhile: it gets a fulfilment and an acquisition
\* begun there, or a call for this library fails; what fails in another takes this
\* one not with it. Only its deletion stops that, and an approval without an
\* acquisition service or a list of the targets. (FulfillRequest)
IsFulfilled(q, l) ==
  status[q] = "approved" /\ l \in Range(target) ~>
    \/ status[q] = "deleted" \/ <<q, l>> \in missed
    \/ <<q, l>> \in recorded /\ l \in begun
=============================================================================
