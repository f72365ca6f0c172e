------------------------- MODULE AcquisitionProofs -------------------------
(***************************************************************************)
(* Theorems about Acquisition, for every number of attempts, candidates    *)
(* and accounts and every choice of sources, callers and events.           *)
(***************************************************************************)
EXTENDS Acquisition, TLAPS

----------------------------------------------------------------------------
(* Type correctness.                                                       *)

\* The initial states have their types.
LEMMA InitType == Init => TypeOK
  BY AcquisitionAssumption
  DEF Init, TypeOK, Status, InFlight, Link, Candidate, Job, Pc, SyncPc, FastPc,
      UpgradePc, TierPc, Of

\* A caller that returns leaves the attempt's variables typed.
LEMMA ReturnType ==
  ASSUME TypeOK, NEW a \in Attempt, Return(a)
  PROVE  /\ pc' \in [Attempt -> Pc]
         /\ caller' \in [Attempt -> Caller \cup {None}]
         /\ tier' \in [Attempt -> [Tier -> TierPc]]
<1>1. [t \in Tier |-> IF tier[a][t] \in Over THEN "off" ELSE tier[a][t]]
        \in [Tier -> TierPc]
  BY DEF TypeOK, TierPc
<1>2. /\ pc' \in [Attempt -> Pc]
      /\ caller' \in [Attempt -> Caller \cup {None}]
  BY DEF TypeOK, Return, Pc
<1>3. tier' \in [Attempt -> [Tier -> TierPc]]
  BY <1>1 DEF TypeOK, Return
<1>. QED BY <1>2, <1>3

\* A tier that moves on leaves the tiers typed.
LEMMA GotoTierType ==
  ASSUME TypeOK, NEW a \in Attempt, NEW t \in Tier, NEW to \in TierPc,
         tier' = [tier EXCEPT ![a][t] = to]
  PROVE  tier' \in [Attempt -> [Tier -> TierPc]]
  BY DEF TypeOK

\* A tier that is over leaves the tiers and the races typed.
LEMMA EndTierType ==
  ASSUME TypeOK, NEW a \in Attempt, NEW t \in Tier, NEW result \in Over,
         EndTier(a, t, result)
  PROVE  /\ tier' \in [Attempt -> [Tier -> TierPc]]
         /\ launched' \in [Attempt -> SUBSET Candidate]
<1>1. tier' \in [Attempt -> [Tier -> TierPc]]
  BY DEF TypeOK, EndTier, TierPc
<1>2. launched' \in [Attempt -> SUBSET Candidate]
  BY DEF TypeOK, EndTier
<1>. QED BY <1>1, <1>2

\* Each kind of call that begins keeps the types.
LEMMA BeginType ==
  ASSUME TypeOK, NEW a \in Attempt, Begin(a)
  PROVE  TypeOK'
<1>1. PICK who \in Caller, to \in Pc :
        /\ Enter(a, who, to)
        /\ UNCHANGED <<item, rows, tier, left, launched>>
  BY DEF Begin, BeginAcquire, BeginReacquire, BeginSoft, BeginUpgrade, Caller, Pc,
         SyncPc, FastPc, UpgradePc
<1>. QED BY <1>1 DEF TypeOK, Enter, item, rows

\* The steps of the fast path keep the types.
LEMMA FastType ==
  ASSUME TypeOK, NEW a \in Attempt,
         \/ FastStart(a) \/ FastReset(a) \/ FastAdd(a) \/ FastAddFails(a)
         \/ FastPoll(a) \/ FastCheck(a) \/ FastTimeout(a)
  PROVE  TypeOK'
<1>. USE DEF TypeOK, Goto, item, rows, work, Status, InFlight, Pc, SyncPc, FastPc
<1>1. CASE FastStart(a)
  BY <1>1 DEF FastStart
<1>2. CASE FastReset(a)
  BY <1>2 DEF FastReset
<1>3. CASE FastAdd(a)
  BY <1>3 DEF FastAdd, Create, Candidate, Job
<1>4. CASE FastAddFails(a)
  BY <1>4 DEF FastAddFails
<1>5. CASE FastPoll(a)
  <2>1. CASE Return(a)
    BY <1>5, <2>1, ReturnType DEF FastPoll
  <2>2. CASE /\ Goto(a, "fastPoll", "fastCheck")
             /\ UNCHANGED <<caller, tier, launched>>
    BY <1>5, <2>2 DEF FastPoll
  <2>. QED BY <1>5, <2>1, <2>2 DEF FastPoll
<1>6. CASE FastCheck(a)
  BY <1>6 DEF FastCheck
<1>7. CASE FastTimeout(a)
  BY <1>7 DEF FastTimeout
<1>. QED BY <1>1, <1>2, <1>3, <1>4, <1>5, <1>6, <1>7

\* The steps of startAcquire and runAcquire keep the types.
LEMMA StartType ==
  ASSUME TypeOK, NEW a \in Attempt,
         \/ StartCheck(a) \/ SetSearching(a) \/ WebDAVHit(a) \/ Launch(a)
         \/ LaunchFails(a) \/ RunWon(a) \/ RunLost(a) \/ Fail(a)
  PROVE  TypeOK'
<1>. USE DEF TypeOK, Goto, item, rows, Status, InFlight, Link, Pc, SyncPc
<1>1. CASE StartCheck(a)
  <2>1. CASE Return(a)
    BY <1>1, <2>1, ReturnType DEF StartCheck
  <2>2. CASE Goto(a, "start", "search") /\ UNCHANGED <<caller, tier>>
    BY <1>1, <2>2 DEF StartCheck
  <2>. QED BY <1>1, <2>1, <2>2 DEF StartCheck
<1>2. CASE SetSearching(a)
  BY <1>2 DEF SetSearching
<1>3. CASE WebDAVHit(a)
  BY <1>3, ReturnType DEF WebDAVHit
<1>4. CASE Launch(a)
  BY <1>4 DEF Launch, TierPc
<1>5. CASE LaunchFails(a)
  BY <1>5 DEF LaunchFails
<1>6. CASE RunWon(a)
  BY <1>6, ReturnType DEF RunWon
<1>7. CASE RunLost(a)
  BY <1>7 DEF RunLost
<1>8. CASE Fail(a)
  BY <1>8, ReturnType DEF Fail
<1>. QED BY <1>1, <1>2, <1>3, <1>4, <1>5, <1>6, <1>7, <1>8

\* The steps of checkUpgrade keep the types.
LEMMA UpgradeType ==
  ASSUME TypeOK, NEW a \in Attempt, Upgrade(a)
  PROVE  TypeOK'
<1>. USE DEF TypeOK, Goto, item, rows, Status
<1>1. ASSUME NEW t \in Tier, NEW at \in UpgradePc, UpgradeRace(a, t, at)
      PROVE  TypeOK'
  <2>1. tier' \in [Attempt -> [Tier -> TierPc]]
    BY <1>1, GotoTierType DEF UpgradeRace, TierPc
  <2>2. left' \in [Attempt -> [Tier -> Nat]]
    BY <1>1, AcquisitionAssumption DEF UpgradeRace, Rounds
  <2>. QED BY <1>1, <2>1, <2>2 DEF UpgradeRace
<1>2. ASSUME NEW t \in Tier, NEW at \in UpgradePc, NEW next \in UpgradePc \cup {"idle"},
             UpgradeSkip(a, t, at, next)
      PROVE  TypeOK'
  <2>1. CASE Return(a)
    BY <1>2, <2>1, ReturnType DEF UpgradeSkip
  <2>2. CASE Goto(a, at, next) /\ UNCHANGED <<caller, tier>>
    BY <1>2, <2>2 DEF UpgradeSkip, Pc
  <2>. QED BY <1>2, <2>1, <2>2 DEF UpgradeSkip
<1>3. ASSUME NEW t \in Tier, NEW at \in UpgradePc, UpgradeWon(a, t, at)
      PROVE  TypeOK'
  BY <1>3, ReturnType DEF UpgradeWon
<1>4. ASSUME NEW t \in Tier, NEW at \in UpgradePc, NEW next \in UpgradePc \cup {"idle"},
             UpgradeRevert(a, t, at, next)
      PROVE  TypeOK'
  <2>1. CASE Return(a)
    BY <1>4, <2>1, ReturnType DEF UpgradeRevert
  <2>2. CASE /\ Goto(a, at, next)
             /\ tier' = [tier EXCEPT ![a][t] = "off"]
             /\ UNCHANGED caller
    <3>1. tier' \in [Attempt -> [Tier -> TierPc]]
      BY <2>2, GotoTierType DEF TierPc
    <3>. QED BY <1>4, <2>2, <3>1 DEF UpgradeRevert, Pc
  <2>. QED BY <1>4, <2>1, <2>2 DEF UpgradeRevert
<1>. QED BY <1>1, <1>2, <1>3, <1>4 DEF Upgrade, UpgradePc, Tier

\* The steps of a tier's race keep the types.
LEMMA TierStepType ==
  ASSUME TypeOK, NEW a \in Attempt, NEW t \in Tier,
         TierStep(a, t) \/ RaceTimeout(a, t)
  PROVE  TypeOK'
<1>. USE DEF TypeOK, item, rows, Status, InFlight, TierPc, Racing, Over
<1>1. CASE SearchFails(a, t)
  BY <1>1, EndTierType DEF SearchFails
<1>2. CASE Search(a, t)
  <2>1. tier' \in [Attempt -> [Tier -> TierPc]]
    BY <1>2, GotoTierType DEF Search, GotoTier
  <2>2. left' \in [Attempt -> [Tier -> Nat]]
    BY <1>2, AcquisitionAssumption DEF Search, Rounds
  <2>. QED BY <1>2, <2>1, <2>2 DEF Search
<1>3. CASE NextRound(a, t)
  <2>1. CASE left[a][t] = 0
    BY <1>3, <2>1, EndTierType DEF NextRound
  <2>2. CASE left[a][t] # 0
    <3>0. /\ tier' = [tier EXCEPT ![a][t] = "reset"]
          /\ left' = [left EXCEPT ![a][t] = left[a][t] - 1]
          /\ launched' = [launched EXCEPT ![a] = launched[a] \ Of(t)]
      BY <1>3, <2>2 DEF NextRound, GotoTier
    <3>1. tier' \in [Attempt -> [Tier -> TierPc]]
      BY <3>0, GotoTierType
    <3>2. left' \in [Attempt -> [Tier -> Nat]]
      <4>1. left[a][t] - 1 \in Nat
        BY <2>2
      <4>. QED BY <3>0, <4>1
    <3>3. launched' \in [Attempt -> SUBSET Candidate]
      BY <3>0
    <3>. QED BY <1>3, <3>1, <3>2, <3>3 DEF NextRound
  <2>. QED BY <2>1, <2>2
<1>4. CASE ResetClaim(a, t)
  BY <1>4, GotoTierType DEF ResetClaim, GotoTier
<1>5. CASE SetAcquiring(a, t)
  BY <1>5, GotoTierType DEF SetAcquiring, GotoTier
<1>6. ASSUME NEW c \in Candidate, LaunchCandidate(a, t, c)
      PROVE  TypeOK'
  BY <1>6 DEF LaunchCandidate, Create, Job
<1>7. CASE LaunchOver(a, t)
  BY <1>7, GotoTierType DEF LaunchOver, GotoTier
<1>8. CASE Poll(a, t)
  <2>1. CASE status = "owned"
    BY <1>8, <2>1, EndTierType DEF Poll
  <2>2. CASE status # "owned"
    BY <1>8, <2>2, GotoTierType DEF Poll, GotoTier
  <2>. QED BY <2>1, <2>2
<1>9. CASE Check(a, t)
  BY <1>9, GotoTierType DEF Check, GotoTier
<1>10. CASE RaceTimeout(a, t)
  BY <1>10, GotoTierType DEF RaceTimeout, GotoTier
<1>. QED BY <1>1, <1>2, <1>3, <1>4, <1>5, <1>6, <1>7, <1>8, <1>9, <1>10 DEF TierStep

\* The steps of a candidate's resolve and promotion keep the types.
LEMMA ResolveType ==
  ASSUME TypeOK, NEW c \in Candidate, Resolve(c) \/ Promote(c)
  PROVE  TypeOK'
<1>. USE DEF TypeOK, item, work, Job, Status
<1>1. CASE Resolved(c)
  BY <1>1 DEF Resolved
<1>2. CASE ResolveFails(c)
  BY <1>2 DEF ResolveFails
<1>3. CASE Reject(c)
  BY <1>3 DEF Reject
<1>4. CASE Claim(c)
  <2>1. TierOf(c) \in Tier
    BY DEF TierOf, Tier
  <2>2. \/ claim' = claim
        \/ claim' = [claim EXCEPT ![TierOf(c)] = c] /\ c \in Of(TierOf(c))
    BY <1>4 DEF Claim, TierOf, Of, Candidate
  <2>3. PICK s \in {"path", "delete"} : job' = [job EXCEPT ![c] = s]
    BY <1>4 DEF Claim
  <2>. QED BY <1>4, <2>1, <2>2, <2>3 DEF Claim
<1>5. CASE SetPath(c)
  BY <1>5 DEF SetPath, Link
<1>6. CASE SetPathFails(c)
  BY <1>6 DEF SetPathFails, Used
<1>7. CASE Mark(c)
  BY <1>7 DEF Mark, Used
<1>8. CASE Delete(c)
  BY <1>8 DEF Delete
<1>9. CASE Finish(c)
  BY <1>9 DEF Finish
<1>. QED BY <1>1, <1>2, <1>3, <1>4, <1>5, <1>6, <1>7, <1>8, <1>9 DEF Resolve, Promote

\* Every step keeps the types.
LEMMA StepType == TypeOK /\ [Next]_vars => TypeOK'
<1>. SUFFICES ASSUME TypeOK, [Next]_vars PROVE TypeOK'
  OBVIOUS
<1>1. ASSUME NEW a \in Attempt, Begin(a) \/ Call(a) \/ FastTimeout(a)
      PROVE  TypeOK'
  BY <1>1, BeginType, FastType, StartType, UpgradeType DEF Call
<1>2. ASSUME NEW a \in Attempt, NEW t \in Tier, TierStep(a, t) \/ RaceTimeout(a, t)
      PROVE  TypeOK'
  BY <1>2, TierStepType
<1>3. ASSUME NEW c \in Candidate, Resolve(c) \/ Promote(c)
      PROVE  TypeOK'
  BY <1>3, ResolveType
<1>4. CASE Scan
  BY <1>4 DEF Scan, TypeOK, Status, Link, rows, work
<1>5. CASE Restart
  BY <1>5 DEF Restart, TypeOK, Status, Job, Pc, TierPc
<1>6. CASE UNCHANGED vars
  BY <1>6 DEF vars, TypeOK
<1>. QED BY <1>1, <1>2, <1>3, <1>4, <1>5, <1>6 DEF Next

\* Every variable keeps its type, whatever the constants are.
THEOREM TypeCorrect == Spec => []TypeOK
  BY InitType, StepType, PTL DEF Spec

----------------------------------------------------------------------------
(* An owned item has a path.                                               *)

\* 'owned' is written back by a soft attempt and by an upgrade, neither of
\* which looks at the row: they rely on having started on an item with a path,
\* and on nothing ever clearing it.
PathInv ==
  /\ OwnedHasPath
  /\ \A a \in Attempt :
       caller[a] = "soft" \/ pc[a] \in UpgradePc => path # None

\* Every step keeps the invariant behind OwnedHasPath.
LEMMA PathInvStep == TypeOK /\ PathInv /\ [Next]_vars => PathInv'
<1>. SUFFICES ASSUME TypeOK, PathInv, [Next]_vars PROVE PathInv'
  OBVIOUS
<1>. USE DEF TypeOK, PathInv, OwnedHasPath, item, rows, work
<1>1. ASSUME NEW a \in Attempt, Begin(a)
      PROVE  PathInv'
  BY <1>1 DEF Begin, BeginAcquire, BeginReacquire, BeginSoft, BeginUpgrade, Enter,
              UpgradePc
<1>2. ASSUME NEW a \in Attempt,
             \/ FastStart(a) \/ FastReset(a) \/ FastAdd(a) \/ FastAddFails(a)
             \/ FastPoll(a) \/ FastCheck(a) \/ FastTimeout(a)
      PROVE  PathInv'
  BY <1>2 DEF FastStart, FastReset, FastAdd, FastAddFails, FastPoll, FastCheck,
              FastTimeout, Goto, Return, UpgradePc
<1>3. ASSUME NEW a \in Attempt,
             \/ StartCheck(a) \/ SetSearching(a) \/ WebDAVHit(a) \/ Launch(a)
             \/ LaunchFails(a) \/ RunWon(a) \/ RunLost(a)
      PROVE  PathInv'
  BY <1>3, AcquisitionAssumption
  DEF StartCheck, SetSearching, WebDAVHit, Launch, LaunchFails, RunWon, RunLost,
      Goto, Return, UpgradePc, Caller
<1>4. ASSUME NEW a \in Attempt, Fail(a)
      PROVE  PathInv'
  BY <1>4, AcquisitionAssumption DEF Fail, Return, UpgradePc, Caller
<1>5. ASSUME NEW a \in Attempt, Upgrade(a)
      PROVE  PathInv'
  BY <1>5 DEF Upgrade, UpgradeRace, UpgradeSkip, UpgradeWon, UpgradeRevert, Goto,
              Return, UpgradePc
<1>6. ASSUME NEW a \in Attempt, NEW t \in Tier, TierStep(a, t) \/ RaceTimeout(a, t)
      PROVE  PathInv'
  BY <1>6 DEF TierStep, SearchFails, Search, NextRound, ResetClaim, SetAcquiring,
              LaunchCandidate, LaunchOver, Poll, Check, RaceTimeout
<1>7. ASSUME NEW c \in Candidate, Resolve(c) \/ Promote(c)
      PROVE  PathInv'
  BY <1>7, AcquisitionAssumption
  DEF Resolve, Promote, Resolved, ResolveFails, Reject, Claim, SetPath,
      SetPathFails, Mark, Delete, Finish
<1>8. CASE Scan
  BY <1>8, AcquisitionAssumption DEF Scan
<1>9. CASE Restart
  BY <1>9, AcquisitionAssumption DEF Restart, InFlight, UpgradePc, Caller
<1>10. CASE UNCHANGED vars
  BY <1>10 DEF vars
<1>. QED BY <1>1, <1>2, <1>3, <1>4, <1>5, <1>6, <1>7, <1>8, <1>9, <1>10 DEF Next, Call

\* An item that says 'owned' has a link to play: handlePlayItem relies on it.
THEOREM OwnedPath == Spec => []OwnedHasPath
<1>1. Init => PathInv
  BY AcquisitionAssumption DEF Init, PathInv, OwnedHasPath, UpgradePc, Caller
<1>. QED BY TypeCorrect, <1>1, PathInvStep, PTL DEF Spec, PathInv

----------------------------------------------------------------------------
(* The item's link, and the download holding its claim, are never deleted. *)

\* A restart resumes no NZB download: one that was resumed after its promotion
\* would be deleted as a loser.
NoResume == "restart" \in Events => Nzb = {}

\* From its claim on, a candidate only moves forward, towards "mark" and the end
\* of onComplete; what is deleted has neither claimed nor been promoted.
KeptInv ==
  \A c \in Candidate :
    /\ path = c => c \notin gone /\ stat[c] # "absent"
                   /\ job[c] \in {"mark", "finish", "none"}
    /\ claim[TierOf(c)] = c => c \notin gone /\ stat[c] # "absent"
                               /\ job[c] \in {"path", "mark", "finish", "none"}
    /\ c \in gone => stat[c] # "absent" /\ job[c] \in {"fail", "none"}
    /\ stat[c] = "absent" => job[c] = "none"

\* Every step keeps the invariant behind the kept links.
LEMMA KeptInvStep ==
  ASSUME NoResume
  PROVE  TypeOK /\ KeptInv /\ [Next]_vars => KeptInv'
<1>. SUFFICES ASSUME TypeOK, KeptInv, [Next]_vars PROVE KeptInv'
  OBVIOUS
<1>. USE DEF TypeOK, KeptInv, item, rows, work
<1>1. ASSUME NEW a \in Attempt, Begin(a)
      PROVE  KeptInv'
  BY <1>1 DEF Begin, BeginAcquire, BeginReacquire, BeginSoft, BeginUpgrade
<1>2. ASSUME NEW a \in Attempt,
             \/ FastStart(a) \/ FastReset(a) \/ FastAddFails(a)
             \/ FastPoll(a) \/ FastCheck(a) \/ FastTimeout(a)
      PROVE  KeptInv'
  BY <1>2, AcquisitionAssumption
  DEF FastStart, FastReset, FastAddFails, FastPoll, FastCheck, FastTimeout,
      TierOf, Tier
<1>3. ASSUME NEW a \in Attempt, FastAdd(a)
      PROVE  KeptInv'
  BY <1>3 DEF FastAdd, Create, Candidate
<1>4. ASSUME NEW a \in Attempt,
             \/ StartCheck(a) \/ SetSearching(a) \/ WebDAVHit(a) \/ Launch(a)
             \/ LaunchFails(a) \/ RunWon(a) \/ RunLost(a) \/ Fail(a)
      PROVE  KeptInv'
  BY <1>4, AcquisitionAssumption
  DEF StartCheck, SetSearching, WebDAVHit, Launch, LaunchFails, RunWon, RunLost, Fail
<1>5. ASSUME NEW a \in Attempt, Upgrade(a)
      PROVE  KeptInv'
  BY <1>5 DEF Upgrade, UpgradeRace, UpgradeSkip, UpgradeWon, UpgradeRevert
<1>6. ASSUME NEW a \in Attempt, NEW t \in Tier, TierStep(a, t) \/ RaceTimeout(a, t)
      PROVE  KeptInv'
  <2>1. CASE ResetClaim(a, t)
    BY <2>1, AcquisitionAssumption DEF ResetClaim, TierOf, Tier
  <2>2. ASSUME NEW c \in Candidate, LaunchCandidate(a, t, c)
        PROVE  KeptInv'
    BY <2>2 DEF LaunchCandidate, Create
  <2>3. CASE /\ ~ResetClaim(a, t)
             /\ \A c \in Candidate : ~LaunchCandidate(a, t, c)
    BY <1>6, <2>3
    DEF TierStep, SearchFails, Search, NextRound, SetAcquiring, LaunchOver, Poll,
        Check, RaceTimeout
  <2>. QED BY <2>1, <2>2, <2>3
<1>7. ASSUME NEW c \in Candidate, Resolve(c)
      PROVE  KeptInv'
  BY <1>7 DEF Resolve, Resolved, ResolveFails
<1>8. ASSUME NEW c \in Candidate, Claim(c)
      PROVE  KeptInv'
  BY <1>8, AcquisitionAssumption DEF Claim, TierOf, Tier
<1>9. ASSUME NEW c \in Candidate, Delete(c)
      PROVE  KeptInv'
  BY <1>9 DEF Delete
<1>10. ASSUME NEW c \in Candidate,
              Reject(c) \/ SetPath(c) \/ SetPathFails(c) \/ Mark(c) \/ Finish(c)
      PROVE  KeptInv'
  BY <1>10 DEF Reject, SetPath, SetPathFails, Mark, Finish, Used
<1>11. CASE Scan
  BY <1>11, AcquisitionAssumption DEF Scan
<1>12. CASE Restart
  BY <1>12 DEF Restart, NoResume
<1>13. CASE UNCHANGED vars
  BY <1>13 DEF vars
<1>. QED BY <1>1, <1>2, <1>3, <1>4, <1>5, <1>6, <1>7, <1>8, <1>9, <1>10, <1>11,
            <1>12, <1>13 DEF Next, Call, Promote

\* The invariant behind the kept links holds in every state.
LEMMA KeptInvHolds ==
  ASSUME NoResume
  PROVE  Spec => []KeptInv
<1>1. Init => KeptInv
  BY AcquisitionAssumption DEF Init, KeptInv, TierOf, Tier
<1>. QED BY TypeCorrect, <1>1, KeptInvStep, PTL DEF Spec

\* The link an item plays is never deleted from the provider.
THEOREM PlayedLinkKept ==
  ASSUME NoResume
  PROVE  Spec => []PlayedLinkIsKept
<1>1. TypeOK /\ KeptInv => PlayedLinkIsKept
  BY DEF TypeOK, KeptInv, PlayedLinkIsKept
<1>. QED BY TypeCorrect, KeptInvHolds, <1>1, PTL

\* Neither is the download that holds the item's claim.
THEOREM ClaimantKept ==
  ASSUME NoResume
  PROVE  Spec => []ClaimantIsKept
<1>1. TypeOK /\ KeptInv => ClaimantIsKept
  <2>. SUFFICES ASSUME TypeOK, KeptInv, NEW t \in Tier, claim[t] \in gone
                PROVE  FALSE
    BY DEF ClaimantIsKept
  <2>1. claim[t] \in Candidate /\ TierOf(claim[t]) = t
    BY AcquisitionAssumption DEF TypeOK, TierOf, Of, Tier
  <2>. QED BY <2>1 DEF KeptInv
<1>. QED BY TypeCorrect, KeptInvHolds, <1>1, PTL

----------------------------------------------------------------------------
(* Acquisition keeps the promise of ItemPromise.                           *)

\* Nothing has happened to a placeholder: attempts on it have not passed their
\* status check.
PlaceholderInv ==
  status = "placeholder" =>
    /\ path = None
    /\ \A a \in Attempt : /\ pc[a] \in {"idle", "start", "search"}
                          /\ \A t \in Tier : tier[a][t] = "off"

\* Every step keeps the facts about placeholders.
LEMMA PlaceholderInvStep ==
  TypeOK /\ PlaceholderInv /\ [Next]_vars => PlaceholderInv'
<1>. SUFFICES ASSUME TypeOK, PlaceholderInv, [Next]_vars,
                     status = "placeholder", status' = "placeholder"
              PROVE  PlaceholderInv'
  <2>1. CASE status' = "placeholder" /\ status # "placeholder"
    <3>. USE <2>1 DEF item
    <3>1. ASSUME NEW a \in Attempt, Begin(a) \/ Call(a) \/ FastTimeout(a)
          PROVE  FALSE
      BY <3>1
      DEF Begin, BeginAcquire, BeginReacquire, BeginSoft, BeginUpgrade, Call,
          FastStart, FastReset, FastAdd, FastAddFails, FastPoll, FastCheck, FastTimeout,
          StartCheck, SetSearching, WebDAVHit, Launch, LaunchFails, RunWon, RunLost,
          Fail, Upgrade, UpgradeRace, UpgradeSkip, UpgradeWon, UpgradeRevert
    <3>2. ASSUME NEW a \in Attempt, NEW t \in Tier, TierStep(a, t) \/ RaceTimeout(a, t)
          PROVE  FALSE
      BY <3>2
      DEF TierStep, SearchFails, Search, NextRound, ResetClaim, SetAcquiring,
          LaunchCandidate, LaunchOver, Poll, Check, RaceTimeout
    <3>3. ASSUME NEW c \in Candidate, Resolve(c) \/ Promote(c)
          PROVE  FALSE
      BY <3>3
      DEF Resolve, Promote, Resolved, ResolveFails, Reject, Claim, SetPath,
          SetPathFails, Mark, Delete, Finish
    <3>. QED BY <3>1, <3>2, <3>3 DEF Next, Scan, Restart, vars
  <2>. QED BY <2>1 DEF PlaceholderInv
<1>. USE DEF TypeOK, PlaceholderInv, item, rows, work
<1>1. ASSUME NEW a \in Attempt, Begin(a)
      PROVE  PlaceholderInv'
  BY <1>1 DEF Begin, BeginAcquire, BeginReacquire, BeginSoft, BeginUpgrade, Enter
<1>2. ASSUME NEW a \in Attempt, Call(a) \/ FastTimeout(a)
      PROVE  PlaceholderInv'
  <2>1. CASE StartCheck(a)
    <3>1. Goto(a, "start", "search") /\ UNCHANGED <<item, tier>>
      BY <2>1 DEF StartCheck, InFlight
    <3>. QED BY <3>1 DEF Goto
  <2>2. CASE SetSearching(a)
    BY <2>2 DEF SetSearching
  <2>. QED
    BY <1>2, <2>1, <2>2
    DEF Call, FastStart, FastReset, FastAdd, FastAddFails, FastPoll, FastCheck,
        FastTimeout, WebDAVHit, Launch, LaunchFails, RunWon, RunLost, Fail, Upgrade,
        UpgradeRace, UpgradeSkip, UpgradeWon, UpgradeRevert, Goto
<1>3. ASSUME NEW a \in Attempt, NEW t \in Tier, TierStep(a, t) \/ RaceTimeout(a, t)
      PROVE  PlaceholderInv'
  BY <1>3
  DEF TierStep, SearchFails, Search, NextRound, ResetClaim, SetAcquiring,
      LaunchCandidate, LaunchOver, Poll, Check, RaceTimeout, GotoTier
<1>4. ASSUME NEW c \in Candidate, Resolve(c) \/ Promote(c)
      PROVE  PlaceholderInv'
  BY <1>4
  DEF Resolve, Promote, Resolved, ResolveFails, Reject, Claim, SetPath,
      SetPathFails, Mark, Delete, Finish
<1>5. CASE Scan
  BY <1>5 DEF Scan
<1>6. CASE Restart
  BY <1>6 DEF Restart
<1>7. CASE UNCHANGED vars
  BY <1>7 DEF vars
<1>. QED BY <1>1, <1>2, <1>3, <1>4, <1>5, <1>6, <1>7 DEF Next

\* The initial states are initial states of the promise.
LEMMA PromiseInit == Init => Promise!Init
  BY DEF Init, Promise!Init

\* Every step of an attempt, of a candidate or of the environment is a step
\* towards the promise, or invisible to it.
LEMMA PromiseStep ==
  ASSUME NoResume, TypeOK, PathInv, KeptInv, PlaceholderInv, [Next]_vars
  PROVE  [Promise!Next]_(Promise!promiseVars)
<1>. USE DEF item, rows, work, Promise!Next, Promise!promiseVars
<1>1. ASSUME NEW a \in Attempt, Begin(a)
      PROVE  UNCHANGED Promise!promiseVars
  BY <1>1 DEF Begin, BeginAcquire, BeginReacquire, BeginSoft, BeginUpgrade
<1>2. ASSUME NEW a \in Attempt, Call(a) \/ FastTimeout(a)
      PROVE  [Promise!Next]_(Promise!promiseVars)
  <2>1. CASE FastStart(a) \/ SetSearching(a)
    BY <2>1 DEF FastStart, SetSearching, Promise!Work, Promise!InFlight
  <2>2. CASE FastAddFails(a)
    BY <2>2 DEF FastAddFails, PlaceholderInv, Goto, Promise!GiveUp
  <2>3. CASE WebDAVHit(a)
    BY <2>3 DEF WebDAVHit, Promise!Deliver
  <2>4. CASE Fail(a)
    BY <2>4 DEF Fail, PlaceholderInv, PathInv, Promise!GiveUp, Promise!Restore
  <2>5. CASE Upgrade(a)
    BY <2>5
    DEF Upgrade, UpgradeRace, UpgradeSkip, UpgradeWon, UpgradeRevert, UpgradePc,
        PathInv, Promise!Restore
  <2>. QED
    BY <1>2, <2>1, <2>2, <2>3, <2>4, <2>5
    DEF Call, FastReset, FastAdd, FastPoll, FastCheck, FastTimeout, StartCheck,
        Launch, LaunchFails, RunWon, RunLost
<1>3. ASSUME NEW a \in Attempt, NEW t \in Tier, TierStep(a, t) \/ RaceTimeout(a, t)
      PROVE  [Promise!Next]_(Promise!promiseVars)
  BY <1>3
  DEF TierStep, SearchFails, Search, NextRound, ResetClaim, SetAcquiring, GotoTier,
      LaunchCandidate, LaunchOver, Poll, Check, RaceTimeout, PlaceholderInv,
      Promise!Work, Promise!InFlight
<1>4. ASSUME NEW c \in Candidate, Resolve(c) \/ Promote(c)
      PROVE  [Promise!Next]_(Promise!promiseVars)
  <2>1. CASE SetPath(c)
    <3>1. c \notin gone
      BY <2>1 DEF SetPath, KeptInv
    <3>. QED BY <2>1, <3>1 DEF SetPath, Promise!Deliver
  <2>2. CASE Delete(c)
    <3>1. path # c
      BY <2>2 DEF Delete, KeptInv
    <3>. QED BY <2>2, <3>1 DEF Delete, Promise!Discard
  <2>. QED
    BY <1>4, <2>1, <2>2
    DEF Resolve, Promote, Resolved, ResolveFails, Reject, Claim, SetPathFails, Mark,
        Finish
<1>5. CASE Scan
  BY <1>5 DEF Scan, Promise!Deliver
<1>6. CASE Restart
  BY <1>6 DEF Restart, InFlight, Promise!GiveUp
<1>7. CASE UNCHANGED vars
  BY <1>7 DEF vars
<1>. QED BY <1>1, <1>2, <1>3, <1>4, <1>5, <1>6, <1>7 DEF Next

\* Acquisition implements ItemPromise.
THEOREM PromiseKept ==
  ASSUME NoResume
  PROVE  Spec => KeepsPromise
<1>1. Init => PlaceholderInv
  BY AcquisitionAssumption DEF Init, PlaceholderInv
<1>2. Spec => []PlaceholderInv
  BY TypeCorrect, <1>1, PlaceholderInvStep, PTL DEF Spec
<1>3. Init => PathInv
  BY AcquisitionAssumption DEF Init, PathInv, OwnedHasPath, UpgradePc, Caller
<1>4. Spec => []PathInv
  BY TypeCorrect, <1>3, PathInvStep, PTL DEF Spec
<1>5. /\ TypeOK /\ PathInv /\ KeptInv /\ PlaceholderInv
      /\ [Next]_vars
      => [Promise!Next]_(Promise!promiseVars)
  BY PromiseStep
<1>. QED
  BY TypeCorrect, KeptInvHolds, PromiseInit, <1>2, <1>4, <1>5, PTL
  DEF Spec, KeepsPromise, Promise!Spec

----------------------------------------------------------------------------
(* With one configured source and no fast path, an item that says          *)
(* 'searching' or 'acquiring' is being worked on.                          *)

OneSource == (\A s, t \in Sources : s = t) /\ "fastpath" \notin Events

\* A source that is not configured never gets past its search, and a caller
\* that is not waiting for a race has none running.
TierInv ==
  \A a \in Attempt, t \in Tier :
    /\ t \notin Sources => tier[a][t] \in {"off", "search", "lost"}
    /\ t \in Sources /\ pc[a] \notin UpgradePc \cup {"run"} =>
         tier[a][t] = "off" \/ (pc[a] = "fail" /\ tier[a][t] = "lost")
    /\ pc[a] \in UpgradePc /\ tier[a][t] # "off" =>
         t = (IF pc[a] = "upTorrent" THEN "torrent" ELSE "nzb")

\* The attempt has yet to write how it ends, unless it finds the item owned.
Answers(a) ==
  \/ pc[a] \in {"webdav", "fail"}
  \/ pc[a] = "run" /\ \A t \in Tier : tier[a][t] # "won"
  \/ pc[a] \in UpgradePc /\ \E t \in Tier : tier[a][t] \notin {"off", "won"}

WorkedInv == TierInv /\ (status \in InFlight => \E a \in Attempt : Answers(a))

\* Every step keeps the facts about an attempt with one source.
LEMMA TierInvStep ==
  ASSUME OneSource
  PROVE  TypeOK /\ TierInv /\ [Next]_vars => TierInv'
<1>. SUFFICES ASSUME TypeOK, TierInv, [Next]_vars PROVE TierInv'
  OBVIOUS
<1>. USE DEF TypeOK, TierInv, UpgradePc, item, rows, work
<1>1. ASSUME NEW a \in Attempt, Begin(a)
      PROVE  TierInv'
  BY <1>1 DEF Begin, BeginAcquire, BeginReacquire, BeginSoft, BeginUpgrade, Enter, Free
<1>2. ASSUME NEW a \in Attempt,
             \/ FastStart(a) \/ FastReset(a) \/ FastAdd(a) \/ FastAddFails(a)
             \/ FastPoll(a) \/ FastCheck(a) \/ FastTimeout(a)
      PROVE  TierInv'
  <2>1. CASE FastPoll(a)
    <3>1. CASE Return(a)
      BY <2>1, <3>1 DEF FastPoll, Return, Over
    <3>2. CASE /\ Goto(a, "fastPoll", "fastCheck")
               /\ UNCHANGED tier
      BY <2>1, <3>2 DEF FastPoll, Goto
    <3>. QED BY <2>1, <3>1, <3>2 DEF FastPoll
  <2>. QED
    BY <1>2, <2>1
    DEF FastStart, FastReset, FastAdd, FastAddFails, FastCheck, FastTimeout, Goto
<1>3. ASSUME NEW a \in Attempt,
             \/ StartCheck(a) \/ SetSearching(a) \/ WebDAVHit(a) \/ Launch(a)
             \/ LaunchFails(a)
      PROVE  TierInv'
  BY <1>3 DEF StartCheck, SetSearching, WebDAVHit, Launch, LaunchFails, Goto, Return, Over
<1>4. ASSUME NEW a \in Attempt, RunWon(a)
      PROVE  TierInv'
  <2>1. \A t \in Sources : tier[a][t] = "won"
    <3>1. PICK u \in Tier : tier[a][u] = "won"
      BY <1>4 DEF RunWon
    <3>2. u \in Sources
      BY <3>1
    <3>. QED BY <3>1, <3>2 DEF OneSource
  <2>. QED BY <1>4, <2>1 DEF RunWon, Return, Over
<1>5. ASSUME NEW a \in Attempt, RunLost(a) \/ Fail(a)
      PROVE  TierInv'
  <2>1. CASE RunLost(a)
    BY <2>1 DEF RunLost, Goto, Over
  <2>2. CASE Fail(a)
    <3>1. /\ pc[a] = "fail" /\ pc' = [pc EXCEPT ![a] = "idle"]
          /\ tier' = [tier EXCEPT ![a] = [t \in Tier |-> IF @[t] \in Over THEN "off" ELSE @[t]]]
      BY <2>2 DEF Fail, Return
    <3>2. pc'[a] = "idle" /\ \A b \in Attempt : b # a => pc'[b] = pc[b] /\ tier'[b] = tier[b]
      BY <3>1
    <3>3. \A t \in Tier : tier'[a][t] = IF tier[a][t] \in Over THEN "off" ELSE tier[a][t]
      BY <3>1
    <3>. QED BY <3>1, <3>2, <3>3 DEF Over
  <2>. QED BY <1>5, <2>1, <2>2
<1>6. ASSUME NEW a \in Attempt, Upgrade(a)
      PROVE  TierInv'
  BY <1>6
  DEF Upgrade, UpgradeRace, UpgradeSkip, UpgradeWon, UpgradeRevert, Goto, Return,
      Over, Tier
<1>7. ASSUME NEW a \in Attempt, NEW t \in Tier, TierStep(a, t) \/ RaceTimeout(a, t)
      PROVE  TierInv'
  BY <1>7
  DEF TierStep, SearchFails, Search, NextRound, ResetClaim, SetAcquiring,
      LaunchCandidate, LaunchOver, Poll, Check, RaceTimeout, GotoTier, EndTier
<1>8. ASSUME NEW c \in Candidate, Resolve(c) \/ Promote(c)
      PROVE  TierInv'
  BY <1>8
  DEF Resolve, Promote, Resolved, ResolveFails, Reject, Claim, SetPath,
      SetPathFails, Mark, Delete, Finish
<1>9. CASE Scan \/ Restart \/ UNCHANGED vars
  BY <1>9 DEF Scan, Restart, vars
<1>. QED BY <1>1, <1>2, <1>3, <1>4, <1>5, <1>6, <1>7, <1>8, <1>9 DEF Next, Call

\* Every step keeps the invariant behind InFlightIsWorked.
LEMMA WorkedInvStep ==
  ASSUME OneSource
  PROVE  TypeOK /\ WorkedInv /\ [Next]_vars => WorkedInv'
<1>. SUFFICES ASSUME TypeOK, WorkedInv, [Next]_vars, status' \in InFlight
              PROVE  \E a \in Attempt : Answers(a)'
  BY TierInvStep DEF WorkedInv
<1>. USE DEF TypeOK, WorkedInv, item, rows, work
<1>1. ASSUME NEW b \in Attempt, Answers(b), pc'[b] = pc[b], tier'[b] = tier[b]
      PROVE  Answers(b)'
  BY <1>1 DEF Answers
\* Steps that only concern an attempt without such a duty.
<1>2. ASSUME NEW a \in Attempt, ~Answers(a), UNCHANGED status,
             \A b \in Attempt \ {a} : pc'[b] = pc[b] /\ tier'[b] = tier[b]
      PROVE  \E b \in Attempt : Answers(b)'
  BY <1>1, <1>2
<1>3. ASSUME NEW a \in Attempt, Begin(a)
      PROVE  \E b \in Attempt : Answers(b)'
  <2>1. /\ pc[a] = "idle" /\ UNCHANGED status
        /\ \A b \in Attempt \ {a} : pc'[b] = pc[b] /\ tier'[b] = tier[b]
    BY <1>3
    DEF Begin, BeginAcquire, BeginReacquire, BeginSoft, BeginUpgrade, Enter, Free
  <2>. QED BY <1>2, <2>1 DEF Answers, UpgradePc
<1>4. ASSUME NEW a \in Attempt,
             \/ FastStart(a) \/ FastReset(a) \/ FastAdd(a) \/ FastAddFails(a)
             \/ FastPoll(a) \/ FastCheck(a) \/ FastTimeout(a) \/ StartCheck(a)
      PROVE  \E b \in Attempt : Answers(b)'
  <2>1. ~Answers(a)
    BY <1>4
    DEF FastStart, FastReset, FastAdd, FastAddFails, FastPoll, FastCheck,
        FastTimeout, StartCheck, Goto, Answers, UpgradePc
  <2>2. UNCHANGED status
    BY <1>4
    DEF FastStart, FastReset, FastAdd, FastAddFails, FastPoll, FastCheck,
        FastTimeout, StartCheck, OneSource, InFlight
  <2>3. \A b \in Attempt \ {a} : pc'[b] = pc[b] /\ tier'[b] = tier[b]
    BY <1>4
    DEF FastStart, FastReset, FastAdd, FastAddFails, FastPoll, FastCheck,
        FastTimeout, StartCheck, Goto, Return
  <2>. QED BY <1>2, <2>1, <2>2, <2>3
<1>5. ASSUME NEW a \in Attempt, SetSearching(a)
      PROVE  \E b \in Attempt : Answers(b)'
  BY <1>5 DEF SetSearching, Goto, Answers
<1>6. ASSUME NEW a \in Attempt, Launch(a) \/ LaunchFails(a) \/ RunLost(a)
      PROVE  \E b \in Attempt : Answers(b)'
  BY <1>6 DEF Launch, LaunchFails, RunLost, Goto, Answers
<1>7. ASSUME NEW a \in Attempt, RunWon(a)
      PROVE  \E b \in Attempt : Answers(b)'
  <2>1. ~Answers(a)
    BY <1>7 DEF RunWon, Answers, UpgradePc
  <2>2. /\ UNCHANGED status
        /\ \A b \in Attempt \ {a} : pc'[b] = pc[b] /\ tier'[b] = tier[b]
    BY <1>7 DEF RunWon, Return
  <2>. QED BY <1>2, <2>1, <2>2
<1>8. ASSUME NEW a \in Attempt, Upgrade(a)
      PROVE  \E b \in Attempt : Answers(b)'
  <2>1. ASSUME NEW t \in Tier, NEW at \in UpgradePc, UpgradeRace(a, t, at)
        PROVE  Answers(a)'
    BY <2>1 DEF UpgradeRace, Answers
  <2>2. ASSUME NEW t \in Tier, NEW at \in UpgradePc,
               NEW next \in UpgradePc \cup {"idle"},
               /\ t = (IF at = "upTorrent" THEN "torrent" ELSE "nzb")
               /\ UpgradeSkip(a, t, at, next) \/ UpgradeWon(a, t, at)
        PROVE  \E b \in Attempt : Answers(b)'
    <3>1. ~Answers(a)
      BY <2>2 DEF UpgradeSkip, UpgradeWon, Answers, Goto, TierInv, UpgradePc, Tier
    <3>2. /\ UNCHANGED status
          /\ \A b \in Attempt \ {a} : pc'[b] = pc[b] /\ tier'[b] = tier[b]
      BY <2>2 DEF UpgradeSkip, UpgradeWon, Return, Goto
    <3>. QED BY <1>2, <3>1, <3>2
  <2>3. ASSUME NEW t \in Tier, NEW at \in UpgradePc,
               NEW next \in UpgradePc \cup {"idle"}, UpgradeRevert(a, t, at, next)
        PROVE  FALSE
    BY <2>3 DEF UpgradeRevert, InFlight
  <2>. QED BY <1>8, <2>1, <2>2, <2>3 DEF Upgrade, UpgradePc, Tier
<1>9. ASSUME NEW a \in Attempt, WebDAVHit(a) \/ Fail(a)
      PROVE  FALSE
  BY <1>9 DEF WebDAVHit, Fail, InFlight
<1>10. ASSUME NEW a \in Attempt, NEW t \in Tier, SetAcquiring(a, t)
       PROVE  Answers(a)'
  <2>1. /\ tier'[a][t] = "launch" /\ pc' = pc
        /\ t \in Sources /\ pc[a] \in UpgradePc \cup {"run"}
        /\ \A s \in Tier \ {t} : tier'[a][s] = tier[a][s]
    BY <1>10 DEF SetAcquiring, GotoTier, TierInv
  <2>2. \A s \in Tier \ {t} : s \notin Sources
    BY <2>1 DEF OneSource
  <2>3. \A s \in Tier : tier'[a][s] # "won"
    BY <2>1, <2>2 DEF TierInv
  <2>. QED BY <2>1, <2>3 DEF Answers
<1>11. ASSUME NEW a \in Attempt, NEW t \in Tier,
              TierStep(a, t) \/ RaceTimeout(a, t), ~SetAcquiring(a, t)
       PROVE  \E b \in Attempt : Answers(b)'
  <2>1. /\ UNCHANGED <<status, pc>>
        /\ \A b \in Attempt \ {a} : tier'[b] = tier[b]
    BY <1>11
    DEF TierStep, SearchFails, Search, NextRound, ResetClaim, LaunchCandidate,
        LaunchOver, Poll, Check, RaceTimeout, GotoTier, EndTier
  <2>2. \A s \in Tier \ {t} : tier'[a][s] = tier[a][s]
    BY <1>11
    DEF TierStep, SearchFails, Search, NextRound, ResetClaim, LaunchCandidate,
        LaunchOver, Poll, Check, RaceTimeout, GotoTier, EndTier
  <2>3. pc[a] # "idle" => tier'[a][t] \notin {"off", "won"} \/ tier'[a][t] = tier[a][t]
    BY <1>11, <2>1
    DEF TierStep, SearchFails, Search, NextRound, ResetClaim, LaunchCandidate,
        LaunchOver, Poll, Check, RaceTimeout, GotoTier, EndTier, InFlight
  <2>4. Answers(a) => Answers(a)'
    BY <2>1, <2>2, <2>3 DEF Answers, UpgradePc
  <2>. QED BY <1>1, <2>1, <2>4
<1>12. ASSUME NEW c \in Candidate, Resolve(c) \/ Promote(c)
       PROVE  \E b \in Attempt : Answers(b)'
  <2>1. UNCHANGED <<status, pc, tier>>
    BY <1>12
    DEF Resolve, Promote, Resolved, ResolveFails, Reject, Claim, SetPath,
        SetPathFails, Mark, Delete, Finish, InFlight
  <2>. QED BY <1>1, <2>1
<1>13. CASE Scan \/ Restart
  BY <1>13 DEF Scan, Restart, InFlight
<1>14. CASE UNCHANGED vars
  BY <1>1, <1>14 DEF vars
<1>. QED BY <1>3, <1>4, <1>5, <1>6, <1>7, <1>8, <1>9, <1>10, <1>11, <1>12, <1>13,
            <1>14 DEF Next, Call

\* It holds at first, and gives InFlightIsWorked.
LEMMA WorkedInvUse ==
  /\ Init => WorkedInv
  /\ TypeOK /\ WorkedInv => InFlightIsWorked
<1>1. Init => WorkedInv
  BY AcquisitionAssumption
  DEF Init, WorkedInv, TierInv, InFlight, UpgradePc
<1>2. TypeOK /\ WorkedInv => InFlightIsWorked
  BY DEF WorkedInv, Answers, InFlightIsWorked, Free, UpgradePc
<1>. QED BY <1>1, <1>2

\* With one source, 'searching' and 'acquiring' only ever exist while an attempt
\* is at work, so the item cannot hang in them.
THEOREM InFlightWorked ==
  ASSUME OneSource
  PROVE  Spec => []InFlightIsWorked
<1>. QED BY TypeCorrect, WorkedInvStep, WorkedInvUse, PTL DEF Spec

----------------------------------------------------------------------------
(* The monitor's passes alone do not demote an item.                       *)

\* The monitor is the only caller, and the process does not die.
OnlyHygiene == Callers \subseteq {"soft", "upgrade"} /\ "restart" \notin Events

\* An item with a link is owned or in flight, and the only failure that may be
\* written is one of an attempt that writes 'owned' back.
HygieneInv ==
  /\ path # None => status \in InFlight \cup {"owned"}
  /\ \A a \in Attempt :
       /\ pc[a] \notin {"fastReset", "fastAdd", "fastPoll", "fastCheck"}
       /\ pc[a] \in {"fast", "start", "search", "webdav", "run", "fail"} => caller[a] = "soft"

\* Every step of the monitor's passes keeps the facts about them.
LEMMA HygieneInvStep ==
  ASSUME OneSource, OnlyHygiene
  PROVE  TypeOK /\ HygieneInv /\ [Next]_vars => HygieneInv'
<1>. SUFFICES ASSUME TypeOK, HygieneInv, [Next]_vars PROVE HygieneInv'
  OBVIOUS
<1>. USE DEF TypeOK, HygieneInv, item, rows, work, InFlight
<1>1. ASSUME NEW a \in Attempt, Begin(a)
      PROVE  HygieneInv'
  BY <1>1
  DEF Begin, BeginAcquire, BeginReacquire, BeginSoft, BeginUpgrade, Enter, OnlyHygiene
<1>2. ASSUME NEW a \in Attempt,
             \/ FastStart(a) \/ FastReset(a) \/ FastAdd(a) \/ FastAddFails(a)
             \/ FastPoll(a) \/ FastCheck(a) \/ FastTimeout(a)
      PROVE  HygieneInv'
  BY <1>2 DEF FastStart, FastReset, FastAdd, FastAddFails, FastPoll, FastCheck,
              FastTimeout, Goto, OneSource
<1>3. ASSUME NEW a \in Attempt,
             \/ StartCheck(a) \/ SetSearching(a) \/ WebDAVHit(a) \/ Launch(a)
             \/ LaunchFails(a) \/ RunWon(a) \/ RunLost(a) \/ Fail(a)
      PROVE  HygieneInv'
  BY <1>3
  DEF StartCheck, SetSearching, WebDAVHit, Launch, LaunchFails, RunWon, RunLost, Fail,
      Goto, Return
<1>4. ASSUME NEW a \in Attempt, Upgrade(a)
      PROVE  HygieneInv'
  BY <1>4 DEF Upgrade, UpgradeRace, UpgradeSkip, UpgradeWon, UpgradeRevert, Goto, Return
<1>5. ASSUME NEW a \in Attempt, NEW t \in Tier, TierStep(a, t) \/ RaceTimeout(a, t)
      PROVE  HygieneInv'
  BY <1>5
  DEF TierStep, SearchFails, Search, NextRound, ResetClaim, SetAcquiring,
      LaunchCandidate, LaunchOver, Poll, Check, RaceTimeout
<1>6. ASSUME NEW c \in Candidate, Resolve(c) \/ Promote(c)
      PROVE  HygieneInv'
  BY <1>6
  DEF Resolve, Promote, Resolved, ResolveFails, Reject, Claim, SetPath,
      SetPathFails, Mark, Delete, Finish
<1>7. CASE Scan \/ Restart \/ UNCHANGED vars
  BY <1>7 DEF Scan, Restart, vars, OnlyHygiene
<1>. QED BY <1>1, <1>2, <1>3, <1>4, <1>5, <1>6, <1>7 DEF Next, Call

\* It holds at first, and with the attempts at rest the item is owned.
LEMMA HygieneInvUse ==
  /\ Init => HygieneInv
  /\ HygieneInv /\ InFlightIsWorked => HygieneNeverDemotes
BY DEF Init, HygieneInv, InFlightIsWorked, HygieneNeverDemotes, InFlight

\* With one source and no fast path, the monitor's passes over dead links and
\* upgrades, however many overlap, never take an item out of the library.
THEOREM HygieneKept ==
  ASSUME OneSource, OnlyHygiene
  PROVE  Spec => []HygieneNeverDemotes
<1>1. Spec => []InFlightIsWorked
  BY InFlightWorked
<1>. QED BY <1>1, TypeCorrect, HygieneInvUse, HygieneInvStep, PTL DEF Spec

----------------------------------------------------------------------------
(* One attempt at a time: a race has one winner.                           *)

OneAttempt == \A a, b \in Attempt : a = b

\* A race's candidate that is being promoted holds the claim: the claim is only
\* reset while the attempt has nothing launched in that tier.
WinnerInv ==
  \A a \in Attempt, t \in Tier :
    /\ pc[a] \in SyncPc => tier[a][t] = "off"
    /\ pc[a] \notin {"fastPoll", "fastCheck"}
         /\ tier[a][t] \in Over \cup {"off", "search", "reset", "acquire"} =>
         launched[a] \cap Of(t) = {}
    /\ \A c \in launched[a] \cap Of(t) : job[c] \in {"path", "mark"} => claim[t] = c

\* Every step of the only attempt keeps the facts about its races.
LEMMA WinnerInvStep ==
  ASSUME OneAttempt
  PROVE  TypeOK /\ WinnerInv /\ [Next]_vars => WinnerInv'
<1>. SUFFICES ASSUME TypeOK, WinnerInv, [Next]_vars PROVE WinnerInv'
  OBVIOUS
<1>. USE DEF TypeOK, WinnerInv, item, rows, work, SyncPc, FastPc, Over
<1>1. ASSUME NEW a \in Attempt, Begin(a)
      PROVE  WinnerInv'
  <2>1. /\ pc[a] = "idle" /\ \A t \in Tier : tier[a][t] = "off"
        /\ \E to \in Pc : pc' = [pc EXCEPT ![a] = to]
        /\ UNCHANGED <<claim, job, tier, launched>>
    BY <1>1
    DEF Begin, BeginAcquire, BeginReacquire, BeginSoft, BeginUpgrade, Enter, Free, Pc,
        UpgradePc
  <2>. QED BY <2>1
<1>2. ASSUME NEW a \in Attempt,
             \/ FastStart(a) \/ FastAddFails(a) \/ FastCheck(a) \/ FastTimeout(a)
             \/ StartCheck(a) \/ SetSearching(a) \/ WebDAVHit(a) \/ Launch(a)
             \/ LaunchFails(a) \/ RunWon(a) \/ RunLost(a) \/ Fail(a)
      PROVE  WinnerInv'
  <2>1. CASE FastStart(a) \/ FastAddFails(a) \/ FastCheck(a) \/ FastTimeout(a)
    BY <2>1 DEF FastStart, FastAddFails, FastCheck, FastTimeout, Goto
  <2>2. CASE SetSearching(a) \/ LaunchFails(a) \/ RunLost(a) \/ Launch(a)
    <3>1. CASE SetSearching(a)
      <4>1. /\ pc' = [pc EXCEPT ![a] = "webdav"] /\ pc[a] = "search"
            /\ UNCHANGED <<claim, job, tier, launched>>
        BY <3>1 DEF SetSearching, Goto
      <4>. QED BY <4>1
    <3>2. CASE LaunchFails(a) \/ RunLost(a)
      <4>1. /\ pc' = [pc EXCEPT ![a] = "fail"] /\ pc[a] \notin {"fastPoll", "fastCheck"}
            /\ UNCHANGED <<claim, job, tier, launched>>
        BY <3>2 DEF LaunchFails, RunLost, Goto
      <4>. QED BY <4>1
    <3>3. CASE Launch(a)
      <4>1. /\ \A t \in Tier : launched[a] \cap Of(t) = {}
            /\ pc' = [pc EXCEPT ![a] = "run"]
            /\ tier' = [tier EXCEPT ![a] = [t \in Tier |-> "search"]]
            /\ UNCHANGED <<claim, job, launched>>
        BY <3>3 DEF Launch, Goto
      <4>. QED BY <4>1
    <3>. QED BY <2>2, <3>1, <3>2, <3>3
  <2>3. ASSUME pc[a] \notin {"fastPoll", "fastCheck"}, Return(a),
               UNCHANGED <<claim, job, launched>>
        PROVE  WinnerInv'
    BY <2>3 DEF Return
  <2>4. CASE StartCheck(a)
    BY <2>3, <2>4 DEF StartCheck, Goto
  <2>. QED BY <1>2, <2>1, <2>2, <2>3, <2>4 DEF WebDAVHit, RunWon, Fail
<1>3. ASSUME NEW a \in Attempt, FastReset(a) \/ FastPoll(a)
      PROVE  WinnerInv'
  BY <1>3, OneAttempt DEF FastReset, FastPoll, Goto, Return, OneAttempt, Of, Tier
<1>4. ASSUME NEW a \in Attempt, FastAdd(a)
      PROVE  WinnerInv'
  <2>1. PICK c \in Debrid :
          /\ launched' = [launched EXCEPT ![a] = {c}] /\ job' = [job EXCEPT ![c] = "resolve"]
          /\ pc' = [pc EXCEPT ![a] = "fastPoll"] /\ pc[a] = "fastAdd"
          /\ UNCHANGED <<claim, tier>>
    BY <1>4 DEF FastAdd, Create, Goto
  <2>2. c \in Candidate
    BY DEF Candidate
  <2>. QED BY <2>1, <2>2
<1>5. ASSUME NEW a \in Attempt, Upgrade(a)
      PROVE  WinnerInv'
  BY <1>5
  DEF Upgrade, UpgradeRace, UpgradeSkip, UpgradeWon, UpgradeRevert, Goto, Return,
      UpgradePc, Tier
<1>6. ASSUME NEW a \in Attempt, NEW t \in Tier, TierStep(a, t) \/ RaceTimeout(a, t)
      PROVE  WinnerInv'
  <2>1. pc[a] \notin SyncPc
    BY <1>6
    DEF TierStep, SearchFails, Search, NextRound, ResetClaim, SetAcquiring, GotoTier,
        LaunchCandidate, LaunchOver, Poll, Check, RaceTimeout
  <2>2. CASE ResetClaim(a, t)
    BY <2>1, <2>2, OneAttempt DEF ResetClaim, GotoTier, OneAttempt
  <2>3. ASSUME NEW c \in Candidate, LaunchCandidate(a, t, c)
        PROVE  WinnerInv'
    BY <2>1, <2>3, AcquisitionAssumption DEF LaunchCandidate, Create, Of, Tier
  <2>4. ASSUME EndTier(a, t, "won") \/ EndTier(a, t, "lost"), UNCHANGED <<item, rows, pc>>
        PROVE  WinnerInv'
    BY <2>1, <2>4, AcquisitionAssumption DEF EndTier, Of, Tier
  <2>5. ASSUME NEW to \in TierPc, GotoTier(a, t, tier[a][t], to),
               UNCHANGED <<claim, rows, pc>>,
               launched' = launched \/ launched' = [launched EXCEPT ![a] = @ \ Of(t)],
               to \in {"off", "search", "reset", "acquire"} \cup Over =>
                 launched'[a] \cap Of(t) = {}
        PROVE  WinnerInv'
    BY <2>1, <2>5, AcquisitionAssumption DEF GotoTier, Of, Tier
  <2>. QED
    BY <1>6, <2>2, <2>3, <2>4, <2>5
    DEF TierStep, SearchFails, Search, NextRound, SetAcquiring, GotoTier, LaunchOver,
        Poll, Check, RaceTimeout, TierPc, Racing
<1>7. ASSUME NEW c \in Candidate, Claim(c)
      PROVE  WinnerInv'
  BY <1>7, AcquisitionAssumption DEF Claim, TierOf, Of, Tier
<1>8. ASSUME NEW c \in Candidate,
             \/ Resolve(c) \/ Reject(c) \/ SetPath(c) \/ SetPathFails(c) \/ Mark(c)
             \/ Delete(c) \/ Finish(c)
      PROVE  WinnerInv'
  BY <1>8
  DEF Resolve, Resolved, ResolveFails, Reject, SetPath, SetPathFails, Mark, Delete,
      Finish, Used
<1>9. CASE Scan \/ Restart \/ UNCHANGED vars
  BY <1>9 DEF Scan, Restart, vars
<1>. QED BY <1>1, <1>2, <1>3, <1>4, <1>5, <1>6, <1>7, <1>8, <1>9 DEF Next, Call, Promote

\* The claim picks one winner among the candidates of a race, for any number of
\* candidates, accounts and earlier races of the attempt.
THEOREM OneWinner ==
  ASSUME OneAttempt
  PROVE  Spec => []RaceHasOneWinner
<1>1. Init => WinnerInv
  BY DEF Init, WinnerInv, SyncPc, FastPc
<1>2. WinnerInv => RaceHasOneWinner
  BY DEF WinnerInv, RaceHasOneWinner
<1>. QED BY TypeCorrect, WinnerInvStep, <1>1, <1>2, PTL DEF Spec
=============================================================================
