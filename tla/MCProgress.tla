----------------------------- MODULE MCProgress -----------------------------
(* Instances of Progress for TLC: MCDirWalk's tree; one of the interchange-  *)
(* able episodes and sessions, for the liveness of each: what holds of one   *)
(* in every behaviour holds of the other.                                    *)
EXTENDS Progress, MCDirWalk

CONSTANTS request, hd, uhd, episode1, torrentPack, nzbPack, session1

MCTargets == {<<hd, uhd>>}
MCOffers == {{torrentPack}, {nzbPack}}

\* An approved request that finds an acquisition service and the list of targets
\* gets its fulfilment and an acquisition in the last of them unless a call for
\* that one fails: neither a failure in the one before nor whatever else is asked
\* meanwhile takes it from the list (acquisition/service.go).
ApprovedIsFulfilled == part = "request" => R!IsFulfilled(request, uhd)

\* A pending episode is searched for or delivered in the end: neither a pack of
\* other episodes nor a claim left behind takes it out of the sweeps.
PendingIsTried == part = "season" => S!IsTried(episode1)

\* A stopped session's run ends, and a queued one gets its slot: no order of
\* Stop, the slot and ffmpeg's end leaves one waiting (transcode/session.go).
SessionsEnd == part = "transcode" => T!StopEnds(session1) /\ T!IsServed(session1)
=============================================================================
