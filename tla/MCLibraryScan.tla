---------------------------- MODULE MCLibraryScan ----------------------------
(* Instances of LibraryScan for TLC.                                         *)
EXTENDS LibraryScan, TLC

CONSTANTS f1, f2, f3, p1, p2, p3, t1, t2

\* Three files, two of which have the same title.
PathOfEach == f1 :> p1 @@ f2 :> p2 @@ f3 :> p3

\* The folder of a download is walked twice.
PathOfTwice == f1 :> p1 @@ f2 :> p1 @@ f3 :> p2

TitleOfPath == p1 :> t1 @@ p2 :> t1 @@ p3 :> t2
=============================================================================
