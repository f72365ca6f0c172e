------------------------------ MODULE MCDirWalk ------------------------------
(* Instances of DirWalk for TLC: a tree below top, one directory of which    *)
(* (locked) cannot be read, and a directory other by itself.                 *)
EXTENDS DirWalk

CONSTANTS top, series, season, locked, movies, other

MCDir == {top, series, season, locked, movies, other}
MCSub == [x \in MCDir |->
            CASE x = top -> {series, locked, movies} [] x = series -> {season} [] OTHER -> {}]
=============================================================================
