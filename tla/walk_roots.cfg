SPECIFICATION Spec
CONSTANTS
  top = top
  series = series
  season = season
  locked = locked
  movies = movies
  other = other
  Dir <- MCDir
  Sub <- MCSub
  Roots = {top, other}
  Unreadable = {locked}
  Worker = {w1, w2, w3}
  Main = Main
  None = None
INVARIANTS
  WalkIsComplete
CHECK_DEADLOCK FALSE
