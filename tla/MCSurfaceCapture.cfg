\* Two tools on one page or two, two requests, one call, one change of the surface, one
\* request of the upstream's own.
SPECIFICATION Spec
CONSTANTS
  Tools = {a, b}
  SecondPage = {b}
  Ids = {i1, i2}
  MaxToollists = 1
  MaxRequests = 2
  MaxCalls = 1
  MaxChanges = 1
  MaxPings = 1
SYMMETRY Symmetry
INVARIANTS
  TypeOK
  SnapshotsAreSurfaces
  NoSurfaceIsMissed
  SurfacesAreSentOnce
  GoalsFollowTheListing
CHECK_DEADLOCK FALSE
