SPECIFICATION FairSpec
CONSTANTS
  app = app
  tool = tool
  Module = {app, tool}
  Coordinate <- Coordinates
  Repositories = 2
  Directories = {1}
  Projects <- Situations
  MaxPackages = 3
INVARIANTS ArtifactsAreStored SameProjectSameGraph NearestWins ScopesClosed
           EffectiveIsNearest
PROPERTIES ResolutionEnds
CHECK_DEADLOCK FALSE
