SPECIFICATION Spec
CONSTANTS
  app = app
  None = None
  Module = {app}
  Order <- OnlyApp
  Published <- AllThree
  ByPath <- OnlyApp
  Upstream <- NoUpstream
  Applications = {app}
  Proc = {1, 2}
  Builds <- ThinWithSources
  Targets = {"local", "repository", "central"}
  MaxVersion = 2
  Budgets <- AloneOrAtOnce
  EditsAlone = TRUE
INVARIANTS RecordTruthful PomMeansArtifacts
PROPERTIES PublishedIsWhole PublishedIsFresh
CHECK_DEADLOCK FALSE
