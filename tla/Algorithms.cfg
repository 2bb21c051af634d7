SPECIFICATION Spec
CONSTANTS
  NumberedKeys <- MCNumberedKeys
  Plans <- MCPlans
  Manifests <- MCManifests
  Calls <- MCCalls
  Payloads <- MCPayloads
  Saved <- MCSaved
  Projects <- MCProjects
INVARIANTS
  PlanKeepsPackages
  SharedFilesExclusive
  ManifestConfined
  RetryConverges
  VerdictsKept
  PayloadsFit
  SettingsSurvive
  ScaleOnlyGrows
CHECK_DEADLOCK FALSE
