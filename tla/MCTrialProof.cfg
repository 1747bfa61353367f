CONSTANTS
  m1 = m1
  m2 = m2
  k1 = k1
  None = None
  Unknown = Unknown
  Monitors <- MCMonitors
  Markers <- MCMarkers
  MaxReleaseId = 3
  TrialMs = 2
  Margin = 1
  MaxSamples = 2
SYMMETRY Symmetry
SPECIFICATION Spec
INVARIANTS
  FencedUntilApplied
  BindingFollowsTrial
PROPERTIES
  PromotedOnEvidence
