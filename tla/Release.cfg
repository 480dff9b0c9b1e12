SPECIFICATION Spec
CONSTANTS
  top = top
  bottom = bottom
  m1 = m1
  m2 = m2
  boots = boots
  shows = shows
  Profile = {top, bottom}
  Check = {boots, shows}
  MarkingOf <- MCMarkingOf
  v010b1 = v010b1
  v100b9 = v100b9
  v100b10 = v100b10
  Version = {v010b1, v100b9, v100b10}
  Semver <- MCSemver
  Legacy = {v010b1}
  First = v010b1
  Second = v100b9
  Evidence <- MCEvidence
  Suspect <- MCSuspect
  None = none
  MaxPushes = 1
  MaxCandidates = 2
  MaxStops = 1
INVARIANTS
  TagHoldsRelease
  LatestIsNewest
  NothingQuarantined
PROPERTIES
  ReleasesAsPromised
  ReleaseResumes
