SPECIFICATION PipelineSpec
CONSTANTS
  N = 2
  BestEffort = {1}
  Versions = {v1, v2}
  Initial = Initial
  Absent = Absent
  Torn = Torn
  Broken = Broken
INVARIANTS
  AppliedEverywhere
  FailureRestoresFiles
  OldContentOnDisk
  TornOnlyByRestore
  ServicesChangeInOrder
PROPERTY
  ImplementsDeployment
