\* Three clients of the OpenAI endpoints for two slots, a backend that drafts
\* and restarts.
SPECIFICATION Spec
CONSTANTS
  Requests = {r1, r2, r3}
  MaxQueueSize = 1
  Kinds <- MCTwoKinds
  GenerationTimeout = TRUE
  EarlyDisconnect = TRUE
  MaxDrafts = 1
  MaxRestarts = 1
SYMMETRY MCSymmetry
CHECK_DEADLOCK FALSE
INVARIANTS
  TypeOK
  SlotAccounting
  AdmissionBound
  CountersAgree
  GenerationsCountedOnce
  DeltaFollowsGeneration
  ActiveDeltaIsEvidence
PROPERTIES
  ImplementsAdmission
  ImplementsGenerationLog
