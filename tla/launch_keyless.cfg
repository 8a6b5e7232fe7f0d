SPECIFICATION MCSpec
CONSTANTS
  Models <- MCModels
  Claude <- MCClaude
  Specific <- MCSpecific
  Kin <- MCKin
  Launches = {"this", "other"}
  This = "this"
  Pdeathsig = TRUE
  MaxSignals = 2
  MaxSweeps = 1
  MaxMisreads = 1
  Situations <- MCSituations
  Edits <- MCEdits
  MaxEdits = 1
INVARIANT MissingSecretFailsClosed
CHECK_DEADLOCK FALSE
