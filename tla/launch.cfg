\* One launch among others, or signalled, and launches in many situations.
SPECIFICATION MCSpec
CONSTANTS
  Models <- MCModels
  Claude <- MCClaude
  Specific <- MCSpecific
  Kin <- MCKin
  Launches = {"this", "other"}
  This = "this"
  Pdeathsig = TRUE
  MaxSignals = 2
  MaxSweeps = 1
  MaxMisreads = 1
  Situations <- MCSituations
  Edits <- MCEdits
  MaxEdits = 1
INVARIANTS
  CredentialFromItsOwner
  BackAsLaunched
  NoWayAround
  LeavesNothing
  LiveDirStays
  RootsAgree
PROPERTY LaunchEnds
\* A launch that has ended stays so.
CHECK_DEADLOCK FALSE
