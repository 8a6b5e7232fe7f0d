\* A launch, a command and two handlers of one process edit one file; any dies.
SPECIFICATION FairSpec
CONSTANTS
  Official = official
  work = work
  InheritEnv = InheritEnv
  OwnUrl = OwnUrl
  BadUrl = BadUrl
  EnvUrl = EnvUrl
  Anthropic = Anthropic
  Target = Target
  NoTarget = NoTarget
  NoFile = NoFile
  Torn = Torn
  Failed = Failed
  None = None
  Names <- MCNames
  Rank <- MCRank
  Urls <- MCUrls
  Targets = {Target}
  Launches = {l1}
  Clis = {c1}
  Handlers = {h1, h2}
  Server = server
  KeysOnStdin = {c1}
  Asks <- MCAsks
  InitialFiles <- MCInitialFiles
  MaxEdits = 1
  MaxEditors = 2
  MaxDeaths = 1
INVARIANT CrashSafe
PROPERTIES AtomicFile EditsAnswered
CHECK_DEADLOCK FALSE
