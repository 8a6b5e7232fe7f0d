\* Switches, toggles, a request, the launcher, the monitor and the end.
SPECIFICATION MCSpec
CONSTANTS
  Gateway = Gateway
  Keyless = Keyless
  FirstParty = FirstParty
  Direct = Direct
  Proxied = Proxied
  NoProfile = NoProfile
  NoEgress = NoEgress
  Routes <- MCRoutes
  Toggles = {"bodies"}
  Callers = {s1, s2}
  Handlers = {q1}
  AllowAuthPassthrough = FALSE
  EarlyCalls = TRUE
INVARIANT NoTornRequest
PROPERTIES
  SwitchesInOrder
  EndsOnce
  RegisterSpec
  SwitchReturns
  EndedAfterExit
