\* Two switches in a row bring Claude's placeholder to Anthropic.
SPECIFICATION Spec
CONSTANTS
  Gateway = Gateway
  Keyless = Keyless
  FirstParty = FirstParty
  Direct = Direct
  Proxied = Proxied
  NoProfile = NoProfile
  NoEgress = NoEgress
  Routes <- MCRoutes
  Toggles = {}
  Callers = {s1}
  Handlers = {q1}
  AllowAuthPassthrough = FALSE
  EarlyCalls = FALSE
INVARIANTS
  PlaceholderNeverForwarded
