SPECIFICATION Spec
CONSTANTS
  opus = opus
  q1 = q1
  q2 = q2
  haiku = haiku
  Models = {opus, haiku}
  Routes <- MCRoutes
  Handlers = {q1, q2}
  Statuses = {200, 404}
  MaxUnmapped = 1
INVARIANTS HealthIsWorst IssuesAgree
PROPERTY EndedIgnoresRequests
SYMMETRY HandlerSymmetry
