\* Two commands that find no service or replace an older one, and `ui stop`
\* beside one that replaces it; up to three services, one that breaks down.  Or
\* one session, relayed over a queue of one event, and one thing that goes wrong.
SPECIFICATION FairSpec
CONSTANTS
  a = a
  b = b
  c = c
  s1 = s1
  s2 = s2
  s3 = s3
  Callers = {a, b, c}
  Services = {s1, s2, s3}
  Want <- MCWant
  MaxMishaps = 1
  Sessions = {"x"}
  QueueCap = 1
  MaxTrouble = 1
INVARIANT EnsureFindsOne
PROPERTIES
  FilesStay
  IdleExits
  SessionsAreFollowed
  ListConverges
\* Every service exits in the end.
CHECK_DEADLOCK FALSE
