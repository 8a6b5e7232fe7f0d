\* Requests whose records, counters and changes are announced over two timers to
\* a stream with room for two events, until the launcher and the monitor
\* close the session and the launcher stops the supervisor.
SPECIFICATION FairSpec
CONSTANTS
  w1 = w1
  t1 = t1
  t2 = t2
  e1 = e1
  Writers = {w1}
  Timers = {t1, t2}
  Streams = {e1}
  ChanCap = 2
  MaxVersion = 2
INVARIANTS Gapless NoChangeForgotten EndBeforeStop
PROPERTY StreamsAreServed
CHECK_DEADLOCK FALSE
