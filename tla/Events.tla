-------------------------------- MODULE Events --------------------------------
(***************************************************************************)
(* How a change of the session reaches whoever watches it.  A goroutine    *)
(* changes the session under sess.mu, unlocks, takes a snapshot and only   *)
(* then broadcasts it; what requests change is announced by a coalescing   *)
(* timer.  A broadcast gives the event its number and puts it in every     *)
(* stream's channel under s.mu; the stream whose channel is full is cut.   *)
(*                                                                         *)
(* Sources: internal/supervisor server.go (queueSessionUpdate, subscribe,  *)
(* broadcast, closeSession), api_v1.go (apiEvents) and sse.go, and         *)
(* cmd/ccwrap/launcher.go, whose rollback asks the supervisor to close the *)
(* session, waits two seconds at most, and stops the supervisor.           *)
(* The session's state is a version number.  recordTrace broadcasts its    *)
(* record and announces no version; it is left out.                        *)
(***************************************************************************)
EXTENDS Naturals, Sequences

CONSTANTS
  Writers,         \* goroutines that change the session: handlers, API calls
  Timers,          \* goroutines of time.AfterFunc in queueSessionUpdate
  Streams,         \* GET /api/v1/events requests; a reconnect is a new one
  ChanCap,         \* the capacity of a subscriber's channel (128)
  MaxVersion       \* bound on the changes of a behaviour

ASSUME EventsAssumption ==
  /\ ChanCap \in Nat \ {0}
  /\ MaxVersion \in Nat
  /\ Writers \intersect Timers = {}
  /\ {"launcher", "monitor"} \intersect (Writers \union Timers) = {}

Closers == {"launcher", "monitor"}
Publishers == Writers \union Timers \union Closers

VARIABLES
  version,    \* how often sess.public changed
  ended,      \* sess.public.State is Ended
  queued,     \* sess.updateQueued
  pubs,       \* each goroutine's way to its broadcast: [pc, typ, snap]
  seq,        \* s.nextEventSeq
  announced,  \* the newest version an event carried
  endSeq,     \* the number of session_closed, 0 before it
  streams,    \* each stream: [pc, chan, start, got]
  stopped     \* s.closed is closed: "no", or what the launcher knew (Stop)

vars == <<version, ended, queued, pubs, seq, announced, endSeq, streams, stopped>>

Event == [seq : Nat, typ : {"record", "updated", "ended"}]

\* A stream over is "ended" (it sent session.ended), "dropped" (its channel was
\* full), "gone" (its client left or stopped reading) or "stopped".
Open == {"open", "cut"}
StreamStates == {"off", "ended", "dropped", "gone", "stopped"} \union Open

TypeOK ==
  /\ version \in Nat /\ announced \in 0..version
  /\ seq \in Nat /\ endSeq \in 0..seq
  /\ ended \in BOOLEAN /\ queued \in BOOLEAN
  /\ stopped \in {"no", "told", "second", "late"}
  /\ pubs \in [Publishers ->
       [pc : {"idle", "recorded", "armed", "changed", "snapped", "done"},
        typ : {"updated", "ended"}, snap : 0..version]]
  /\ streams \in [Streams ->
       [pc : StreamStates, chan : Seq(Event), start : 0..seq, got : Nat]]
  /\ \A s \in Streams : Len(streams[s].chan) <= ChanCap

Init ==
  /\ version = 0 /\ ended = FALSE /\ queued = FALSE /\ stopped = "no"
  /\ seq = 0 /\ announced = 0 /\ endSeq = 0
  /\ pubs = [p \in Publishers |-> [pc |-> "idle", typ |-> "updated", snap |-> 0]]
  /\ streams = [s \in Streams |-> [pc |-> "off", chan |-> <<>>, start |-> 0, got |-> 0]]

-----------------------------------------------------------------------------
\* SetCapture*, attachSession, markSessionActive, SwitchProfile, recordNativeTLS:
\* the change is announced at once.
Change(w) ==
  /\ pubs[w].pc = "idle" /\ version < MaxVersion
  /\ version' = version + 1
  /\ pubs' = [pubs EXCEPT ![w].pc = "changed"]
  /\ UNCHANGED <<ended, queued, seq, announced, endSeq, streams, stopped>>

\* recordRequest and recordError: the record is broadcast first.
Record(w) ==
  /\ pubs[w].pc = "idle" /\ version < MaxVersion
  /\ version' = version + 1
  /\ pubs' = [pubs EXCEPT ![w].pc = "recorded"]
  /\ UNCHANGED <<ended, queued, seq, announced, endSeq, streams, stopped>>

With(st, chan) == [st EXCEPT !.chan = chan]

\* Mutant of Sent: a full channel loses the event and the stream goes on.
SentLossy(typ) ==
  [s \in Streams |->
     IF streams[s].pc = "open" /\ Len(streams[s].chan) < ChanCap
     THEN With(streams[s], Append(streams[s].chan, [seq |-> seq + 1, typ |-> typ]))
     ELSE streams[s]]

\* The streams after a broadcast: the event joins each channel, a full channel
\* is closed and unsubscribed.  What it holds can still be received.
Sent(typ) ==
  [s \in Streams |->
     IF streams[s].pc # "open" THEN streams[s]
     ELSE IF Len(streams[s].chan) < ChanCap
     THEN With(streams[s], Append(streams[s].chan, [seq |-> seq + 1, typ |-> typ]))
     ELSE [streams[s] EXCEPT !.pc = "cut"]]

\* The record's own broadcast, when the record also changed the issues.
SendRecord(w) ==
  /\ pubs[w].pc = "recorded"
  /\ seq' = seq + 1
  /\ streams' = Sent("record")
  /\ pubs' = [pubs EXCEPT ![w].pc = "changed"]
  /\ UNCHANGED <<version, ended, queued, announced, endSeq, stopped>>

\* The broadcast of a request that moved only counters, then
\* queueSessionUpdate: a timer is armed unless one is on its way.
SendRecordAndQueue(w, t) ==
  /\ pubs[w].pc = "recorded"
  /\ seq' = seq + 1
  /\ streams' = Sent("record")
  /\ queued' = TRUE
  /\ IF queued
     THEN pubs' = [pubs EXCEPT ![w].pc = "idle"]
     ELSE /\ pubs[t].pc = "idle"
          /\ pubs' = [pubs EXCEPT ![w].pc = "idle", ![t].pc = "armed"]
  /\ UNCHANGED <<version, ended, announced, endSeq, stopped>>

\* Mutant of Fire: the flag stays set.
FireKeepsFlag(t) ==
  /\ pubs[t].pc = "armed"
  /\ pubs' = [pubs EXCEPT ![t].pc = "changed"]
  /\ UNCHANGED <<version, ended, queued, seq, announced, endSeq, streams, stopped>>

\* The timer fires and clears updateQueued before it reads the session.
Fire(t) ==
  /\ pubs[t].pc = "armed"
  /\ queued' = FALSE
  /\ pubs' = [pubs EXCEPT ![t].pc = "changed"]
  /\ UNCHANGED <<version, ended, seq, announced, endSeq, streams, stopped>>

\* sess.snapshot(), under sess.mu again.
Snapshot(p) ==
  /\ pubs[p].pc = "changed"
  /\ pubs' = [pubs EXCEPT ![p].pc = "snapped", ![p].snap = version]
  /\ UNCHANGED <<version, ended, queued, seq, announced, endSeq, streams, stopped>>

\* broadcast of session_updated or session_closed.
Broadcast(p) ==
  LET pub == pubs[p]
  IN
  /\ pub.pc = "snapped"
  /\ seq' = seq + 1
  /\ streams' = Sent(pub.typ)
  /\ announced' = IF pub.snap > announced THEN pub.snap ELSE announced
  /\ endSeq' = IF pub.typ = "ended" THEN seq' ELSE endSeq
  /\ pubs' = [pubs EXCEPT ![p].pc = IF p \in Closers THEN "done" ELSE "idle"]
  /\ UNCHANGED <<version, ended, queued, stopped>>

\* closeSession, for the launcher's call or the monitor: the first closer
\* announces the end, once the proxy is closed and the bodies are removed; a
\* later one returns at once.
Close(c) ==
  /\ pubs[c].pc = "idle"
  /\ IF ended
     THEN /\ pubs' = [pubs EXCEPT ![c].pc = "done"]
          /\ UNCHANGED <<version, ended>>
     ELSE /\ ended' = TRUE
          /\ version' = version + 1
          /\ pubs' = [pubs EXCEPT ![c].pc = "changed", ![c].typ = "ended"]
  /\ UNCHANGED <<queued, seq, announced, endSeq, streams, stopped>>

\* The launcher's rollback goes on to Shutdown: the end has been sent; or its
\* call came second and returned while the monitor was still to send it; or the
\* call ran into its timeout, wherever its handler was, and its error is dropped.
Stop ==
  /\ stopped = "no"
  /\ stopped' = (IF endSeq # 0 THEN "told"
                 ELSE IF pubs["launcher"].pc = "done" THEN "second" ELSE "late")
  /\ UNCHANGED <<version, ended, queued, pubs, seq, announced, endSeq, streams>>

-----------------------------------------------------------------------------
\* apiEvents subscribes before it sends hello.
Subscribe(s) ==
  /\ streams[s].pc = "off"
  /\ streams' = [streams EXCEPT ![s] =
       [pc |-> "open", chan |-> <<>>, start |-> seq, got |-> seq]]
  /\ UNCHANGED <<version, ended, queued, pubs, seq, announced, endSeq, stopped>>

\* The stream sends the next event; session.ended is its last.
Deliver(s) ==
  LET st == streams[s]
      ev == Head(st.chan)
  IN
  /\ st.pc \in Open /\ st.chan # <<>>
  /\ streams' = [streams EXCEPT ![s] =
       [pc |-> IF ev.typ = "ended" THEN "ended" ELSE st.pc,
        chan |-> Tail(st.chan), start |-> st.start, got |-> ev.seq]]
  /\ UNCHANGED <<version, ended, queued, pubs, seq, announced, endSeq, stopped>>

\* The client left, or a frame was not written within sseWriteTimeout.
LoseClient(s) ==
  /\ streams[s].pc \in Open
  /\ streams' = [streams EXCEPT ![s].pc = "gone"]
  /\ UNCHANGED <<version, ended, queued, pubs, seq, announced, endSeq, stopped>>

\* Mutants: a stopped supervisor ends the stream at once, or never.
EndStreamNow(s) ==
  /\ streams[s].pc \in Open
  /\ \/ streams[s].pc = "cut" /\ streams[s].chan = <<>> /\ streams' = [streams EXCEPT ![s].pc = "dropped"]
     \/ stopped # "no" /\ streams[s].pc = "open" /\ streams' = [streams EXCEPT ![s].pc = "stopped"]
  /\ UNCHANGED <<version, ended, queued, pubs, seq, announced, endSeq, stopped>>

EndStreamOnCut(s) ==
  /\ streams[s].pc = "cut" /\ streams[s].chan = <<>>
  /\ streams' = [streams EXCEPT ![s].pc = "dropped"]
  /\ UNCHANGED <<version, ended, queued, pubs, seq, announced, endSeq, stopped>>

\* A stream with nothing queued ends when its channel or s.closed is closed.
EndStream(s) ==
  /\ streams[s].pc \in Open /\ streams[s].chan = <<>>
  /\ \/ streams[s].pc = "cut" /\ streams' = [streams EXCEPT ![s].pc = "dropped"]
     \/ stopped # "no" /\ streams[s].pc = "open" /\ streams' = [streams EXCEPT ![s].pc = "stopped"]
  /\ UNCHANGED <<version, ended, queued, pubs, seq, announced, endSeq, stopped>>

-----------------------------------------------------------------------------
Publish(p) == Snapshot(p) \/ Broadcast(p)

WriterStep(w) ==
  \/ SendRecord(w)
  \/ \E t \in Timers : SendRecordAndQueue(w, t)
  \/ Publish(w)

TimerStep(t) == Fire(t) \/ Publish(t)

\* A frame is written, or fails at its deadline.
WriteFrame(s) == streams[s].chan # <<>> /\ (Deliver(s) \/ LoseClient(s))

Next ==
  \/ \E w \in Writers : Change(w) \/ Record(w) \/ WriterStep(w)
  \/ \E t \in Timers : TimerStep(t)
  \/ \E c \in Closers : Close(c) \/ Publish(c)
  \/ Stop
  \/ \E s \in Streams : Subscribe(s) \/ Deliver(s) \/ LoseClient(s) \/ EndStream(s)

Spec == Init /\ [][Next]_vars

\* Goroutines run.  A client may stop reading for good: the write deadline then
\* ends its stream, as soon as there is something to write.
Fairness ==
  /\ \A w \in Writers : WF_vars(WriterStep(w))
  /\ \A t \in Timers : WF_vars(TimerStep(t))
  /\ \A c \in Closers : WF_vars(Publish(c))
  /\ \A s \in Streams : WF_vars(WriteFrame(s)) /\ WF_vars(EndStream(s))

FairSpec == Spec /\ Fairness

-----------------------------------------------------------------------------
(* Properties. *)

\* What a stream was sent and what its channel holds are consecutive events: a
\* stream that falls behind is cut, never given a gap (broadcast, apiEvents).
Gapless ==
  \A s \in Streams : streams[s].pc \in Open =>
    /\ \A i \in DOMAIN streams[s].chan : streams[s].chan[i].seq = streams[s].got + i
    /\ streams[s].pc = "open" => streams[s].got + Len(streams[s].chan) = seq

\* No change is forgotten: while the newest announced version is not the
\* session's, a goroutine is on its way to read the session and announce it, or
\* already holds it (queueSessionUpdate clears updateQueued before the snapshot).
NoChangeForgotten ==
  announced < version =>
    \E p \in Publishers : \/ pubs[p].pc \in {"recorded", "armed", "changed"}
                          \/ pubs[p].pc = "snapped" /\ pubs[p].snap = version

\* "At most one per delay": at most one timer is armed (queueSessionUpdate).
OneTimerArmed ==
  \A t, u \in Timers : pubs[t].pc = "armed" /\ pubs[u].pc = "armed" => t = u

\* A stream that was open when session_closed was sent has it before the stop
\* ends the stream, for a stop drains what is queued (api_v1.go:207).  The stop
\* overtakes session_closed only where the launcher's call came second to the
\* monitor's or ran into its timeout (launcher.go:259, server.go:1058).
EndBeforeStop ==
  /\ stopped = "second" => pubs["monitor"].typ = "ended"
  /\ \A s \in Streams : streams[s].pc = "stopped" /\ stopped = "told" =>
       endSeq # 0 /\ endSeq <= streams[s].start

\* Every change reaches an event, whoever is reading or not, unless the
\* supervisor is stopped first, and its process with it.
EveryChangeAnnounced ==
  \A v \in 1..(MaxVersion + 1) : (version >= v) ~> (announced >= v \/ stopped # "no")

\* A stopped supervisor is not kept by a stream, whether its client reads or not.
StreamsEnd ==
  \A s \in Streams : stopped # "no" /\ streams[s].pc \in Open ~> streams[s].pc \notin Open

\* What is owed to those who watch: every change reaches an event, and every
\* stream an end (queueSessionUpdate, apiEvents).
StreamsAreServed == EveryChangeAnnounced /\ StreamsEnd

=============================================================================
