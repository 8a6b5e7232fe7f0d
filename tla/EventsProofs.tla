----------------------------- MODULE EventsProofs -----------------------------
(***************************************************************************)
(* Proofs about Events, for any number of goroutines, streams and changes. *)
(***************************************************************************)
EXTENDS Events, TLAPS

StreamType ==
  [pc : StreamStates, chan : Seq(Event), start : 0..seq, got : Nat]
PubType ==
  [pc : {"idle", "recorded", "armed", "changed", "snapped", "done"},
   typ : {"updated", "ended"}, snap : 0..version]

\* A broadcast keeps each stream's type and its channel within its capacity.
LEMMA SentType ==
  ASSUME TypeOK, NEW typ \in {"record", "updated", "ended"},
         seq' = seq + 1, streams' = Sent(typ)
  PROVE  /\ streams' \in [Streams -> StreamType']
         /\ \A s \in Streams : Len(streams'[s].chan) <= ChanCap
<1>1. ASSUME NEW s \in Streams
      PROVE  Sent(typ)[s] \in StreamType' /\ Len(Sent(typ)[s].chan) <= ChanCap
  <2>1. streams[s] \in StreamType /\ Len(streams[s].chan) <= ChanCap
    BY DEF TypeOK, StreamType
  <2>2. streams[s] \in StreamType'
    BY <2>1 DEF StreamType, TypeOK
  <2>3. CASE streams[s].pc # "open"
    BY <2>1, <2>2, <2>3 DEF Sent
  <2>4. CASE streams[s].pc = "open" /\ Len(streams[s].chan) < ChanCap
    <3>1. DEFINE ev == [seq |-> seq + 1, typ |-> typ]
    <3>2. ev \in Event BY DEF Event, TypeOK
    <3>3. Append(streams[s].chan, ev) \in Seq(Event) /\ Len(Append(streams[s].chan, ev)) <= ChanCap
      BY <2>1, <2>4, <3>2, EventsAssumption DEF StreamType, EventsAssumption
    <3>4. Sent(typ)[s] = With(streams[s], Append(streams[s].chan, ev))
      BY <2>4 DEF Sent
    <3> QED BY <2>2, <3>3, <3>4 DEF StreamType, With
  <2>5. CASE streams[s].pc = "open" /\ ~(Len(streams[s].chan) < ChanCap)
    BY <2>1, <2>2, <2>5 DEF Sent, StreamType, StreamStates, Open
  <2> QED BY <2>3, <2>4, <2>5
<1> QED BY <1>1 DEF Sent

\* A stream that sends an event, ends or opens keeps its type.
LEMMA StreamStepType ==
  ASSUME TypeOK, NEW s \in Streams, Subscribe(s) \/ Deliver(s) \/ LoseClient(s) \/ EndStream(s)
  PROVE  TypeOK'
<1> DEFINE st == streams[s]
<1>1. st \in StreamType /\ Len(st.chan) <= ChanCap
  BY DEF TypeOK, StreamType
<1>2. ASSUME NEW new \in StreamType, Len(new.chan) <= ChanCap,
             streams' = [streams EXCEPT ![s] = new],
             UNCHANGED <<version, ended, queued, pubs, seq, announced, endSeq, stopped>>
      PROVE  TypeOK'
  BY <1>2 DEF TypeOK, StreamType
<1>3. CASE Subscribe(s)
  <2> DEFINE new == [pc |-> "open", chan |-> <<>>, start |-> seq, got |-> seq]
  <2>1. new \in StreamType
    BY DEF TypeOK, StreamType, StreamStates, Open
  <2>2. Len(new.chan) <= ChanCap
    BY EventsAssumption DEF EventsAssumption
  <2>3. streams' = [streams EXCEPT ![s] = new]
    BY <1>3 DEF Subscribe
  <2> HIDE DEF new
  <2> QED BY <1>2, <1>3, <2>1, <2>2, <2>3 DEF Subscribe
<1>4. CASE Deliver(s)
  <2> DEFINE new == [pc |-> IF Head(st.chan).typ = "ended" THEN "ended" ELSE st.pc,
                     chan |-> Tail(st.chan), start |-> st.start, got |-> Head(st.chan).seq]
  <2>1. st.chan # <<>> /\ st.chan \in Seq(Event)
    BY <1>1, <1>4 DEF Deliver, StreamType
  <2>2. Tail(st.chan) \in Seq(Event) /\ Len(Tail(st.chan)) <= ChanCap /\ Head(st.chan) \in Event
    BY <1>1, <2>1, EventsAssumption DEF EventsAssumption
  <2>3. new \in StreamType
    BY <1>1, <1>4, <2>2 DEF StreamType, StreamStates, Open, Event, Deliver
  <2> QED BY <1>2, <1>4, <2>2, <2>3 DEF Deliver
<1>5. CASE LoseClient(s)
  <2> DEFINE new == [st EXCEPT !.pc = "gone"]
  <2>1. new \in StreamType /\ new.chan = st.chan
    BY <1>1 DEF StreamType, StreamStates
  <2>2. streams' = [streams EXCEPT ![s] = new]
    BY <1>5 DEF LoseClient
  <2> HIDE DEF new
  <2> QED BY <1>1, <1>2, <1>5, <2>1, <2>2 DEF LoseClient
<1>6. CASE EndStream(s)
  <2>1. PICK pc \in {"dropped", "stopped"} : streams' = [streams EXCEPT ![s].pc = pc]
    BY <1>6 DEF EndStream
  <2> DEFINE new == [st EXCEPT !.pc = pc]
  <2>2. new \in StreamType /\ new.chan = st.chan
    BY <1>1 DEF StreamType, StreamStates
  <2>3. streams' = [streams EXCEPT ![s] = new]
    BY <2>1
  <2> HIDE DEF new
  <2> QED BY <1>1, <1>2, <1>6, <2>2, <2>3 DEF EndStream
<1> QED BY <1>3, <1>4, <1>5, <1>6

\* What a broadcast does to one stream.
LEMMA SentCases ==
  ASSUME TypeOK, NEW typ \in {"record", "updated", "ended"}, NEW s \in Streams,
         streams' = Sent(typ)
  PROVE  LET st == streams[s]
             new == streams'[s]
         IN \/ st.pc # "open" /\ new = st
            \/ /\ st.pc = "open" /\ new.pc = "open" /\ new.start = st.start /\ new.got = st.got
               /\ new.chan = Append(st.chan, [seq |-> seq + 1, typ |-> typ])
            \/ /\ st.pc = "open" /\ new.pc = "cut" /\ new.start = st.start /\ new.got = st.got
               /\ new.chan = st.chan
<1>1. streams[s] \in StreamType
  BY DEF TypeOK, StreamType
<1>2. streams'[s] = Sent(typ)[s]
  OBVIOUS
<1>3. CASE streams[s].pc # "open"
  BY <1>2, <1>3 DEF Sent
<1>4. CASE streams[s].pc = "open" /\ Len(streams[s].chan) < ChanCap
  <2>1. streams'[s] = With(streams[s], Append(streams[s].chan, [seq |-> seq + 1, typ |-> typ]))
    BY <1>2, <1>4 DEF Sent
  <2> QED BY <1>1, <1>4, <2>1 DEF With, StreamType
<1>5. CASE streams[s].pc = "open" /\ ~(Len(streams[s].chan) < ChanCap)
  <2>1. streams'[s] = [streams[s] EXCEPT !.pc = "cut"]
    BY <1>2, <1>5 DEF Sent
  <2> QED BY <1>1, <1>5, <2>1 DEF StreamType
<1> QED BY <1>3, <1>4, <1>5

\* A stream keeps its type when only the publishers and the counters move on.
LEMMA StreamsStay ==
  ASSUME TypeOK, streams' = streams, seq' \in Nat, seq' >= seq
  PROVE  streams' \in [Streams -> StreamType'] /\ \A s \in Streams : Len(streams'[s].chan) <= ChanCap
BY DEF TypeOK, StreamType

\* Every step keeps the state in its type.
LEMMA TypeStep == TypeOK /\ [Next]_vars => TypeOK'
<1> SUFFICES ASSUME TypeOK, [Next]_vars PROVE TypeOK'
  OBVIOUS
<1>1. pubs \in [Publishers -> PubType]
  BY DEF TypeOK, PubType
<1>2. Writers \subseteq Publishers /\ Timers \subseteq Publishers /\ Closers \subseteq Publishers
  BY DEF Publishers
<1>3. ASSUME streams' = streams, seq' = seq, endSeq' = endSeq
      PROVE  /\ streams' \in [Streams -> StreamType']
             /\ \A s \in Streams : Len(streams'[s].chan) <= ChanCap
             /\ seq' \in Nat /\ endSeq' \in 0..seq'
  BY <1>3, StreamsStay DEF TypeOK
<1>4. ASSUME NEW typ \in {"record", "updated", "ended"}, seq' = seq + 1, streams' = Sent(typ),
             endSeq' \in {endSeq, seq'}
      PROVE  /\ streams' \in [Streams -> StreamType']
             /\ \A s \in Streams : Len(streams'[s].chan) <= ChanCap
             /\ seq' \in Nat /\ endSeq' \in 0..seq'
  BY <1>4, SentType DEF TypeOK
<1>5. ASSUME streams' \in [Streams -> StreamType'], pubs' \in [Publishers -> PubType'],
             \A s \in Streams : Len(streams'[s].chan) <= ChanCap,
             seq' \in Nat, endSeq' \in 0..seq', version' \in Nat, announced' \in 0..version',
             ended' \in BOOLEAN, queued' \in BOOLEAN, stopped' \in {"no", "told", "second", "late"}
      PROVE  TypeOK'
  BY <1>5 DEF TypeOK, StreamType, PubType
<1>6. ASSUME version' \in {version, version + 1}, announced' = announced
      PROVE  version' \in Nat /\ announced' \in 0..version' /\ pubs \in [Publishers -> PubType']
  BY <1>6, <1>1 DEF TypeOK, PubType
<1>7. ASSUME NEW w \in Writers, Change(w) \/ Record(w) PROVE TypeOK'
  <2>1. pubs' \in [Publishers -> PubType']
    BY <1>2, <1>6, <1>7 DEF Change, Record, PubType
  <2> QED BY <1>3, <1>5, <1>6, <1>7, <2>1 DEF Change, Record, TypeOK
<1>8. ASSUME NEW w \in Writers, SendRecord(w) PROVE TypeOK'
  <2>1. pubs' \in [Publishers -> PubType']
    BY <1>2, <1>6, <1>8 DEF SendRecord, PubType
  <2> QED BY <1>4, <1>5, <1>6, <1>8, <2>1 DEF SendRecord, TypeOK
<1>9. ASSUME NEW w \in Writers, NEW t \in Timers, SendRecordAndQueue(w, t) PROVE TypeOK'
  <2>1. pubs' \in [Publishers -> PubType']
    BY <1>2, <1>6, <1>9 DEF SendRecordAndQueue, PubType
  <2> QED BY <1>4, <1>5, <1>6, <1>9, <2>1 DEF SendRecordAndQueue, TypeOK
<1>10. ASSUME NEW t \in Timers, Fire(t) PROVE TypeOK'
  <2>1. pubs' \in [Publishers -> PubType']
    BY <1>2, <1>6, <1>10 DEF Fire, PubType
  <2> QED BY <1>3, <1>5, <1>6, <1>10, <2>1 DEF Fire, TypeOK
<1>11. ASSUME NEW p \in Publishers, Snapshot(p) PROVE TypeOK'
  <2>1. pubs' \in [Publishers -> PubType']
    <3>1. pubs[p] \in PubType /\ version \in 0..version /\ version' = version
      BY <1>1, <1>11 DEF Snapshot, TypeOK
    <3>2. [pubs[p] EXCEPT !.pc = "snapped", !.snap = version] \in PubType'
      BY <3>1 DEF PubType
    <3>3. pubs' = [pubs EXCEPT ![p] = [pubs[p] EXCEPT !.pc = "snapped", !.snap = version]]
      BY <1>1, <1>11 DEF Snapshot, PubType
    <3> QED BY <1>1, <3>1, <3>2, <3>3 DEF PubType
  <2> QED BY <1>3, <1>5, <1>6, <1>11, <2>1 DEF Snapshot, TypeOK
<1>12. ASSUME NEW p \in Publishers, Broadcast(p) PROVE TypeOK'
  <2>1. pubs' \in [Publishers -> PubType']
    BY <1>1, <1>12 DEF Broadcast, PubType
  <2>2. announced' \in 0..version' /\ version' \in Nat
    BY <1>1, <1>12 DEF Broadcast, PubType, TypeOK
  <2>3. pubs[p].typ \in {"record", "updated", "ended"} /\ streams' = Sent(pubs[p].typ)
        /\ seq' = seq + 1 /\ endSeq' \in {endSeq, seq'}
    BY <1>1, <1>12 DEF Broadcast, PubType
  <2> QED BY <1>4, <1>5, <1>12, <2>1, <2>2, <2>3 DEF Broadcast, TypeOK
<1>13. ASSUME NEW c \in Closers, Close(c) PROVE TypeOK'
  <2>1. pubs' \in [Publishers -> PubType']
    BY <1>2, <1>6, <1>13 DEF Close, PubType
  <2> QED BY <1>3, <1>5, <1>6, <1>13, <2>1 DEF Close, TypeOK
<1>14. CASE Stop
  BY <1>1, <1>3, <1>5, <1>6, <1>14 DEF Stop, TypeOK
<1>15. CASE UNCHANGED vars
  BY <1>1, <1>3, <1>5, <1>6, <1>15 DEF vars, TypeOK
<1> QED
  BY <1>2, <1>7, <1>8, <1>9, <1>10, <1>11, <1>12, <1>13, <1>14, <1>15, StreamStepType
     DEF Next, WriterStep, TimerStep, Publish

\* A session that starts is in its type.
LEMMA TypeInit == Init => TypeOK
<1> SUFFICES ASSUME Init PROVE TypeOK
  OBVIOUS
<1>1. streams \in [Streams -> StreamType] /\ \A s \in Streams : Len(streams[s].chan) = 0
  BY DEF Init, StreamType, StreamStates
<1>2. \A s \in Streams : Len(streams[s].chan) <= ChanCap
  BY <1>1, EventsAssumption DEF EventsAssumption
<1>3. pubs \in [Publishers -> PubType]
  BY DEF Init, PubType
<1>4. streams \in [Streams -> StreamType]
  BY <1>1
<1>5. version \in Nat /\ announced \in 0..version /\ seq \in Nat /\ endSeq \in 0..seq
  BY DEF Init
<1>6. ended \in BOOLEAN /\ queued \in BOOLEAN /\ stopped \in {"no", "told", "second", "late"}
  BY DEF Init
<1> QED BY <1>2, <1>3, <1>4, <1>5, <1>6 DEF TypeOK, StreamType, PubType

\* Every event, channel and announcement stays in its type, whatever the number
\* of goroutines and streams, and no channel exceeds its capacity (broadcast).
THEOREM TypeCorrect == Spec => []TypeOK
<1> QED BY TypeInit, TypeStep, PTL DEF Spec

-----------------------------------------------------------------------------
\* A broadcast leaves every stream's events consecutive.
LEMMA SentGapless ==
  ASSUME TypeOK, Gapless, NEW typ \in {"record", "updated", "ended"},
         seq' = seq + 1, streams' = Sent(typ)
  PROVE  Gapless'
<1> SUFFICES ASSUME NEW s \in Streams, streams'[s].pc \in Open
             PROVE  /\ \A i \in DOMAIN streams'[s].chan :
                         streams'[s].chan[i].seq = streams'[s].got + i
                    /\ streams'[s].pc = "open" => streams'[s].got + Len(streams'[s].chan) = seq'
  BY DEF Gapless
<1> DEFINE st == streams[s]
           new == streams'[s]
           ev == [seq |-> seq + 1, typ |-> typ]
<1>1. /\ st.chan \in Seq(Event) /\ st.got \in Nat /\ seq \in Nat /\ ev \in Event
      /\ st.pc \in Open => \A i \in DOMAIN st.chan : st.chan[i].seq = st.got + i
      /\ st.pc = "open" => st.got + Len(st.chan) = seq
  BY DEF TypeOK, Gapless, Event, Open
<1>2. CASE st.pc # "open" /\ new = st
  BY <1>1, <1>2
<1>3. CASE st.pc = "open" /\ new.pc = "open" /\ new.got = st.got /\ new.chan = Append(st.chan, ev)
  <2>1. Len(new.chan) = Len(st.chan) + 1 /\ DOMAIN new.chan = 1..(Len(st.chan) + 1)
    BY <1>1, <1>3
  <2>2. ASSUME NEW i \in DOMAIN new.chan PROVE new.chan[i].seq = new.got + i
    <3>1. CASE i \in 1..Len(st.chan)
      BY <1>1, <1>3, <3>1 DEF Open
    <3>2. CASE i = Len(st.chan) + 1
      <4>1. new.chan[i] = ev BY <1>1, <1>3, <3>2
      <4>2. ev.seq = seq + 1 OBVIOUS
      <4>3. new.got + i = seq + 1
        <5>1. Len(st.chan) \in Nat /\ st.got \in Nat /\ st.got + Len(st.chan) = seq
          BY <1>1, <1>3
        <5>2. st.got + (Len(st.chan) + 1) = seq + 1
          BY <5>1
        <5> QED BY <1>3, <3>2, <5>2
      <4> QED BY <4>1, <4>2, <4>3
    <3>3. i \in 1..Len(st.chan) \/ i = Len(st.chan) + 1
      <4>1. i \in 1..(Len(st.chan) + 1) BY <2>1
      <4>2. Len(st.chan) \in Nat BY <1>1
      <4> HIDE DEF st, new, ev
      <4> QED BY <4>1, <4>2
    <3> QED BY <3>1, <3>2, <3>3
  <2>3. new.got + Len(new.chan) = seq'
    BY <1>1, <1>3, <2>1
  <2> QED BY <2>2, <2>3
<1>4. CASE st.pc = "open" /\ new.pc = "cut" /\ new.got = st.got /\ new.chan = st.chan
  BY <1>1, <1>4 DEF Open
<1> QED BY <1>2, <1>3, <1>4, SentCases

\* A stream is sent consecutive events: it is cut when it falls behind, and
\* never gets a gap (broadcast, apiEvents).
THEOREM GaplessHolds == Spec => []Gapless
<1>1. Init => TypeOK /\ Gapless
  <2>1. Init => TypeOK
    BY TypeInit
  <2>2. Init => Gapless
    BY DEF Init, Gapless, Open
  <2> QED BY <2>1, <2>2
<1>2. TypeOK /\ Gapless /\ [Next]_vars => Gapless'
  <2> SUFFICES ASSUME TypeOK, Gapless, [Next]_vars PROVE Gapless'
    OBVIOUS
  <2>1. CASE UNCHANGED <<streams, seq>>
    BY <2>1 DEF Gapless
  <2>2. ASSUME NEW w \in Writers, \/ SendRecord(w)
                                  \/ \E t \in Timers : SendRecordAndQueue(w, t)
        PROVE  Gapless'
    BY <2>2, SentGapless DEF SendRecord, SendRecordAndQueue
  <2>3. ASSUME NEW p \in Publishers, Broadcast(p) PROVE Gapless'
    <3>1. pubs[p].typ \in {"record", "updated", "ended"}
      BY DEF TypeOK
    <3> QED BY <2>3, <3>1, SentGapless DEF Broadcast
  <2>4. ASSUME NEW s \in Streams, Subscribe(s) PROVE Gapless'
    BY <2>4 DEF Subscribe, Gapless, TypeOK
  <2>5. ASSUME NEW s \in Streams, Deliver(s) PROVE Gapless'
    <3> DEFINE st == streams[s]
    <3>1. /\ st.pc \in Open /\ st.chan # <<>> /\ st.chan \in Seq(Event) /\ st.got \in Nat
          /\ \A i \in DOMAIN st.chan : st.chan[i].seq = st.got + i
          /\ st.pc = "open" => st.got + Len(st.chan) = seq
      BY <2>5 DEF Deliver, Gapless, TypeOK
    <3>2. Head(st.chan).seq = st.got + 1
      BY <3>1
    <3>3. /\ Len(Tail(st.chan)) = Len(st.chan) - 1
          /\ \A i \in DOMAIN Tail(st.chan) : i + 1 \in DOMAIN st.chan /\ Tail(st.chan)[i] = st.chan[i + 1]
      BY <3>1
    <3>4. \A i \in DOMAIN Tail(st.chan) : Tail(st.chan)[i].seq = st.got + 1 + i
      <4> SUFFICES ASSUME NEW i \in DOMAIN Tail(st.chan)
                   PROVE  Tail(st.chan)[i].seq = st.got + 1 + i
        OBVIOUS
      <4>1. i \in Nat /\ Tail(st.chan)[i] = st.chan[i + 1] /\ st.chan[i + 1].seq = st.got + (i + 1)
        BY <3>1, <3>3
      <4>2. st.got \in Nat /\ i \in Nat
        BY <3>1, <4>1
      <4>3. st.got + (i + 1) = st.got + 1 + i
        BY <4>2
      <4> QED BY <4>1, <4>3
    <3>5. \A r \in Streams : r # s => streams'[r] = streams[r]
      BY <2>5 DEF Deliver, TypeOK
    <3>6. /\ streams'[s].chan = Tail(st.chan) /\ streams'[s].got = st.got + 1
          /\ streams'[s].pc = "open" => st.pc = "open"
      BY <2>5, <3>2 DEF Deliver, TypeOK
    <3>7. seq' = seq
      BY <2>5 DEF Deliver
    <3>8. /\ \A i \in DOMAIN streams'[s].chan : streams'[s].chan[i].seq = streams'[s].got + i
          /\ streams'[s].pc = "open" => streams'[s].got + Len(streams'[s].chan) = seq'
      <4> HIDE DEF st
      <4>1. \A i \in DOMAIN Tail(st.chan) : Tail(st.chan)[i].seq = (st.got + 1) + i
        BY <3>4
      <4>2. st.pc = "open" => (st.got + 1) + Len(Tail(st.chan)) = seq
        BY <3>1, <3>3, Len(st.chan) \in Nat
      <4> QED BY <3>6, <3>7, <4>1, <4>2
    <3> QED BY <3>5, <3>7, <3>8 DEF Gapless
  <2>6. ASSUME NEW s \in Streams, LoseClient(s) \/ EndStream(s) PROVE Gapless'
    <3>1. \A r \in Streams : r # s => streams'[r] = streams[r]
      BY <2>6 DEF LoseClient, EndStream, TypeOK
    <3>2. streams'[s].pc \notin Open /\ seq' = seq
      BY <2>6 DEF LoseClient, EndStream, TypeOK, Open
    <3> QED BY <3>1, <3>2 DEF Gapless
  <2> QED
    BY <2>1, <2>2, <2>3, <2>4, <2>5, <2>6
       DEF Next, WriterStep, TimerStep, Publish, Publishers, vars,
           Change, Record, Fire, Snapshot, Close, Stop
<1> QED BY <1>1, <1>2, TypeStep, PTL DEF Spec
-----------------------------------------------------------------------------
\* updateQueued says that a timer is armed, and only one ever is.
QueueInv ==
  /\ queued <=> \E t \in Timers : pubs[t].pc = "armed"
  /\ OneTimerArmed

\* The four groups of goroutines have no member in common.
LEMMA Disjoint ==
  /\ \A w \in Writers : w \notin Timers /\ w \notin Closers
  /\ \A c \in Closers : c \notin Timers
  /\ Writers \subseteq Publishers /\ Timers \subseteq Publishers /\ Closers \subseteq Publishers
BY EventsAssumption DEF EventsAssumption, Closers, Publishers

\* A request that finds no timer on its way arms one.
LEMMA QueuedTimer ==
  ASSUME TypeOK, NEW w \in Writers, NEW t \in Timers, SendRecordAndQueue(w, t), ~queued
  PROVE  /\ pubs'[t].pc = "armed" /\ queued'
         /\ \A u \in Timers : u # t => pubs'[u].pc = pubs[u].pc
<1>1. w \in Publishers /\ t \in Publishers /\ w # t /\ w \notin Timers /\ Timers \subseteq Publishers
  BY Disjoint
<1>2. pubs \in [Publishers -> PubType]
  BY DEF TypeOK, PubType
<1>3. pubs' = [pubs EXCEPT ![w].pc = "idle", ![t].pc = "armed"] /\ queued'
  BY DEF SendRecordAndQueue
<1> QED BY <1>1, <1>2, <1>3 DEF PubType

\* Each step keeps updateQueued and the armed timer together.
LEMMA QueueStep == TypeOK /\ QueueInv /\ [Next]_vars => QueueInv'
<1> SUFFICES ASSUME TypeOK, QueueInv, [Next]_vars PROVE QueueInv'
  OBVIOUS
<1>1. ASSUME queued' = queued,
             \A t \in Timers : pubs'[t].pc = "armed" <=> pubs[t].pc = "armed"
      PROVE  QueueInv'
  BY <1>1 DEF QueueInv, OneTimerArmed
<1>2. pubs \in [Publishers -> PubType]
  BY DEF TypeOK, PubType
<1>3. ASSUME NEW w \in Writers, Change(w) \/ Record(w) \/ SendRecord(w) PROVE QueueInv'
  BY <1>1, <1>2, <1>3, Disjoint DEF Change, Record, SendRecord
<1>4. ASSUME NEW w \in Writers, NEW t \in Timers, SendRecordAndQueue(w, t) PROVE QueueInv'
  <2>1. CASE queued
    BY <1>1, <1>2, <1>4, <2>1, Disjoint DEF SendRecordAndQueue
  <2>2. CASE ~queued
    <3>1. /\ pubs'[t].pc = "armed" /\ queued'
          /\ \A u \in Timers : u # t => pubs'[u].pc = pubs[u].pc
      BY <1>4, <2>2, QueuedTimer
    <3>2. \A u \in Timers : pubs[u].pc # "armed"
      BY <2>2 DEF QueueInv
    <3> QED BY <3>1, <3>2 DEF QueueInv, OneTimerArmed
  <2> QED BY <2>1, <2>2
<1>5. ASSUME NEW t \in Timers, Fire(t) PROVE QueueInv'
  <2>1. \A u \in Timers : pubs'[u].pc # "armed"
    BY <1>2, <1>5, Disjoint DEF Fire, QueueInv, OneTimerArmed
  <2>2. queued' = FALSE
    BY <1>5 DEF Fire
  <2> QED BY <2>1, <2>2 DEF QueueInv, OneTimerArmed
<1>6. ASSUME NEW p \in Publishers, Snapshot(p) \/ Broadcast(p) PROVE QueueInv'
  <2>1. queued' = queued /\ pubs[p].pc # "armed"
    BY <1>6 DEF Snapshot, Broadcast
  <2>2. /\ \A u \in Publishers : u # p => pubs'[u] = pubs[u]
        /\ pubs'[p].pc # "armed"
    <3>1. CASE Snapshot(p)
      BY <1>2, <3>1 DEF Snapshot, PubType
    <3>2. CASE Broadcast(p)
      BY <1>2, <3>2 DEF Broadcast, PubType
    <3> QED BY <1>6, <3>1, <3>2
  <2> QED BY <1>1, <2>1, <2>2, Disjoint
<1>7. ASSUME NEW c \in Closers, Close(c) PROVE QueueInv'
  BY <1>1, <1>2, <1>7, Disjoint DEF Close
<1>8. CASE UNCHANGED <<queued, pubs>>
  BY <1>1, <1>8
<1> QED
  BY <1>3, <1>4, <1>5, <1>6, <1>7, <1>8, Disjoint
     DEF Next, WriterStep, TimerStep, Publish, vars, Stop, Subscribe, Deliver, LoseClient, EndStream

\* No timer is armed when the session starts.
LEMMA QueueInit == Init => QueueInv
<1> SUFFICES ASSUME Init PROVE QueueInv
  OBVIOUS
<1>1. \A t \in Timers : pubs[t].pc = "idle"
  BY Disjoint DEF Init
<1>2. queued = FALSE
  BY DEF Init
<1> QED BY <1>1, <1>2 DEF QueueInv, OneTimerArmed

\* "At most one per delay": however many requests end at once, at most one timer
\* is armed (queueSessionUpdate).
THEOREM OneTimerArmedHolds == Spec => []OneTimerArmed
<1>1. QueueInv => OneTimerArmed
  BY DEF QueueInv
<1> QED BY <1>1, TypeInit, TypeStep, QueueInit, QueueStep, PTL DEF Spec

\* A goroutine that will read the session after now, or holds its present state.
Announcing(p) == \/ pubs[p].pc \in {"recorded", "armed", "changed"}
                 \/ pubs[p].pc = "snapped" /\ pubs[p].snap = version

\* No change of the session is forgotten: until it is announced, a goroutine is
\* on its way to announce it (queueSessionUpdate, recordRequest, closeSession).
THEOREM NoChangeForgottenHolds == Spec => []NoChangeForgotten
<1> DEFINE Goal == NoChangeForgotten
<1>1. Init => Goal
  BY EventsAssumption DEF Init, NoChangeForgotten
<1>2. TypeOK /\ QueueInv /\ Goal /\ [Next]_vars => Goal'
  <2> SUFFICES ASSUME TypeOK, QueueInv, NoChangeForgotten, [Next]_vars, announced' < version'
               PROVE  \E p \in Publishers : Announcing(p)'
    BY DEF NoChangeForgotten, Announcing
  <2>1. pubs \in [Publishers -> PubType]
    BY DEF TypeOK, PubType
  <2>2. ASSUME version' = version, announced' = announced
        PROVE  \E p \in Publishers : Announcing(p)
    BY <2>2 DEF NoChangeForgotten, Announcing
  <2>3. ASSUME NEW w \in Writers, Change(w) \/ Record(w) \/ SendRecord(w)
        PROVE  Announcing(w)'
    <3>1. w \in Publishers
      BY Disjoint
    <3>2. pubs' = [pubs EXCEPT ![w].pc = "recorded"] \/ pubs' = [pubs EXCEPT ![w].pc = "changed"]
      BY <2>3 DEF Change, Record, SendRecord
    <3>3. pubs'[w].pc = "recorded" \/ pubs'[w].pc = "changed"
      BY <2>1, <3>1, <3>2 DEF PubType
    <3> QED BY <3>3 DEF Announcing
  <2>4. ASSUME NEW w \in Writers, NEW t \in Timers, SendRecordAndQueue(w, t)
        PROVE  \E p \in Publishers : Announcing(p)'
    <3>1. CASE queued
      <4>1. PICK u \in Timers : pubs[u].pc = "armed"
        BY <3>1 DEF QueueInv
      <4>2. pubs'[u].pc = "armed"
        BY <2>1, <2>4, <3>1, <4>1, Disjoint DEF SendRecordAndQueue
      <4> QED BY <4>2, Disjoint DEF Announcing
    <3>2. CASE ~queued
      <4>1. pubs'[t].pc = "armed"
        BY <2>1, <2>4, <3>2, QueuedTimer
      <4> QED BY <4>1, Disjoint DEF Announcing
    <3> QED BY <3>1, <3>2
  <2>5. ASSUME NEW t \in Timers, Fire(t) PROVE Announcing(t)'
    BY <2>1, <2>5, Disjoint DEF Fire, Announcing
  <2>6. ASSUME NEW p \in Publishers, Snapshot(p) PROVE Announcing(p)'
    BY <2>1, <2>6 DEF Snapshot, Announcing, PubType
  <2>7. ASSUME NEW p \in Publishers, Broadcast(p)
        PROVE  \E q \in Publishers : Announcing(q)'
    <3>1. announced \in Nat /\ version \in Nat /\ pubs[p].snap \in Nat /\ version' = version
      BY <2>1, <2>7 DEF Broadcast, TypeOK, PubType
    <3>2. announced < version /\ pubs[p].snap # version
      BY <2>7, <3>1 DEF Broadcast
    <3>3. PICK q \in Publishers : Announcing(q)
      BY <3>2 DEF NoChangeForgotten, Announcing
    <3>4. q # p
      BY <2>7, <3>2, <3>3 DEF Broadcast, Announcing
    <3>5. pubs'[q] = pubs[q]
      BY <2>1, <2>7, <3>4 DEF Broadcast
    <3> QED BY <3>1, <3>3, <3>5 DEF Announcing
  <2>8. ASSUME NEW c \in Closers, Close(c) PROVE \E p \in Publishers : Announcing(p)'
    <3>1. CASE ended
      <4>1. version' = version /\ announced' = announced
        BY <2>8, <3>1 DEF Close
      <4>2. PICK q \in Publishers : Announcing(q)
        BY <2>2, <4>1
      <4>3. q # c
        BY <2>8, <4>2 DEF Close, Announcing
      <4>4. pubs'[q] = pubs[q]
        BY <2>1, <2>8, <3>1, <4>3 DEF Close
      <4> QED BY <4>1, <4>2, <4>4 DEF Announcing
    <3>2. CASE ~ended
      <4>1. c \in Publishers /\ pubs[c] \in PubType
        BY <2>1, Disjoint
      <4>2. pubs' = [pubs EXCEPT ![c].pc = "changed", ![c].typ = "ended"]
        BY <2>8, <3>2 DEF Close
      <4>3. pubs'[c].pc = "changed"
        BY <2>1, <4>1, <4>2 DEF PubType
      <4> QED BY <4>1, <4>3 DEF Announcing
    <3> QED BY <3>1, <3>2
  <2>9. CASE UNCHANGED <<version, announced, pubs>>
    BY <2>2, <2>9 DEF Announcing
  <2> QED
    BY <2>3, <2>4, <2>5, <2>6, <2>7, <2>8, <2>9, Disjoint
       DEF Next, WriterStep, TimerStep, Publish, vars, Stop, Subscribe, Deliver, LoseClient, EndStream
<1> QED BY <1>1, <1>2, TypeInit, TypeStep, QueueInit, QueueStep, PTL DEF Spec
-----------------------------------------------------------------------------
\* p is the first closer: it marked the session ended and announces it.
First(p) == pubs[p].typ = "ended"

\* Of the two closers one is the first; its broadcast is session_closed, and
\* the only one.  A call that came second found the other one first.
EndInv ==
  /\ \A p \in Publishers : First(p) =>
       p \in Closers /\ ended /\ pubs[p].pc # "idle" /\ (pubs[p].pc = "done" <=> endSeq # 0)
  /\ \A p, q \in Publishers : First(p) /\ First(q) => p = q
  /\ ended \/ endSeq # 0 \/ (\E c \in Closers : pubs[c].pc # "idle") => \E c \in Closers : First(c)
  /\ stopped = "second" => First("monitor")
  /\ stopped = "told" => endSeq # 0

\* An open stream has session_closed ahead of it once it is sent; one that the
\* stop ended after it was opened later.
HearInv(s) ==
  /\ streams[s].pc = "open" /\ endSeq # 0 =>
       \/ endSeq <= streams[s].start
       \/ \E i \in DOMAIN streams[s].chan : streams[s].chan[i].typ = "ended"
  /\ streams[s].pc = "stopped" => stopped # "no"
  /\ streams[s].pc = "stopped" /\ stopped = "told" => endSeq # 0 /\ endSeq <= streams[s].start

\* The closers' part of the invariant.
LEMMA EndStep ==
  ASSUME TypeOK, EndInv, [Next]_vars
  PROVE  EndInv'
<1>1. pubs \in [Publishers -> PubType]
  BY DEF TypeOK, PubType
<1>2. Closers \subseteq Publishers
  BY Disjoint
<1>3. ASSUME ended' = ended, endSeq' = endSeq, stopped' = stopped,
             \A q \in Publishers : pubs'[q].typ = pubs[q].typ,
             \A q \in Closers : /\ pubs'[q].pc = "idle" <=> pubs[q].pc = "idle"
                                /\ pubs'[q].pc = "done" <=> pubs[q].pc = "done"
      PROVE  EndInv'
  <2>1. \A q \in Publishers : First(q)' <=> First(q)
    BY <1>3 DEF First
  <2>2. "monitor" \in Publishers
    BY <1>2 DEF Closers
  <2> QED BY <1>2, <1>3, <2>1, <2>2 DEF EndInv
<1>4. ASSUME NEW w \in Writers, Change(w) \/ Record(w) \/ SendRecord(w) PROVE EndInv'
  <2>1. w \in Publishers /\ w \notin Closers
    BY Disjoint
  <2>2. \E pc \in {"recorded", "changed"} : pubs' = [pubs EXCEPT ![w].pc = pc]
    BY <1>4 DEF Change, Record, SendRecord
  <2>3. /\ \A q \in Publishers : pubs'[q].typ = pubs[q].typ
        /\ \A q \in Closers : pubs'[q] = pubs[q]
    BY <1>1, <2>1, <2>2, Disjoint DEF PubType
  <2> QED BY <1>3, <1>4, <2>1, <2>3 DEF Change, Record, SendRecord
<1>5. ASSUME NEW w \in Writers, NEW t \in Timers, SendRecordAndQueue(w, t) PROVE EndInv'
  <2>1. /\ w \in Publishers /\ w \notin Closers /\ t \in Publishers /\ t \notin Closers /\ w # t
        /\ Closers \subseteq Publishers
    BY Disjoint
  <2>2. \/ pubs' = [pubs EXCEPT ![w].pc = "idle"]
        \/ pubs' = [pubs EXCEPT ![w].pc = "idle", ![t].pc = "armed"]
    BY <1>5 DEF SendRecordAndQueue
  <2>3. /\ \A q \in Publishers : pubs'[q].typ = pubs[q].typ
        /\ \A q \in Closers : pubs'[q] = pubs[q]
    BY <1>1, <2>1, <2>2 DEF PubType
  <2> QED BY <1>3, <1>5, <2>1, <2>3 DEF SendRecordAndQueue
<1>6. ASSUME NEW t \in Timers, Fire(t) PROVE EndInv'
  <2>1. t \in Publishers /\ t \notin Closers
    BY Disjoint
  <2>2. /\ \A q \in Publishers : pubs'[q].typ = pubs[q].typ
        /\ \A q \in Closers : pubs'[q] = pubs[q]
    BY <1>1, <1>6, <2>1, Disjoint DEF Fire, PubType
  <2> QED BY <1>3, <1>6, <2>1, <2>2 DEF Fire
<1>7. ASSUME NEW p \in Publishers, Snapshot(p) PROVE EndInv'
  <2>1. /\ \A q \in Publishers : pubs'[q].typ = pubs[q].typ
        /\ \A q \in Publishers : q # p => pubs'[q] = pubs[q]
        /\ pubs[p].pc = "changed" /\ pubs'[p].pc = "snapped"
    BY <1>1, <1>7 DEF Snapshot, PubType
  <2>2. \A q \in Closers : /\ pubs'[q].pc = "idle" <=> pubs[q].pc = "idle"
                           /\ pubs'[q].pc = "done" <=> pubs[q].pc = "done"
    <3> SUFFICES ASSUME NEW q \in Closers
                 PROVE  /\ pubs'[q].pc = "idle" <=> pubs[q].pc = "idle"
                        /\ pubs'[q].pc = "done" <=> pubs[q].pc = "done"
      OBVIOUS
    <3>1. CASE q = p BY <2>1, <3>1
    <3>2. CASE q # p BY <1>2, <2>1, <3>2
    <3> QED BY <3>1, <3>2
  <2> QED BY <1>3, <1>7, <2>1, <2>2 DEF Snapshot
<1>8. ASSUME NEW p \in Publishers, Broadcast(p) PROVE EndInv'
  <2>1. /\ \A q \in Publishers : pubs'[q].typ = pubs[q].typ
        /\ \A q \in Publishers : q # p => pubs'[q] = pubs[q]
        /\ pubs[p].pc = "snapped" /\ ended' = ended /\ stopped' = stopped
        /\ p \in Closers => pubs'[p].pc = "done"
    BY <1>1, <1>8 DEF Broadcast, PubType
  <2>2. /\ \A q \in Publishers : First(q)' <=> First(q)
        /\ "monitor" \in Publishers
    BY <1>2, <2>1 DEF First, Closers
  <2>3. CASE First(p)
    <3>1. p \in Closers /\ endSeq' # 0 /\ ended
      BY <1>8, <2>3 DEF First, EndInv, Broadcast, TypeOK
    <3>2. \A q \in Publishers : First(q) => q = p
      BY <2>3 DEF EndInv
    <3> QED BY <1>2, <2>1, <2>2, <2>3, <3>1, <3>2 DEF EndInv
  <2>4. CASE ~First(p)
    <3>1. endSeq' = endSeq
      BY <1>8, <2>4 DEF First, Broadcast
    <3>2. \A q \in Publishers : First(q) => pubs'[q] = pubs[q]
      BY <2>1, <2>4
    <3>3. \A q \in Closers : pubs'[q].pc # "idle" => pubs[q].pc # "idle"
      BY <1>2, <2>1
    <3> QED BY <1>2, <2>1, <2>2, <3>1, <3>2, <3>3 DEF EndInv
  <2> QED BY <2>3, <2>4
<1>9. ASSUME NEW c \in Closers, Close(c) PROVE EndInv'
  <2>1. c \in Publishers /\ pubs[c].pc = "idle" /\ endSeq' = endSeq /\ stopped' = stopped /\ ~First(c)
    BY <1>2, <1>9 DEF Close, EndInv
  <2>2. CASE ended
    <3>1. pubs' = [pubs EXCEPT ![c].pc = "done"] /\ ended' = ended
      BY <1>9, <2>2 DEF Close
    <3>2. /\ \A q \in Publishers : pubs'[q].typ = pubs[q].typ
          /\ \A q \in Publishers : q # c => pubs'[q] = pubs[q]
      BY <1>1, <2>1, <3>1 DEF PubType
    <3>3. /\ \A q \in Publishers : First(q)' <=> First(q)
          /\ \A q \in Publishers : First(q) => pubs'[q] = pubs[q]
          /\ "monitor" \in Publishers
      BY <1>2, <2>1, <3>2 DEF First, Closers
    <3>4. \E d \in Closers : First(d)
      BY <2>2 DEF EndInv
    <3> QED BY <1>2, <2>1, <3>1, <3>3, <3>4 DEF EndInv
  <2>3. CASE ~ended
    <3>1. pubs' = [pubs EXCEPT ![c].pc = "changed", ![c].typ = "ended"] /\ ended' = TRUE
      BY <1>9, <2>3 DEF Close
    <3>2. /\ \A q \in Publishers : q # c => pubs'[q] = pubs[q]
          /\ pubs'[c].pc = "changed" /\ pubs'[c].typ = "ended"
      BY <1>1, <2>1, <3>1 DEF PubType
    <3>3. (\A q \in Publishers : ~First(q)) /\ endSeq = 0 /\ "monitor" \in Publishers
      BY <1>2, <2>3 DEF EndInv, Closers
    <3>4. First(c)' /\ \A q \in Publishers : First(q)' => q = c
      BY <3>2, <3>3 DEF First
    <3>5. stopped # "second"
      BY <3>3 DEF EndInv
    <3> QED BY <2>1, <1>2, <3>1, <3>2, <3>3, <3>4, <3>5 DEF EndInv
  <2> QED BY <2>2, <2>3
<1>10. CASE Stop
  <2>1. pubs' = pubs /\ ended' = ended /\ endSeq' = endSeq
    BY <1>10 DEF Stop
  <2>2. "launcher" \in Publishers /\ "launcher" \in Closers /\ "monitor" # "launcher"
    BY <1>2 DEF Closers
  <2>3. ASSUME stopped' = "second" PROVE First("monitor")
    <3>1. endSeq = 0 /\ pubs["launcher"].pc = "done"
      BY <1>10, <2>3 DEF Stop
    <3>2. ~First("launcher") /\ \E c \in Closers : First(c)
      BY <2>2, <3>1 DEF EndInv
    <3> QED BY <3>2 DEF Closers
  <2>4. stopped' = "told" => endSeq # 0
    BY <1>10 DEF Stop
  <2> QED BY <2>1, <2>3, <2>4 DEF EndInv, First
<1>11. CASE UNCHANGED <<ended, pubs, endSeq, stopped>>
  BY <1>11 DEF EndInv, First
<1> QED
  BY <1>4, <1>5, <1>6, <1>7, <1>8, <1>9, <1>10, <1>11, Disjoint
     DEF Next, WriterStep, TimerStep, Publish, vars, Subscribe, Deliver, LoseClient, EndStream

\* The streams' part: what a broadcast of an update or a record leaves of it.
LEMMA HearSent ==
  ASSUME TypeOK, NEW s \in Streams, HearInv(s), NEW typ \in {"record", "updated", "ended"},
         streams' = Sent(typ), endSeq' = endSeq, stopped' = stopped
  PROVE  HearInv(s)'
<1> DEFINE st == streams[s]
           new == streams'[s]
           ev == [seq |-> seq + 1, typ |-> typ]
<1>1. CASE st.pc # "open" /\ new = st
  BY <1>1 DEF HearInv
<1>2. CASE /\ st.pc = "open" /\ new.pc = "open" /\ new.start = st.start
           /\ new.chan = Append(st.chan, ev)
  <2>1. st.chan \in Seq(Event) /\ ev \in Event
    BY DEF TypeOK, Event
  <2>2. \A i \in DOMAIN st.chan : i \in DOMAIN new.chan /\ new.chan[i] = st.chan[i]
    BY <1>2, <2>1
  <2> QED BY <1>2, <2>2 DEF HearInv
<1>3. CASE st.pc = "open" /\ new.pc = "cut"
  BY <1>3 DEF HearInv
<1> QED BY <1>1, <1>2, <1>3, SentCases

\* The streams' part: session_closed joins each open channel, or cuts it.
LEMMA HearClosed ==
  ASSUME TypeOK, NEW s \in Streams, HearInv(s), stopped # "told", stopped' = stopped,
         streams' = Sent("ended")
  PROVE  HearInv(s)'
<1> DEFINE st == streams[s]
           new == streams'[s]
           ev == [seq |-> seq + 1, typ |-> "ended"]
<1>2. CASE st.pc # "open" /\ new = st
  BY <1>2 DEF HearInv
<1>3. CASE st.pc = "open" /\ new.pc = "open" /\ new.chan = Append(st.chan, ev)
  <2>1. st.chan \in Seq(Event) /\ ev \in Event
    BY DEF TypeOK, Event
  <2>2. Len(st.chan) + 1 \in DOMAIN new.chan /\ new.chan[Len(st.chan) + 1] = ev
    BY <1>3, <2>1
  <2> QED BY <1>3, <2>2 DEF HearInv
<1>4. CASE st.pc = "open" /\ new.pc = "cut"
  BY <1>4 DEF HearInv
<1> QED BY <1>2, <1>3, <1>4, SentCases

\* The streams' part: a stream sends what it is owed before it ends.
LEMMA HearStep ==
  ASSUME TypeOK, EndInv, [Next]_vars, NEW s \in Streams, HearInv(s)
  PROVE  HearInv(s)'
<1>1. CASE UNCHANGED <<streams, endSeq, stopped>>
  BY <1>1 DEF HearInv
<1>2. ASSUME NEW w \in Writers, SendRecord(w) \/ \E t \in Timers : SendRecordAndQueue(w, t)
      PROVE  HearInv(s)'
  BY <1>2, HearSent DEF SendRecord, SendRecordAndQueue
<1>3. ASSUME NEW p \in Publishers, Broadcast(p) PROVE HearInv(s)'
  <2>1. pubs[p].typ \in {"updated", "ended"} /\ pubs[p].pc = "snapped"
    BY <1>3 DEF Broadcast, TypeOK
  <2>2. CASE pubs[p].typ = "updated"
    BY <1>3, <2>2, HearSent DEF Broadcast
  <2>3. CASE pubs[p].typ = "ended"
    <3>1. endSeq = 0 /\ stopped # "told"
      BY <2>1, <2>3 DEF EndInv, First
    <3> QED BY <1>3, <2>3, <3>1, HearClosed DEF Broadcast
  <2> QED BY <2>1, <2>2, <2>3
<1>4. CASE Stop
  BY <1>4 DEF Stop, HearInv
<1>5. ASSUME NEW r \in Streams, r # s,
             Subscribe(r) \/ Deliver(r) \/ LoseClient(r) \/ EndStream(r)
      PROVE  HearInv(s)'
  <2>1. streams'[s] = streams[s] /\ endSeq' = endSeq /\ stopped' = stopped
    BY <1>5 DEF Subscribe, Deliver, LoseClient, EndStream, TypeOK
  <2> QED BY <2>1 DEF HearInv
<1>6. CASE Subscribe(s)
  BY <1>6 DEF Subscribe, HearInv, TypeOK
<1>7. CASE Deliver(s)
  <2> DEFINE st == streams[s]
             new == streams'[s]
  <2>1. /\ st.chan \in Seq(Event) /\ st.chan # <<>> /\ st.pc \in Open
        /\ new.chan = Tail(st.chan) /\ new.start = st.start
        /\ new.pc = IF Head(st.chan).typ = "ended" THEN "ended" ELSE st.pc
        /\ endSeq' = endSeq
    BY <1>7 DEF Deliver, TypeOK
  <2>2. new.pc # "stopped"
    BY <2>1 DEF Open
  <2>3. ASSUME new.pc = "open", NEW i \in DOMAIN st.chan, st.chan[i].typ = "ended"
        PROVE  \E j \in DOMAIN new.chan : new.chan[j].typ = "ended"
    <3>1. i # 1
      BY <2>1, <2>3
    <3>2. i - 1 \in DOMAIN new.chan /\ new.chan[i - 1] = st.chan[i]
      BY <2>1, <3>1
    <3> QED BY <2>3, <3>2
  <2>4. new.pc = "open" => st.pc = "open"
    BY <2>1
  <2> QED BY <2>1, <2>2, <2>3, <2>4 DEF HearInv
<1>8. CASE LoseClient(s)
  BY <1>8 DEF LoseClient, HearInv, TypeOK
<1>9. CASE EndStream(s)
  <2>1. CASE streams' = [streams EXCEPT ![s].pc = "dropped"]
    <3>1. streams'[s].pc = "dropped"
      BY <2>1 DEF TypeOK
    <3> QED BY <3>1 DEF HearInv
  <2>2. CASE /\ stopped # "no" /\ streams[s].pc = "open"
             /\ streams' = [streams EXCEPT ![s].pc = "stopped"]
    <3>1. streams[s].chan = <<>> /\ endSeq' = endSeq /\ stopped' = stopped
      BY <1>9 DEF EndStream
    <3>2. stopped = "told" => endSeq # 0
      BY DEF EndInv
    <3>3. stopped = "told" => endSeq <= streams[s].start
      BY <2>2, <3>1, <3>2 DEF HearInv
    <3>4. streams'[s].pc = "stopped" /\ streams'[s].start = streams[s].start
      BY <2>2 DEF TypeOK
    <3> QED BY <2>2, <3>1, <3>2, <3>3, <3>4 DEF HearInv
  <2> QED BY <1>9, <2>1, <2>2 DEF EndStream
<1> QED
  BY <1>1, <1>2, <1>3, <1>4, <1>5, <1>6, <1>7, <1>8, <1>9, Disjoint
     DEF Next, WriterStep, TimerStep, Publish, vars, Change, Record, Fire, Snapshot, Close

\* Nobody has closed the session or subscribed when it starts.
LEMMA EndInit == Init => EndInv /\ \A s \in Streams : HearInv(s)
BY DEF Init, EndInv, First, HearInv, Publishers, Closers

\* The stop of the supervisor ends no stream that session_closed was sent to,
\* and it overtakes session_closed only where the launcher's call came second
\* to the monitor's or ran into its timeout (cleanupFn, closeSession, apiEvents).
THEOREM EndBeforeStopHolds == Spec => []EndBeforeStop
<1> DEFINE Inv == EndInv /\ \A s \in Streams : HearInv(s)
<1>1. TypeOK /\ Inv /\ [Next]_vars => Inv'
  <2> SUFFICES ASSUME TypeOK, Inv, [Next]_vars PROVE Inv'
    OBVIOUS
  <2>1. EndInv'
    BY EndStep
  <2>2. ASSUME NEW s \in Streams PROVE HearInv(s)'
    BY HearStep
  <2> QED BY <2>1, <2>2
<1>2. Init => Inv
  BY EndInit
<1>3. Inv => EndBeforeStop
  BY DEF EndInv, First, HearInv, EndBeforeStop
<1> QED BY <1>1, <1>2, <1>3, TypeInit, TypeStep, PTL DEF Spec
=============================================================================
