---------------------------- MODULE ProxyProofs ----------------------------
(* Theorems about the session proxy for every number of connections, egresses *)
(* and hello shapes, with their proofs.                                       *)
EXTENDS Proxy, FiniteSetTheorems, SequenceTheorems, TLAPS

-----------------------------------------------------------------------------
(* The invariant. *)

Held == {"starting", "copying", "registered", "serving"}
Announced == Held \union {"announced", "peeking", "handshaking", "registering"}

\* Past the CONNECT answer a handler's open sockets are tracked, so the
\* snapshot of Close has those of every tunnel that runs by then; and no tunnel
\* begins to run after it.
TrackedInv ==
  /\ closed <=> closer # "idle"
  /\ \A c \in Conns :
       /\ pc[c] \in Announced => Ends(c) \cap open \subseteq tracked
       /\ closed /\ pc[c] \in Held => Ends(c) \cap open \subseteq snap.tracked
  /\ NoTunnelSurvives

In(place) == {c \in Conns : pc[c] = place}

\* wg counts the copies and the inner servers that run.
WgInv == wg = 2 * Cardinality(In("copying")) + Cardinality(In("serving"))

\* A request is of a handler that runs, and keeps the shape its connection has;
\* if it has a transport, that is one of its own key and shape.
WayOf(c) ==
  LET q == request[c]
  IN  /\ Busy(c) =>
           /\ pc[c] \in {"plain", "serving", "done"}
           /\ q.shape \in {"plain", IF shapeOf[c] = "none" THEN "default" ELSE shapeOf[c]}
      /\ q.pc \in {"picked", "sent"} =>
           /\ q.tr \in Ids
           /\ transports[q.tr].key = q.key /\ transports[q.tr].shape = q.shape
      /\ q.pc = "sent" => q.hello = HelloOf(q.tr) /\ q.hello # "none"

\* The connections of a transport mirror one hello, from the first dial on.
IdleInv == \A i \in Ids : transports[i].idle \in {"none", HelloOf(i)}

WayInv == IsFiniteSet(stacks) /\ IdleInv /\ \A c \in Conns : WayOf(c)

ProxyInv == TypeOK /\ TrackedInv /\ WgInv /\ WayInv

-----------------------------------------------------------------------------
(* What a step is to each of the three parts. *)

PortMoves ==
  \/ \E c \in Conns : Connect(c) \/ PortStep(c)
  \/ PortLoop \/ SignalDone \/ ShutInner \/ ListenerClosed

TunnelMoves ==
  \/ \E c \in Conns :
       \/ Dispatch(c) \/ TunnelStep(c) \/ PeekSucceeds(c) \/ PeekFails(c) \/ CopyEnds(c)
       \/ InnerConnEnds(c) \/ PlainEnds(c) \/ ServeReturns(c) \/ ShutdownInner(c)
  \/ CloseSnapshot \/ InnerAreDown \/ CloseTracked \/ MainIsDown \/ CloseWaits \/ CloseExpires
  \/ /\ \/ CloserGoes("listener", "inner")
        \/ CloserGoes("idleconns", "http")
     /\ UNCHANGED <<open, tracked, down>>

\* A hello is captured while its tunnel peeks, and a request begins in a
\* handler that runs.
UpstreamMoves ==
  \/ \E c \in Conns :
       \/ pc[c] = "peeking" /\ \E h \in Hellos : CaptureHello(c, h)
       \/ /\ pc[c] \in {"plain", "serving"} /\ UNCHANGED pc
          /\ \E anthropic \in BOOLEAN : RequestBegins(c, anthropic)
       \/ RequestStep(c) \/ RequestFinishes(c) \/ RequestAborts(c)
  \/ (\E k \in Egresses : SwitchEgress(k)) \/ DrainTakes \/ DrainCloses
  \/ (\E i \in Ids : IdleExpires(i)) \/ TakeAll \/ CloseAll

\* The parts move by their own actions, or not at all.
LEMMA Parts ==
  ASSUME [Next]_vars
  PROVE  /\ PortMoves \/ UNCHANGED lpVars
         /\ TunnelMoves \/ UNCHANGED tunVars
         /\ UpstreamMoves \/ UNCHANGED upVars
<1> USE DEF OnlyPort, OnlyTunnels, OnlyUpstreams
<1>1. ASSUME NEW c \in Conns, Arrive(c) \/ Screen(c)
      PROVE  PortMoves /\ UNCHANGED <<tunVars, upVars>>
  BY <1>1 DEF Arrive, Screen, PortMoves
<1>2. ASSUME NEW c \in Conns, Handle(c) \/ Copy(c) \/ ConnEnds(c) \/ Return(c)
      PROVE  TunnelMoves /\ UNCHANGED <<lpVars, upVars>>
  BY <1>2 DEF Handle, Copy, ConnEnds, Return, TunnelMoves
<1>3. ASSUME NEW c \in Conns, Peek(c)
      PROVE  TunnelMoves /\ (UpstreamMoves \/ UNCHANGED upVars) /\ UNCHANGED lpVars
  BY <1>3 DEF Peek, TunnelMoves, UpstreamMoves, PeekSucceeds, Goes
<1>4. ASSUME NEW c \in Conns, Begin(c) \/ Forward(c) \/ Finish(c) \/ Abort(c)
      PROVE  UpstreamMoves /\ UNCHANGED <<lpVars, tunVars>>
  BY <1>4 DEF Begin, Forward, Finish, Abort, UpstreamMoves, tunVars
<1>5. CASE Listen
  BY <1>5 DEF Listen, PortMoves
<1>6. CASE Switch \/ Drain \/ (\E i \in Ids : Expire(i))
  BY <1>6 DEF Switch, Drain, Expire, UpstreamMoves
<1>7. CASE Close \/ ContextExpires
  BY <1>7 DEF Close, ContextExpires, TunnelMoves, UpstreamMoves
<1>8. CASE CloseStep
  <2>1. CASE CloseListener
    BY <2>1 DEF CloseListener, PortMoves, TunnelMoves
  <2>2. CASE CloseTransports
    BY <2>2 DEF CloseTransports, TunnelMoves, UpstreamMoves
  <2>3. CASE (\E c \in Conns : Shutdown(c)) \/ CloseConns \/ CloseSockets \/ CloseMain
    BY <2>3 DEF Shutdown, CloseConns, CloseSockets, CloseMain, TunnelMoves
  <2> QED BY <1>8, <2>1, <2>2, <2>3 DEF CloseStep
<1>9. CASE UNCHANGED vars
  BY <1>9 DEF vars
<1> QED BY <1>1, <1>2, <1>3, <1>4, <1>5, <1>6, <1>7, <1>8, <1>9 DEF Next

-----------------------------------------------------------------------------
(* The port. *)

\* No step of the port's gives it a state it has not.
LEMMA PortTypes ==
  ASSUME LocalPeerTypeOK, PortMoves \/ UNCHANGED lpVars
  PROVE  LocalPeerTypeOK'
<1> USE DEF LocalPeerTypeOK, Moves
<1>1. CASE UNCHANGED lpVars
  BY <1>1 DEF lpVars
<1>2. ASSUME NEW c \in Conns, Connect(c) \/ PortStep(c)
      PROVE  LocalPeerTypeOK'
  <2>1. CASE Connect(c) \/ LoopAccepts(c) \/ HandOver(c) \/ OfferSeesDone(c)
    BY <2>1 DEF Connect, LoopAccepts, HandOver, OfferSeesDone
  <2>2. CASE Screened(c)
    <3>1. /\ UNCHANGED <<owner, loop, acceptor, port>>
          /\ \E s \in {"offered", "dropped"} : stage' = [stage EXCEPT ![c] = s]
      BY <2>2 DEF Screened
    <3> QED BY <3>1
  <2> QED BY <1>2, <2>1, <2>2 DEF PortStep
<1>3. CASE PortLoop \/ SignalDone \/ ShutInner \/ ListenerClosed
  BY <1>3 DEF PortLoop, LoopTakesSlot, LoopFails, LoopSeesDone, CallAccept, AcceptSeesDone,
     SignalDone, ShutInner, ListenerClosed
<1> QED BY <1>1, <1>2, <1>3 DEF PortMoves

\* What Accept yields it was offered while the port was open.
LEMMA YieldsWhileOpen ==
  ASSUME LocalPeerTypeOK, PortMoves \/ UNCHANGED lpVars,
         NEW c \in Conns, Moves(c, "offered", "yielded")
  PROVE  port # "closed"
<1> USE DEF LocalPeerTypeOK, Moves
<1>1. stage[c] = "offered" /\ stage'[c] = "yielded"
  OBVIOUS
<1>2. CASE UNCHANGED lpVars
  BY <1>1, <1>2 DEF lpVars
<1>3. ASSUME NEW d \in Conns, Connect(d) \/ PortStep(d)
      PROVE  port # "closed"
  <2>1. CASE Connect(d) \/ LoopAccepts(d) \/ HandOver(d) \/ OfferSeesDone(d)
    BY <1>1, <2>1 DEF Connect, LoopAccepts, HandOver, OfferSeesDone
  <2>2. CASE Screened(d)
    <3>1. \E s \in {"offered", "dropped"} : stage' = [stage EXCEPT ![d] = s]
      BY <2>2 DEF Screened
    <3> QED BY <1>1, <3>1
  <2> QED BY <1>3, <2>1, <2>2 DEF PortStep
<1>4. CASE PortLoop \/ SignalDone \/ ShutInner \/ ListenerClosed
  BY <1>1, <1>4 DEF PortLoop, LoopTakesSlot, LoopFails, LoopSeesDone, CallAccept, AcceptSeesDone,
     SignalDone, ShutInner, ListenerClosed
<1> QED BY <1>2, <1>3, <1>4 DEF PortMoves

-----------------------------------------------------------------------------
(* The tunnels. *)

TunnelFlags == pinned \in BOOLEAN /\ closed \in BOOLEAN /\ late \in BOOLEAN

TunnelPlaces ==
  /\ kind \in [Conns -> AllKinds \union {"none"}]
  /\ pc \in [Conns -> {"none", "plain", "dialing", "hijacked", "half",
                       "announced", "starting", "copying", "peeking",
                       "handshaking", "registering", "registered", "serving",
                       "done"}]
  /\ closer \in {"idle", "listener", "inner", "conns", "idleconns", "http", "wait", "done"}

TunnelSockets ==
  /\ open \subseteq AllEnds /\ tracked \subseteq AllEnds
  /\ inner \subseteq Conns /\ down \subseteq Conns
  /\ snap \in [inner : SUBSET Conns, tracked : SUBSET AllEnds]

\* The types of Tunnels, in parts.
LEMMA TunnelTypeParts ==
  TunnelsTypeOK <=> TunnelFlags /\ TunnelPlaces /\ TunnelSockets /\ wg \in Nat
  BY DEF TunnelsTypeOK, TunnelFlags, TunnelPlaces, TunnelSockets

\* The flags stay flags.
LEMMA TunnelFlagsKept ==
  ASSUME TunnelFlags, TunnelMoves \/ UNCHANGED tunVars
  PROVE  TunnelFlags'
<1> USE DEF TunnelFlags, closing, CloserGoes
<1>1. CASE UNCHANGED tunVars
  BY <1>1 DEF tunVars
<1>2. ASSUME NEW c \in Conns, Dispatch(c) \/ TunnelStep(c)
      PROVE  TunnelFlags'
  BY <1>2 DEF TunnelStep, Dispatch, DialAndHijack, TrackClient, Establish, CheckClosed,
     StartCopies, HandshakeSucceeds, HandshakeFails, Register, Serve
<1>3. ASSUME NEW c \in Conns, \/ PeekSucceeds(c) \/ PeekFails(c) \/ CopyEnds(c) \/ InnerConnEnds(c)
                              \/ PlainEnds(c) \/ ServeReturns(c) \/ ShutdownInner(c)
      PROVE  TunnelFlags'
  BY <1>3 DEF PeekSucceeds, PeekFails, CopyEnds, InnerConnEnds, PlainEnds, ServeReturns,
     ShutdownInner
<1>4. CASE \/ CloseSnapshot \/ InnerAreDown \/ CloseTracked \/ MainIsDown \/ CloseWaits
           \/ CloseExpires
           \/ /\ CloserGoes("listener", "inner") \/ CloserGoes("idleconns", "http")
              /\ UNCHANGED <<open, tracked, down>>
  BY <1>4 DEF CloseSnapshot, InnerAreDown, CloseTracked, MainIsDown, CloseWaits, CloseExpires,
     CloserGoes
<1> QED BY <1>1, <1>2, <1>3, <1>4 DEF TunnelMoves

\* The handlers' places and kinds, and the closer's, stay among theirs.
LEMMA TunnelPlacesKept ==
  ASSUME TunnelPlaces, TunnelMoves \/ UNCHANGED tunVars
  PROVE  TunnelPlaces'
<1> USE TunnelsAssumption DEF TunnelPlaces, Goes, closing, AllKinds
<1>1. CASE UNCHANGED tunVars
  BY <1>1 DEF tunVars
<1>2. ASSUME NEW c \in Conns, Dispatch(c) \/ TunnelStep(c)
      PROVE  TunnelPlaces'
  BY <1>2 DEF TunnelStep, Dispatch, DialAndHijack, TrackClient, Establish, CheckClosed,
     StartCopies, HandshakeSucceeds, HandshakeFails, Register, Serve
<1>3. ASSUME NEW c \in Conns, \/ PeekSucceeds(c) \/ PeekFails(c) \/ CopyEnds(c) \/ InnerConnEnds(c)
                              \/ PlainEnds(c) \/ ServeReturns(c) \/ ShutdownInner(c)
      PROVE  TunnelPlaces'
  BY <1>3 DEF PeekSucceeds, PeekFails, CopyEnds, InnerConnEnds, PlainEnds, ServeReturns,
     ShutdownInner
<1>4. CASE \/ CloseSnapshot \/ InnerAreDown \/ CloseTracked \/ MainIsDown \/ CloseWaits
           \/ CloseExpires
           \/ /\ CloserGoes("listener", "inner") \/ CloserGoes("idleconns", "http")
              /\ UNCHANGED <<open, tracked, down>>
  BY <1>4 DEF CloseSnapshot, InnerAreDown, CloseTracked, MainIsDown, CloseWaits, CloseExpires,
     CloserGoes
<1> QED BY <1>1, <1>2, <1>3, <1>4 DEF TunnelMoves

\* The sockets stay those of connections.
LEMMA TunnelSocketsKept ==
  ASSUME TunnelSockets, TunnelMoves \/ UNCHANGED tunVars
  PROVE  TunnelSockets'
<1> USE DEF TunnelSockets, closing, AllEnds, Ends, Drop, CloseEnds
<1>1. CASE UNCHANGED tunVars
  BY <1>1 DEF tunVars
<1>2. ASSUME NEW c \in Conns, Dispatch(c) \/ TunnelStep(c)
      PROVE  TunnelSockets'
  BY <1>2 DEF TunnelStep, Dispatch, DialAndHijack, TrackClient, Establish, CheckClosed,
     StartCopies, HandshakeSucceeds, HandshakeFails, Register, Serve
<1>3. ASSUME NEW c \in Conns, \/ PeekSucceeds(c) \/ PeekFails(c) \/ CopyEnds(c) \/ InnerConnEnds(c)
                              \/ PlainEnds(c) \/ ServeReturns(c) \/ ShutdownInner(c)
      PROVE  TunnelSockets'
  BY <1>3 DEF PeekSucceeds, PeekFails, CopyEnds, InnerConnEnds, PlainEnds, ServeReturns,
     ShutdownInner
<1>4. CASE \/ CloseSnapshot \/ InnerAreDown \/ CloseTracked \/ MainIsDown \/ CloseWaits
           \/ CloseExpires
           \/ /\ CloserGoes("listener", "inner") \/ CloserGoes("idleconns", "http")
              /\ UNCHANGED <<open, tracked, down>>
  BY <1>4 DEF CloseSnapshot, InnerAreDown, CloseTracked, MainIsDown, CloseWaits, CloseExpires,
     CloserGoes
<1> QED BY <1>1, <1>2, <1>3, <1>4 DEF TunnelMoves

\* Two connections have no socket in common.
LEMMA EndsApart ==
  ASSUME NEW c \in Conns, NEW d \in Conns, c # d
  PROVE  Ends(c) \cap Ends(d) = {}
  BY DEF Ends, Client, Target

\* A step of another's keeps what is said of a handler's sockets.
LEMMA TrackedSteps ==
  ASSUME TrackedInv, TunnelFlags, TunnelPlaces, TunnelMoves \/ UNCHANGED tunVars
  PROVE  TrackedInv'
<1>1. CASE UNCHANGED tunVars
  BY <1>1 DEF tunVars, TrackedInv, NoTunnelSurvives
<1> USE DEF TrackedInv, NoTunnelSurvives, Announced, Held, TunnelPlaces, TunnelFlags, Goes, closing
<1>2. ASSUME NEW c \in Conns, Dispatch(c) \/ DialAndHijack(c)
      PROVE  TrackedInv'
  <2>1. /\ \E s \in {"plain", "dialing", "hijacked", "done"} : pc' = [pc EXCEPT ![c] = s]
        /\ open' \subseteq open \union Ends(c)
        /\ UNCHANGED <<tracked, closed, closer, snap>>
    BY <1>2 DEF Dispatch, DialAndHijack, Ends
  <2> QED BY <2>1, EndsApart
<1>3. ASSUME NEW c \in Conns, TrackClient(c) \/ Establish(c)
      PROVE  TrackedInv'
  <2>1. CASE TrackClient(c)
    BY <2>1 DEF TrackClient
  <2>2. CASE Establish(c)
    <3>1. CASE Goes(c, "half", "done") /\ Drop(c)
      BY <2>2, <3>1 DEF Establish, Drop, CloseEnds
    <3>2. CASE tracked' = tracked \union (open \cap Ends(c)) /\ UNCHANGED open
      <4>1. \E s \in {"announced", "peeking", "handshaking", "done"} : pc' = [pc EXCEPT ![c] = s]
        BY <2>2, <3>2 DEF Establish
      <4> QED BY <2>2, <3>2, <4>1 DEF Establish
    <3> QED BY <2>2, <3>1, <3>2 DEF Establish
  <2> QED BY <1>3, <2>1, <2>2
<1>4. ASSUME NEW c \in Conns, CheckClosed(c) \/ Register(c)
      PROVE  TrackedInv'
  BY <1>4 DEF CheckClosed, Register, Drop, CloseEnds
<1>5. ASSUME NEW c \in Conns, \/ StartCopies(c) \/ HandshakeSucceeds(c) \/ HandshakeFails(c)
                              \/ Serve(c) \/ PeekSucceeds(c) \/ PeekFails(c)
      PROVE  TrackedInv'
  BY <1>5 DEF StartCopies, HandshakeSucceeds, HandshakeFails, Serve, PeekSucceeds, PeekFails,
     Drop, CloseEnds
<1>6. ASSUME NEW c \in Conns, \/ CopyEnds(c) \/ InnerConnEnds(c) \/ PlainEnds(c)
                              \/ ServeReturns(c) \/ ShutdownInner(c)
      PROVE  TrackedInv'
  BY <1>6 DEF CopyEnds, InnerConnEnds, PlainEnds, ServeReturns, ShutdownInner, Drop, CloseEnds
<1>7. CASE CloseSnapshot
  BY <1>7 DEF CloseSnapshot
<1>8. CASE CloseTracked
  BY <1>8 DEF CloseTracked, CloserGoes, CloseEnds
<1>9. CASE \/ InnerAreDown \/ MainIsDown \/ CloseWaits \/ CloseExpires
           \/ /\ CloserGoes("listener", "inner") \/ CloserGoes("idleconns", "http")
              /\ UNCHANGED <<open, tracked, down>>
  BY <1>9 DEF InnerAreDown, MainIsDown, CloseWaits, CloseExpires, CloserGoes
<1> QED BY <1>1, <1>2, <1>3, <1>4, <1>5, <1>6, <1>7, <1>8, <1>9 DEF TunnelMoves, TunnelStep

\* A handler that comes to a place or leaves it changes the count there by one.
LEMMA OneMoves ==
  ASSUME TunnelPlaces, NEW c \in Conns, NEW from, NEW to, from # to, Goes(c, from, to)
  PROVE  /\ \A s : s \notin {from, to} => In(s)' = In(s)
         /\ Cardinality(In(from)) \in Nat \ {0} /\ Cardinality(In(to)) \in Nat
         /\ Cardinality(In(from))' = Cardinality(In(from)) - 1
         /\ Cardinality(In(to))' = Cardinality(In(to)) + 1
<1>1. /\ In(from)' = In(from) \ {c} /\ In(to)' = In(to) \union {c}
      /\ c \in In(from) /\ c \notin In(to)
      /\ \A s : s \notin {from, to} => In(s)' = In(s)
  BY DEF Goes, In, TunnelPlaces
<1>2. IsFiniteSet(In(from)) /\ IsFiniteSet(In(to))
  BY LocalPeerAssumption, FS_Subset DEF In
<1>3. /\ Cardinality(In(from)) \in Nat /\ Cardinality(In(to)) \in Nat
      /\ Cardinality(In(from)) # 0
  BY <1>1, <1>2, FS_CardinalityType, FS_EmptySet
<1>4. Cardinality(In(from) \ {c}) = Cardinality(In(from)) - 1
  BY <1>1, <1>2, FS_RemoveElement
<1>5. Cardinality(In(to) \union {c}) = Cardinality(In(to)) + 1
  BY <1>1, <1>2, FS_AddElement
<1> QED BY <1>1, <1>3, <1>4, <1>5

\* The count of the wait group is that of the copies and the inner servers.
LEMMA WgSteps ==
  ASSUME WgInv, TunnelPlaces, TunnelMoves \/ UNCHANGED tunVars
  PROVE  WgInv'
<1>1. CASE UNCHANGED <<pc, wg>>
  BY <1>1 DEF WgInv, In
<1>2. ASSUME NEW c \in Conns, NEW from, NEW to, from # to,
             from \notin {"copying", "serving"}, to \notin {"copying", "serving"},
             Goes(c, from, to), UNCHANGED wg
      PROVE  WgInv'
  <2>1. In("copying")' = In("copying") /\ In("serving")' = In("serving")
    BY <1>2, OneMoves
  <2> QED BY <1>2, <2>1 DEF WgInv
<1>3. ASSUME NEW c \in Conns, StartCopies(c) \/ CopyEnds(c) \/ Serve(c) \/ ServeReturns(c)
      PROVE  WgInv'
  <2> DEFINE C == Cardinality(In("copying"))
             S == Cardinality(In("serving"))
  <2>1. IsFiniteSet(In("copying")) /\ IsFiniteSet(In("serving"))
    BY LocalPeerAssumption, FS_Subset DEF In
  <2>2. wg = 2 * C + S /\ C \in Nat /\ S \in Nat
    BY <2>1, FS_CardinalityType DEF WgInv
  <2>3. CASE StartCopies(c)
    <3>1. C' = C + 1 /\ S' = S /\ wg' = wg + 2
      BY <2>3, OneMoves DEF StartCopies
    <3> QED BY <2>2, <3>1 DEF WgInv
  <2>4. CASE CopyEnds(c)
    <3>1. C' = C - 1 /\ S' = S /\ wg' = wg - 2
      BY <2>4, OneMoves DEF CopyEnds
    <3> QED BY <2>2, <3>1 DEF WgInv
  <2>5. CASE Serve(c)
    <3>1. C' = C /\ S' = S + 1 /\ wg' = wg + 1
      BY <2>5, OneMoves DEF Serve
    <3> QED BY <2>2, <3>1 DEF WgInv
  <2>6. CASE ServeReturns(c)
    <3>1. C' = C /\ S' = S - 1 /\ wg' = wg - 1
      BY <2>6, OneMoves DEF ServeReturns
    <3> QED BY <2>2, <3>1 DEF WgInv
  <2> QED BY <1>3, <2>3, <2>4, <2>5, <2>6
<1>4. ASSUME NEW c \in Conns, Dispatch(c) \/ DialAndHijack(c) \/ TrackClient(c) \/ CheckClosed(c)
      PROVE  WgInv'
  BY <1>2, <1>4 DEF Dispatch, DialAndHijack, TrackClient, CheckClosed
<1>5. ASSUME NEW c \in Conns, \/ HandshakeSucceeds(c) \/ HandshakeFails(c) \/ Register(c)
                              \/ PeekSucceeds(c) \/ PeekFails(c) \/ PlainEnds(c)
      PROVE  WgInv'
  BY <1>2, <1>5 DEF HandshakeSucceeds, HandshakeFails, Register, PeekSucceeds, PeekFails, PlainEnds
<1>6. ASSUME NEW c \in Conns, Establish(c)
      PROVE  WgInv'
  <2>1. \E to \in {"announced", "peeking", "handshaking", "done"} : Goes(c, "half", to)
    BY <1>6 DEF Establish
  <2> QED BY <1>2, <1>6, <2>1 DEF Establish
<1>7. ASSUME \/ \E c \in Conns : InnerConnEnds(c) \/ ShutdownInner(c)
             \/ CloseSnapshot \/ InnerAreDown \/ CloseTracked \/ MainIsDown \/ CloseWaits
             \/ CloseExpires
             \/ CloserGoes("listener", "inner") \/ CloserGoes("idleconns", "http")
      PROVE  UNCHANGED <<pc, wg>>
  BY <1>7 DEF InnerConnEnds, ShutdownInner, CloseSnapshot, InnerAreDown, CloseTracked, MainIsDown,
     CloseWaits, CloseExpires, CloserGoes
<1> QED BY <1>1, <1>3, <1>4, <1>5, <1>6, <1>7 DEF TunnelMoves, TunnelStep, tunVars

\* And so it never falls below zero.
LEMMA WgType == WgInv => wg \in Nat
<1>1. IsFiniteSet(In("copying")) /\ IsFiniteSet(In("serving"))
  BY LocalPeerAssumption, FS_Subset DEF In
<1>2. Cardinality(In("copying")) \in Nat /\ Cardinality(In("serving")) \in Nat
  BY <1>1, FS_CardinalityType
<1> QED BY <1>2 DEF WgInv

-----------------------------------------------------------------------------
(* The way out. *)

Request(n) == [pc : {"none", "begun", "picked", "sent", "over"}, key : Egresses,
               shape : TransportShapes, tr : 0..n, hello : Hellos \union {"none", "go"}]

\* The transports are numbered in the order they were made.
LEMMA Numbered ==
  ASSUME transports \in Seq(Transport)
  PROVE  /\ Len(transports) \in Nat /\ Ids = 1..Len(transports)
         /\ \A i \in Ids : transports[i] \in Transport
  BY DEF Ids

\* A step makes another transport or leaves each as it was made.
Kept ==
  /\ transports' \in Seq(Transport)
  /\ Len(transports') \in Nat /\ Len(transports) <= Len(transports')
  /\ Ids \subseteq DOMAIN transports'
  /\ \A i \in Ids : /\ transports'[i].key = transports[i].key
                    /\ transports'[i].shape = transports[i].shape

\* A step that changes what transports are at keeps them.
LEMMA Changed ==
  ASSUME transports \in Seq(Transport), transports' = [i \in Ids |-> transports'[i]],
         \A i \in Ids : /\ transports'[i] \in Transport
                        /\ transports'[i].key = transports[i].key
                        /\ transports'[i].shape = transports[i].shape
  PROVE  Kept /\ Ids' = Ids
<1> DEFINE n == Len(transports)
<1>1. n \in Nat /\ Ids = 1..n
  BY Numbered
<1>2. transports' \in [1..n -> Transport]
  BY <1>1
<1>3. transports' \in Seq(Transport)
  BY <1>1, <1>2, SeqDef
<1>4. Len(transports') = n /\ DOMAIN transports' = 1..n
  BY <1>1, <1>2, <1>3, LenProperties
<1> QED BY <1>1, <1>3, <1>4 DEF Kept, Ids

\* A transport keeps its key and shape; its idle connection goes, stays, or is
\* one that mirrors the hello.
Turns(t, u, hello) ==
  /\ u = [key |-> t.key, shape |-> t.shape, cached |-> u.cached, idle |-> u.idle,
          closeIdle |-> u.closeIdle]
  /\ u.cached \in BOOLEAN /\ u.closeIdle \in BOOLEAN
  /\ u.idle \in Hellos \union {"none", "go"}
  /\ u.idle \in {"none", t.idle, hello}

\* To stay as it is, to be taken out of its cache and to lose its idle
\* connection are such changes.
LEMMA TurnsAlways ==
  ASSUME NEW t \in Transport, NEW hello \in Hellos \union {"none", "go"},
         NEW l \in BOOLEAN
  PROVE  /\ Turns(t, t, hello)
         /\ Turns(t, [t EXCEPT !.cached = l], hello)
         /\ Turns(t, [t EXCEPT !.closeIdle = l], hello)
         /\ Turns(t, [t EXCEPT !.idle = "none"], hello)
         /\ Turns(t, [t EXCEPT !.idle = hello], hello)
         /\ Turns(t, [t EXCEPT !.idle = "none", !.closeIdle = l], hello)
<1>1. /\ t = [key |-> t.key, shape |-> t.shape, cached |-> t.cached, idle |-> t.idle,
              closeIdle |-> t.closeIdle]
      /\ t.idle \in Hellos \union {"none", "go"}
  BY DEF Transport
<1>2. t.cached \in BOOLEAN /\ t.closeIdle \in BOOLEAN
  BY DEF Transport
<1>3. Turns(t, t, hello)
  BY <1>1, <1>2 DEF Turns
<1>4. ASSUME NEW u, NEW b \in BOOLEAN, NEW d \in BOOLEAN,
             NEW v \in {"none", t.idle, hello},
             u = [key |-> t.key, shape |-> t.shape, cached |-> b, idle |-> v, closeIdle |-> d]
      PROVE  Turns(t, u, hello)
  <2>1. u.cached = b /\ u.closeIdle = d /\ u.idle = v
    BY <1>4
  <2> QED BY <1>1, <1>4, <2>1 DEF Turns
<1>5. Turns(t, [t EXCEPT !.cached = l], hello)
  <2>1. [t EXCEPT !.cached = l] = [key |-> t.key, shape |-> t.shape, cached |-> l,
                                   idle |-> t.idle, closeIdle |-> t.closeIdle]
    BY <1>1
  <2> QED BY <1>2, <1>4, <2>1
<1>6. Turns(t, [t EXCEPT !.closeIdle = l], hello)
  <2>1. [t EXCEPT !.closeIdle = l] = [key |-> t.key, shape |-> t.shape, cached |-> t.cached,
                                      idle |-> t.idle, closeIdle |-> l]
    BY <1>1
  <2> QED BY <1>2, <1>4, <2>1
<1>7. ASSUME NEW v \in {"none", t.idle, hello}
      PROVE  Turns(t, [t EXCEPT !.idle = v], hello)
  <2>1. [t EXCEPT !.idle = v] = [key |-> t.key, shape |-> t.shape, cached |-> t.cached,
                                 idle |-> v, closeIdle |-> t.closeIdle]
    BY <1>1
  <2> QED BY <1>2, <1>4, <2>1
<1>8. Turns(t, [t EXCEPT !.idle = "none", !.closeIdle = l], hello)
  <2>1. [t EXCEPT !.idle = "none", !.closeIdle = l]
          = [key |-> t.key, shape |-> t.shape, cached |-> t.cached, idle |-> "none", closeIdle |-> l]
    <3> DEFINE u == [t EXCEPT !.idle = "none"]
    <3>1. u = [key |-> t.key, shape |-> t.shape, cached |-> t.cached, idle |-> "none",
               closeIdle |-> t.closeIdle]
      BY <1>1
    <3>2. [t EXCEPT !.idle = "none", !.closeIdle = l] = [u EXCEPT !.closeIdle = l]
      OBVIOUS
    <3>3. [u EXCEPT !.closeIdle = l] = [key |-> u.key, shape |-> u.shape, cached |-> u.cached,
                                        idle |-> u.idle, closeIdle |-> l]
      <4> HIDE DEF u
      <4> QED BY <3>1
    <3> QED BY <3>1, <3>2, <3>3
  <2> QED BY <1>2, <1>4, <2>1
<1>9. Turns(t, [t EXCEPT !.idle = "none"], hello) /\ Turns(t, [t EXCEPT !.idle = hello], hello)
  BY <1>7
<1> QED BY <1>3, <1>5, <1>6, <1>8, <1>9

\* The hello of a transport is one that can be sent, or none.
LEMMA HelloIsOne ==
  ASSUME UpstreamsTypeOK, NEW i \in Ids
  PROVE  HelloOf(i) \in Hellos \union {"none", "go"}
<1>1. transports[i].shape \in TransportShapes
  BY Numbered DEF Transport, UpstreamsTypeOK
<1> QED BY <1>1 DEF HelloOf, TransportShapes, Hellos, UpstreamsTypeOK

\* Changes of that kind keep the transports, and what their connections mirror.
LEMMA IdleChanges ==
  ASSUME transports \in Seq(Transport), IdleInv, UNCHANGED default,
         transports' = [i \in Ids |-> transports'[i]],
         \A i \in Ids : Turns(transports[i], transports'[i], HelloOf(i))
  PROVE  Kept /\ IdleInv'
<1>1. ASSUME NEW i \in Ids
      PROVE  /\ transports'[i] \in Transport
             /\ transports'[i].key = transports[i].key /\ transports'[i].shape = transports[i].shape
             /\ transports'[i].idle \in {"none", transports[i].idle, HelloOf(i)}
  <2> DEFINE u == transports'[i]
             t == transports[i]
  <2>1. t.key \in Egresses /\ t.shape \in TransportShapes
    BY Numbered DEF Transport
  <2>2. Turns(t, u, HelloOf(i))
    OBVIOUS
  <2> HIDE DEF u, t
  <2>3. u \in Transport /\ u.key = t.key /\ u.shape = t.shape
    BY <2>1, <2>2 DEF Turns, Transport
  <2>4. u.idle \in {"none", t.idle, HelloOf(i)}
    BY <2>2 DEF Turns
  <2> QED BY <2>3, <2>4 DEF u, t
<1>2. Kept /\ Ids' = Ids
  BY <1>1, Changed
<1>3. \A i \in Ids : HelloOf(i)' = HelloOf(i)
  BY <1>1 DEF HelloOf
<1> QED BY <1>1, <1>2, <1>3 DEF IdleInv

\* A hello that some transport's connection mirrors is not captured anew.
LEMMA TransportSteps ==
  ASSUME UpstreamsTypeOK, WayInv, UpstreamMoves \/ UNCHANGED upVars
  PROVE  Kept /\ IdleInv'
<1> USE DEF WayInv
<1>1. /\ transports \in Seq(Transport) /\ Len(transports) \in Nat /\ Ids = 1..Len(transports)
      /\ \A i \in Ids : transports[i] \in Transport
      /\ IdleInv
  BY Numbered DEF UpstreamsTypeOK
<1>2. ASSUME UNCHANGED transports
      PROVE  Kept
  BY <1>1, <1>2 DEF Kept, Ids
<1>3. ASSUME UNCHANGED <<transports, default>>
      PROVE  Kept /\ IdleInv'
  BY <1>1, <1>2, <1>3 DEF IdleInv, HelloOf, Ids
<1>4. ASSUME NEW c \in Conns, NEW h \in Hellos, CaptureHello(c, h)
      PROVE  Kept /\ IdleInv'
  <2>1. UNCHANGED transports /\ (default' = default \/ default = "none")
    BY <1>4 DEF CaptureHello
  <2>2. Ids' = Ids
    BY <2>1 DEF Ids
  <2>3. \A i \in Ids : HelloOf(i) = "none" \/ HelloOf(i)' = HelloOf(i)
    BY <2>1 DEF HelloOf
  <2> QED BY <1>1, <1>2, <2>1, <2>2, <2>3 DEF IdleInv
<1>5. ASSUME NEW c \in Conns, PickTransport(c)
      PROVE  Kept /\ IdleInv'
  <2>1. CASE UNCHANGED transports
    BY <1>3, <1>5, <2>1 DEF PickTransport
  <2>2. CASE transports' = Append(transports, NewTransport(request[c].key, request[c].shape))
    <3> DEFINE t == NewTransport(request[c].key, request[c].shape)
               n == Len(transports)
    <3>1. t \in Transport /\ t.idle = "none"
      BY DEF NewTransport, Transport, UpstreamsTypeOK, Request
    <3> HIDE DEF t
    <3>2. /\ transports' \in Seq(Transport) /\ Len(transports') = n + 1
          /\ \A i \in 1..n : transports'[i] = transports[i]
          /\ transports'[n + 1] = t /\ DOMAIN transports' = 1..(n + 1)
      BY <1>1, <2>2, <3>1 DEF t
    <3>3. Kept
      BY <1>1, <3>2 DEF Kept
    <3>4. UNCHANGED default
      BY <1>5 DEF PickTransport
    <3>5. \A i \in Ids : HelloOf(i)' = HelloOf(i)
      BY <1>1, <3>2, <3>4 DEF HelloOf
    <3>6. \A i \in Ids' : i \in Ids \/ i = n + 1
      BY <1>1, <3>2 DEF Ids
    <3> QED BY <1>1, <3>1, <3>2, <3>3, <3>5, <3>6 DEF IdleInv
  <2> QED BY <1>5, <2>1, <2>2 DEF PickTransport
<1>6. ASSUME UNCHANGED default, NEW r \in Ids, NEW u, transports' = [transports EXCEPT ![r] = u],
             Turns(transports[r], u, HelloOf(r))
      PROVE  Kept /\ IdleInv'
  <2>1. /\ transports' = [i \in Ids |-> transports'[i]]
        /\ \A i \in Ids : transports'[i] = IF i = r THEN u ELSE transports[i]
    BY <1>6 DEF Ids
  <2>2. \A i \in Ids : Turns(transports[i], transports[i], HelloOf(i))
    BY <1>1, TurnsAlways, HelloIsOne
  <2> QED BY <1>1, <1>6, <2>1, <2>2, IdleChanges
<1>7. ASSUME NEW c \in Conns, ReuseIdle(c) \/ DialUpstream(c)
      PROVE  Kept /\ IdleInv'
  <2> DEFINE r == request[c].tr
             t == transports[r]
  <2>1. UNCHANGED default /\ r \in Ids
    BY <1>7 DEF ReuseIdle, DialUpstream, WayOf
  <2>2. t \in Transport /\ HelloOf(r) \in Hellos \union {"none", "go"}
    BY <1>1, <2>1, HelloIsOne
  <2>3. \/ transports' = [transports EXCEPT ![r].idle = "none", ![r].closeIdle = FALSE]
        \/ transports' = [transports EXCEPT ![r].closeIdle = FALSE]
    BY <1>7 DEF ReuseIdle, DialUpstream
  <2> HIDE DEF r
  <2>4. \/ transports' = [transports EXCEPT ![r] = [t EXCEPT !.idle = "none", !.closeIdle = FALSE]]
        \/ transports' = [transports EXCEPT ![r] = [t EXCEPT !.closeIdle = FALSE]]
    BY <1>1, <2>1, <2>3
  <2>5. /\ Turns(t, [t EXCEPT !.idle = "none", !.closeIdle = FALSE], HelloOf(r))
        /\ Turns(t, [t EXCEPT !.closeIdle = FALSE], HelloOf(r))
    BY <2>2, TurnsAlways
  <2> QED BY <1>6, <2>1, <2>4, <2>5
<1>8. ASSUME NEW c \in Conns, RequestFinishes(c)
      PROVE  Kept /\ IdleInv'
  <2> DEFINE r == request[c].tr
             h == request[c].hello
             t == transports[r]
  <2>1. /\ UNCHANGED default /\ r \in Ids /\ h = HelloOf(r)
        /\ UNCHANGED transports \/ transports' = [transports EXCEPT ![r].idle = h]
    BY <1>8 DEF RequestFinishes, WayOf
  <2>2. t \in Transport /\ h \in Hellos \union {"none", "go"}
    BY <1>1, <2>1, HelloIsOne
  <2> HIDE DEF r, h
  <2>3. transports' = [transports EXCEPT ![r].idle = h]
          => transports' = [transports EXCEPT ![r] = [t EXCEPT !.idle = h]]
    BY <1>1, <2>1
  <2>4. Turns(t, [t EXCEPT !.idle = h], HelloOf(r))
    BY <2>1, <2>2, TurnsAlways
  <2> QED BY <1>3, <1>6, <2>1, <2>3, <2>4
<1>9. ASSUME NEW i \in Ids, IdleExpires(i)
      PROVE  Kept /\ IdleInv'
  <2> DEFINE t == transports[i]
  <2>1. UNCHANGED default /\ transports' = [transports EXCEPT ![i] = [t EXCEPT !.idle = "none"]]
    BY <1>1, <1>9 DEF IdleExpires
  <2>2. Turns(t, [t EXCEPT !.idle = "none"], HelloOf(i))
    BY <1>1, HelloIsOne, TurnsAlways
  <2> QED BY <1>6, <2>1, <2>2
<1>10. CASE DrainTakes \/ DrainCloses \/ CloseAll
  <2>1. UNCHANGED default
    BY <1>10 DEF DrainTakes, DrainCloses, CloseAll
  <2>2. ASSUME NEW i \in Ids
        PROVE  /\ transports[i] \in Transport /\ HelloOf(i) \in Hellos \union {"none", "go"}
               /\ transports[i].cached \in BOOLEAN
    BY <1>1, HelloIsOne DEF Transport
  <2>3. CASE DrainTakes
    <3> DEFINE S == {i \in Ids : transports[i].cached /\ transports[i].key # egress}
               taken(i) == transports[i].cached /\ i \notin S
    <3>1. transports' = [i \in Ids |-> [transports[i] EXCEPT !.cached = taken(i)]]
      BY <2>3 DEF DrainTakes
    <3>2. \A i \in Ids : taken(i) \in BOOLEAN
      OBVIOUS
    <3> HIDE DEF taken
    <3>3. \A i \in Ids : Turns(transports[i], [transports[i] EXCEPT !.cached = taken(i)], HelloOf(i))
      BY <2>2, <3>2, TurnsAlways
    <3> QED BY <1>1, <2>1, <3>1, <3>3, IdleChanges
  <2>4. CASE DrainCloses \/ CloseAll
    <3> DEFINE shut(i) == [transports[i] EXCEPT !.idle = "none", !.closeIdle = TRUE]
    <3>1. PICK S : transports' = [i \in Ids |-> IF i \in S THEN shut(i) ELSE transports[i]]
      BY <2>4 DEF DrainCloses, CloseAll, CloseIdle
    <3>2. \A i \in Ids : /\ Turns(transports[i], shut(i), HelloOf(i))
                         /\ Turns(transports[i], transports[i], HelloOf(i))
      BY <2>2, TurnsAlways
    <3> HIDE DEF shut
    <3> QED BY <1>1, <2>1, <3>1, <3>2, IdleChanges
  <2> QED BY <1>10, <2>3, <2>4
<1>11. CASE \/ \E c \in Conns : RequestAborts(c) \/ \E anthropic \in BOOLEAN : RequestBegins(c, anthropic)
            \/ (\E k \in Egresses : SwitchEgress(k)) \/ TakeAll \/ UNCHANGED upVars
  BY <1>3, <1>11 DEF RequestAborts, RequestBegins, SwitchEgress, TakeAll, upVars
<1> QED BY <1>4, <1>5, <1>7, <1>8, <1>9, <1>10, <1>11 DEF UpstreamMoves, RequestStep

\* A handler that runs or is over does not come to peek again.
LEMMA PlacesLast ==
  ASSUME TunnelPlaces, TunnelMoves \/ UNCHANGED tunVars,
         NEW d \in Conns, pc[d] \in {"plain", "serving", "done"}
  PROVE  pc'[d] \in {"plain", "serving", "done"}
<1> USE DEF TunnelPlaces, Goes, closing
<1>1. CASE UNCHANGED tunVars
  BY <1>1 DEF tunVars
<1>2. ASSUME NEW c \in Conns, Dispatch(c) \/ TunnelStep(c)
      PROVE  pc'[d] \in {"plain", "serving", "done"}
  BY <1>2 DEF TunnelStep, Dispatch, DialAndHijack, TrackClient, Establish, CheckClosed,
     StartCopies, HandshakeSucceeds, HandshakeFails, Register, Serve
<1>3. ASSUME NEW c \in Conns, \/ PeekSucceeds(c) \/ PeekFails(c) \/ CopyEnds(c) \/ InnerConnEnds(c)
                              \/ PlainEnds(c) \/ ServeReturns(c) \/ ShutdownInner(c)
      PROVE  pc'[d] \in {"plain", "serving", "done"}
  BY <1>3 DEF PeekSucceeds, PeekFails, CopyEnds, InnerConnEnds, PlainEnds, ServeReturns,
     ShutdownInner
<1>4. CASE \/ CloseSnapshot \/ InnerAreDown \/ CloseTracked \/ MainIsDown \/ CloseWaits
           \/ CloseExpires
           \/ /\ CloserGoes("listener", "inner") \/ CloserGoes("idleconns", "http")
              /\ UNCHANGED <<open, tracked, down>>
  BY <1>4 DEF CloseSnapshot, InnerAreDown, CloseTracked, MainIsDown, CloseWaits, CloseExpires,
     CloserGoes
<1> QED BY <1>1, <1>2, <1>3, <1>4 DEF TunnelMoves

\* A default that was captured stays.
DefaultStays == default' = default \/ default = "none"

\* What is said of a request outlasts a step that leaves it as it was.
LEMMA WayKept ==
  ASSUME Kept, DefaultStays, NEW d \in Conns, WayOf(d), UNCHANGED request,
         Busy(d) => /\ pc'[d] \in {"plain", "serving", "done"}
                    /\ shapeOf'[d] = shapeOf[d]
  PROVE  WayOf(d)'
<1> DEFINE q == request[d]
<1>1. q' = q /\ Busy(d)' = Busy(d)
  BY DEF Busy
<1>2. Busy(d)' => /\ pc'[d] \in {"plain", "serving", "done"}
                  /\ q.shape \in {"plain", IF shapeOf'[d] = "none" THEN "default" ELSE shapeOf'[d]}
  BY <1>1 DEF WayOf
<1>3. q.pc \in {"picked", "sent"} =>
        /\ q.tr \in Ids'
        /\ transports'[q.tr].key = q.key /\ transports'[q.tr].shape = q.shape
  BY DEF WayOf, Kept, Ids
<1>4. q.pc = "sent" => q.hello = HelloOf(q.tr)' /\ q.hello # "none"
  BY DEF WayOf, Kept, HelloOf, DefaultStays
<1> QED BY <1>1, <1>2, <1>3, <1>4 DEF WayOf

\* So it does when the step is another request's.
LEMMA WayOfOthers ==
  ASSUME Kept, UNCHANGED <<default, shapeOf>>, NEW d \in Conns, WayOf(d), request'[d] = request[d],
         Busy(d) => pc'[d] \in {"plain", "serving", "done"}
  PROVE  WayOf(d)'
<1> DEFINE q == request[d]
<1>1. q' = q /\ Busy(d)' = Busy(d)
  BY DEF Busy
<1>2. q.pc \in {"picked", "sent"} =>
        /\ q.tr \in Ids'
        /\ transports'[q.tr].key = q.key /\ transports'[q.tr].shape = q.shape
  BY DEF WayOf, Kept, Ids
<1>3. q.pc = "sent" => q.hello = HelloOf(q.tr)' /\ q.hello # "none"
  BY DEF WayOf, Kept, HelloOf
<1> QED BY <1>1, <1>2, <1>3 DEF WayOf

\* Each step of the upstream side keeps every request on its own way.
LEMMA WaySteps ==
  ASSUME UpstreamsTypeOK, TunnelPlaces, WayInv, TunnelMoves \/ UNCHANGED tunVars,
         UpstreamMoves \/ UNCHANGED upVars, NEW d \in Conns
  PROVE  WayOf(d)'
<1>1. Kept /\ WayOf(d) /\ IdleInv
  BY TransportSteps DEF WayInv
<1>2. /\ Busy(d) => pc[d] \in {"plain", "serving", "done"}
      /\ Busy(d) => pc'[d] \in {"plain", "serving", "done"}
  BY <1>1, PlacesLast DEF WayOf
<1>3. ASSUME NEW c \in Conns, pc[c] = "peeking", NEW h \in Hellos, CaptureHello(c, h)
      PROVE  WayOf(d)'
  <2>1. UNCHANGED request /\ DefaultStays
    BY <1>3 DEF CaptureHello, DefaultStays
  <2>2. Busy(d) => c # d
    BY <1>2, <1>3
  <2>3. c # d => shapeOf'[d] = shapeOf[d]
    BY <1>3 DEF CaptureHello, UpstreamsTypeOK
  <2> QED BY <1>1, <1>2, <2>1, <2>2, <2>3, WayKept
<1>4. ASSUME NEW c \in Conns, c # d, UNCHANGED <<default, shapeOf>>,
             NEW q, request' = [request EXCEPT ![c] = q]
      PROVE  WayOf(d)'
  <2>1. request'[d] = request[d]
    BY <1>4 DEF UpstreamsTypeOK
  <2> QED BY <1>1, <1>2, <1>4, <2>1, WayOfOthers
<1>5. ASSUME NEW c \in Conns, pc[c] \in {"plain", "serving"}, UNCHANGED pc,
             NEW anthropic \in BOOLEAN, RequestBegins(c, anthropic)
      PROVE  WayOf(d)'
  <2> DEFINE q == [NoRequest EXCEPT !.pc = "begun", !.key = egress, !.shape = ShapeFor(c, anthropic)]
  <2>1. q.pc = "begun" /\ q.shape = ShapeFor(c, anthropic)
    BY DEF NoRequest
  <2>2. request' = [request EXCEPT ![c] = q] /\ UNCHANGED <<default, shapeOf>>
    BY <1>5 DEF RequestBegins
  <2> HIDE DEF q
  <2>3. CASE c = d
    <3>1. request'[d] = q
      BY <2>2, <2>3 DEF UpstreamsTypeOK
    <3>2. q.shape \in {"plain", IF shapeOf[d] = "none" THEN "default" ELSE shapeOf[d]}
      BY <2>1, <2>3 DEF ShapeFor
    <3> QED BY <1>5, <2>1, <2>2, <2>3, <3>1, <3>2 DEF WayOf
  <2> QED BY <1>4, <2>2, <2>3
<1>6. ASSUME NEW c \in Conns, PickTransport(c)
      PROVE  WayOf(d)'
  <2> DEFINE q == request[c]
             found == {i \in Ids : Matches(i, q.key, q.shape)}
             tr == IF found # {} THEN CHOOSE i \in found : TRUE ELSE Len(transports) + 1
             t == NewTransport(q.key, q.shape)
  <2>1. /\ request' = [request EXCEPT ![c].pc = "picked", ![c].tr = tr]
        /\ transports' = IF found # {} THEN transports ELSE Append(transports, t)
        /\ UNCHANGED <<default, shapeOf>> /\ q.pc = "begun"
    BY <1>6 DEF PickTransport
  <2>2. tr \in Ids' /\ transports'[tr].key = q.key /\ transports'[tr].shape = q.shape
    <3>1. CASE found # {}
      <4>1. UNCHANGED transports /\ tr \in found
        BY <2>1, <3>1
      <4> QED BY <4>1 DEF Matches, Ids
    <3>2. CASE found = {}
      <4>1. tr = Len(transports) + 1 /\ transports' = Append(transports, t)
        BY <2>1, <3>2
      <4>2. t \in Transport /\ t.key = q.key /\ t.shape = q.shape
        BY DEF NewTransport, Transport, UpstreamsTypeOK
      <4> HIDE DEF tr, t
      <4>3. tr \in DOMAIN transports' /\ transports'[tr] = t
        BY <4>1, <4>2, Numbered DEF UpstreamsTypeOK
      <4> QED BY <4>2, <4>3 DEF Ids
    <3> QED BY <3>1, <3>2
  <2> HIDE DEF tr, found
  <2>3. CASE c = d
    <3>1. /\ request'[d].pc = "picked" /\ request'[d].tr = tr
          /\ request'[d].key = q.key /\ request'[d].shape = q.shape
      BY <2>1, <2>3 DEF UpstreamsTypeOK
    <3>2. Busy(d) /\ q.shape \in {"plain", IF shapeOf[d] = "none" THEN "default" ELSE shapeOf[d]}
      BY <1>1, <2>1, <2>3 DEF Busy, WayOf
    <3> QED BY <1>2, <2>1, <2>2, <2>3, <3>1, <3>2 DEF WayOf
  <2>4. request' = [request EXCEPT ![c] = [q EXCEPT !.pc = "picked", !.tr = tr]]
    BY <2>1 DEF UpstreamsTypeOK
  <2> QED BY <1>4, <2>1, <2>3, <2>4
<1>7. ASSUME NEW c \in Conns, UNCHANGED <<default, shapeOf>>, request[c].pc = "picked",
             NEW h, h = HelloOf(request[c].tr), h # "none",
             request' = [request EXCEPT ![c].pc = "sent", ![c].hello = h]
      PROVE  WayOf(d)'
  <2> DEFINE q == request[c]
  <2>1. CASE c = d
    <3>1. /\ request'[d].pc = "sent" /\ request'[d].hello = h
          /\ request'[d].key = q.key /\ request'[d].shape = q.shape /\ request'[d].tr = q.tr
      BY <1>7, <2>1 DEF UpstreamsTypeOK
    <3>2. /\ q.tr \in Ids /\ Busy(d)
          /\ transports[q.tr].key = q.key /\ transports[q.tr].shape = q.shape
          /\ q.shape \in {"plain", IF shapeOf[d] = "none" THEN "default" ELSE shapeOf[d]}
      BY <1>1, <1>7, <2>1 DEF WayOf, Busy
    <3>3. /\ q.tr \in Ids'
          /\ transports'[q.tr].key = q.key /\ transports'[q.tr].shape = q.shape
      BY <1>1, <3>2 DEF Kept, Ids
    <3>4. HelloOf(q.tr)' = HelloOf(q.tr)
      BY <1>7, <2>1, <3>1, <3>2, <3>3 DEF HelloOf
    <3> QED BY <1>2, <1>7, <2>1, <3>1, <3>2, <3>3, <3>4 DEF WayOf
  <2>2. request' = [request EXCEPT ![c] = [q EXCEPT !.pc = "sent", !.hello = h]]
    BY <1>7 DEF UpstreamsTypeOK
  <2> QED BY <1>4, <1>7, <2>1, <2>2
<1>8. ASSUME NEW c \in Conns, UNCHANGED <<default, shapeOf>>,
             request' = [request EXCEPT ![c].pc = "over"]
      PROVE  WayOf(d)'
  <2>1. c = d => request'[d].pc = "over"
    BY <1>8 DEF UpstreamsTypeOK
  <2>2. request' = [request EXCEPT ![c] = [request[c] EXCEPT !.pc = "over"]]
    BY <1>8 DEF UpstreamsTypeOK
  <2> QED BY <1>4, <1>8, <2>1, <2>2 DEF WayOf, Busy
<1>9. ASSUME NEW c \in Conns, ReuseIdle(c)
      PROVE  WayOf(d)'
  <2> DEFINE i == request[c].tr
             h == transports[i].idle
  <2>1. /\ UNCHANGED <<default, shapeOf>> /\ request[c].pc = "picked" /\ h # "none"
        /\ request' = [request EXCEPT ![c].pc = "sent", ![c].hello = h]
    BY <1>9 DEF ReuseIdle
  <2>2. i \in Ids
    BY <2>1 DEF WayInv, WayOf
  <2>3. h = HelloOf(i)
    BY <1>1, <2>1, <2>2 DEF IdleInv
  <2> QED BY <1>7, <2>1, <2>3
<1>10. ASSUME NEW c \in Conns, DialUpstream(c) \/ RequestFinishes(c) \/ RequestAborts(c)
       PROVE  WayOf(d)'
  <2>1. UNCHANGED <<default, shapeOf>>
    BY <1>10 DEF DialUpstream, RequestFinishes, RequestAborts
  <2>2. \/ request' = [request EXCEPT ![c].pc = "over"]
        \/ /\ request[c].pc = "picked" /\ HelloOf(request[c].tr) \notin {"none", "broken"}
           /\ request' = [request EXCEPT ![c].pc = "sent", ![c].hello = HelloOf(request[c].tr)]
    BY <1>10 DEF DialUpstream, RequestFinishes, RequestAborts
  <2> QED BY <1>7, <1>8, <2>1, <2>2
<1>11. CASE \/ (\E k \in Egresses : SwitchEgress(k)) \/ DrainTakes \/ DrainCloses
            \/ (\E i \in Ids : IdleExpires(i)) \/ TakeAll \/ CloseAll \/ UNCHANGED upVars
  <2>1. UNCHANGED <<default, shapeOf, request>>
    BY <1>11 DEF SwitchEgress, DrainTakes, DrainCloses, IdleExpires, TakeAll, CloseAll, upVars
  <2> QED BY <1>1, <1>2, <2>1, WayOfOthers
<1> QED BY <1>3, <1>5, <1>6, <1>9, <1>10, <1>11 DEF UpstreamMoves, RequestStep

\* The fields of a request after a step that changes some of them.
LEMMA RequestFields ==
  ASSUME NEW r, r = [pc |-> r.pc, key |-> r.key, shape |-> r.shape, tr |-> r.tr, hello |-> r.hello],
         NEW p, NEW n, NEW h
  PROVE  /\ [r EXCEPT !.pc = p]
              = [pc |-> p, key |-> r.key, shape |-> r.shape, tr |-> r.tr, hello |-> r.hello]
         /\ [r EXCEPT !.pc = p, !.tr = n]
              = [pc |-> p, key |-> r.key, shape |-> r.shape, tr |-> n, hello |-> r.hello]
         /\ [r EXCEPT !.pc = p, !.hello = h]
              = [pc |-> p, key |-> r.key, shape |-> r.shape, tr |-> r.tr, hello |-> h]
<1> DEFINE u == [r EXCEPT !.pc = p]
<1>1. u = [pc |-> p, key |-> r.key, shape |-> r.shape, tr |-> r.tr, hello |-> r.hello]
  OBVIOUS
<1>2. /\ [r EXCEPT !.pc = p, !.tr = n] = [u EXCEPT !.tr = n]
      /\ [r EXCEPT !.pc = p, !.hello = h] = [u EXCEPT !.hello = h]
  OBVIOUS
<1> HIDE DEF u
<1>3. [u EXCEPT !.tr = n] = [pc |-> p, key |-> r.key, shape |-> r.shape, tr |-> n, hello |-> r.hello]
  BY <1>1
<1>4. [u EXCEPT !.hello = h] = [pc |-> p, key |-> r.key, shape |-> r.shape, tr |-> r.tr, hello |-> h]
  BY <1>1
<1> QED BY <1>1, <1>2, <1>3, <1>4 DEF u

\* The requests of the connections keep their type, however many transports
\* there are by then.
LEMMA RequestTypes ==
  ASSUME UpstreamsTypeOK, WayInv, Kept, UpstreamMoves \/ UNCHANGED upVars
  PROVE  request' \in [Conns -> Request(Len(transports'))]
<1> DEFINE R == Request(Len(transports))
           S == Request(Len(transports'))
<1>1. request \in [Conns -> R]
  BY DEF UpstreamsTypeOK, Request
<1>2. R \subseteq S
  BY Numbered DEF Kept, Request, UpstreamsTypeOK
<1>3. ASSUME NEW q
      PROVE  q \in S <=> /\ q = [pc |-> q.pc, key |-> q.key, shape |-> q.shape, tr |-> q.tr,
                                 hello |-> q.hello]
                         /\ q.pc \in {"none", "begun", "picked", "sent", "over"}
                         /\ q.key \in Egresses /\ q.shape \in TransportShapes
                         /\ q.tr \in 0..Len(transports') /\ q.hello \in Hellos \union {"none", "go"}
  BY DEF Request
<1>4. ASSUME NEW c \in Conns, NEW q \in S, request' = [request EXCEPT ![c] = q]
      PROVE  request' \in [Conns -> S]
  <2> HIDE DEF S, R
  <2> QED BY <1>1, <1>2, <1>4
<1>5. CASE UNCHANGED request
  <2> HIDE DEF S, R
  <2>1. request \in [Conns -> S]
    BY <1>1, <1>2
  <2> QED BY <1>5, <2>1 DEF S
<1>6. ASSUME NEW c \in Conns, NEW anthropic \in BOOLEAN, RequestBegins(c, anthropic)
      PROVE  request' \in [Conns -> S]
  <2> DEFINE q == [NoRequest EXCEPT !.pc = "begun", !.key = egress, !.shape = ShapeFor(c, anthropic)]
  <2>1. request' = [request EXCEPT ![c] = q]
    BY <1>6 DEF RequestBegins
  <2>2. q = [pc |-> "begun", key |-> egress, shape |-> ShapeFor(c, anthropic), tr |-> 0,
             hello |-> "none"]
    <3>1. NoRequest = [pc |-> "none", key |-> NoRequest.key, shape |-> NoRequest.shape,
                       tr |-> NoRequest.tr, hello |-> NoRequest.hello]
          /\ NoRequest.pc = "none" /\ NoRequest.tr = 0 /\ NoRequest.hello = "none"
      BY DEF NoRequest
    <3> DEFINE n == NoRequest
               k == egress
               s == ShapeFor(c, anthropic)
    <3>2. q = [n EXCEPT !.pc = "begun", !.key = k, !.shape = s]
      OBVIOUS
    <3> HIDE DEF n, k, s, q
    <3>3. n = [pc |-> n.pc, key |-> n.key, shape |-> n.shape, tr |-> n.tr, hello |-> n.hello]
          /\ n.tr = 0 /\ n.hello = "none"
      BY <3>1 DEF n
    <3>4. [n EXCEPT !.pc = "begun", !.key = k, !.shape = s]
            = [pc |-> "begun", key |-> k, shape |-> s, tr |-> n.tr, hello |-> n.hello]
      <4> DEFINE u == [n EXCEPT !.pc = "begun"]
                 w == [u EXCEPT !.key = k]
      <4>1. [n EXCEPT !.pc = "begun", !.key = k, !.shape = s] = [w EXCEPT !.shape = s]
        OBVIOUS
      <4>2. u = [pc |-> "begun", key |-> n.key, shape |-> n.shape, tr |-> n.tr, hello |-> n.hello]
        BY <3>3
      <4> HIDE DEF u
      <4>3. w = [pc |-> "begun", key |-> k, shape |-> n.shape, tr |-> n.tr, hello |-> n.hello]
        BY <4>2
      <4> HIDE DEF w
      <4> QED BY <4>1, <4>3
    <3> QED BY <3>2, <3>3, <3>4 DEF k, s
  <2>3. ShapeFor(c, anthropic) \in TransportShapes
    BY DEF ShapeFor, TransportShapes, UpstreamsTypeOK
  <2>4. 0 \in 0..Len(transports')
    BY DEF Kept
  <2>5. egress \in Egresses
    BY DEF UpstreamsTypeOK
  <2> HIDE DEF q
  <2>6. q \in S
    <3> HIDE DEF S
    <3> QED BY <1>3, <2>2, <2>3, <2>4, <2>5
  <2> QED BY <1>4, <2>1, <2>6
<1>7. ASSUME NEW c \in Conns, NEW tr \in Ids', request' = [request EXCEPT ![c].pc = "picked", ![c].tr = tr]
      PROVE  request' \in [Conns -> S]
  <2> DEFINE r == request[c]
             q == [pc |-> "picked", key |-> r.key, shape |-> r.shape, tr |-> tr, hello |-> r.hello]
  <2>1. r \in R
    BY <1>1
  <2>2. request' = [request EXCEPT ![c] = q]
    <3>1. r = [pc |-> r.pc, key |-> r.key, shape |-> r.shape, tr |-> r.tr, hello |-> r.hello]
      BY <2>1 DEF Request
    <3>2. request' = [request EXCEPT ![c] = [r EXCEPT !.pc = "picked", !.tr = tr]]
      BY <1>1, <1>7
    <3>3. [r EXCEPT !.pc = "picked", !.tr = tr] = q
      BY <3>1, RequestFields
    <3> QED BY <3>2, <3>3
  <2>3. tr \in 0..Len(transports')
    BY LenProperties DEF Kept, Ids
  <2>4. q \in S
    BY <2>1, <2>3 DEF Request
  <2> HIDE DEF q
  <2> QED BY <1>4, <2>2, <2>4
<1>8. ASSUME NEW c \in Conns, NEW i \in Ids, NEW h \in Hellos \union {"none", "go"},
             request' = [request EXCEPT ![c].pc = "sent", ![c].hello = h]
      PROVE  request' \in [Conns -> S]
  <2> DEFINE r == request[c]
             q == [pc |-> "sent", key |-> r.key, shape |-> r.shape, tr |-> r.tr, hello |-> h]
  <2>1. r \in R /\ r \in S
    BY <1>1, <1>2
  <2>2. request' = [request EXCEPT ![c] = q]
    <3>1. r = [pc |-> r.pc, key |-> r.key, shape |-> r.shape, tr |-> r.tr, hello |-> r.hello]
      BY <2>1 DEF Request
    <3>2. request' = [request EXCEPT ![c] = [r EXCEPT !.pc = "sent", !.hello = h]]
      BY <1>1, <1>8
    <3>3. [r EXCEPT !.pc = "sent", !.hello = h] = q
      BY <3>1, RequestFields
    <3> QED BY <3>2, <3>3
  <2>3. q \in S
    BY <2>1 DEF Request
  <2> HIDE DEF q
  <2> QED BY <1>4, <2>2, <2>3
<1>9. ASSUME NEW c \in Conns, request' = [request EXCEPT ![c].pc = "over"]
      PROVE  request' \in [Conns -> S]
  <2> DEFINE r == request[c]
             q == [pc |-> "over", key |-> r.key, shape |-> r.shape, tr |-> r.tr, hello |-> r.hello]
  <2>1. r \in S
    BY <1>1, <1>2
  <2>2. request' = [request EXCEPT ![c] = q]
    <3>1. r = [pc |-> r.pc, key |-> r.key, shape |-> r.shape, tr |-> r.tr, hello |-> r.hello]
      BY <2>1 DEF Request
    <3>2. request' = [request EXCEPT ![c] = [r EXCEPT !.pc = "over"]]
      BY <1>1, <1>9
    <3>3. [r EXCEPT !.pc = "over"] = q
      BY <3>1, RequestFields
    <3> QED BY <3>2, <3>3
  <2>3. q \in S
    BY <2>1 DEF Request
  <2> HIDE DEF q
  <2> QED BY <1>4, <2>2, <2>3
<1> HIDE DEF S, R
<1>10. ASSUME NEW c \in Conns, PickTransport(c)
       PROVE  request' \in [Conns -> S]
  <2> DEFINE q == request[c]
             found == {i \in Ids : Matches(i, q.key, q.shape)}
             tr == IF found # {} THEN CHOOSE i \in found : TRUE ELSE Len(transports) + 1
             t == NewTransport(q.key, q.shape)
  <2>1. /\ request' = [request EXCEPT ![c].pc = "picked", ![c].tr = tr]
        /\ transports' = IF found # {} THEN transports ELSE Append(transports, t)
    BY <1>10 DEF PickTransport
  <2>2. CASE found # {}
    BY <1>7, <2>1, <2>2 DEF Ids
  <2>3. CASE found = {}
    <3>1. t \in Transport
      BY DEF NewTransport, Transport, UpstreamsTypeOK
    <3> HIDE DEF t
    <3>2. Len(transports) + 1 \in DOMAIN transports'
      BY <2>1, <2>3, <3>1, Numbered DEF UpstreamsTypeOK
    <3> QED BY <1>7, <2>1, <2>3, <3>2 DEF Ids
  <2> QED BY <2>2, <2>3
<1>11. ASSUME NEW c \in Conns, ReuseIdle(c) \/ DialUpstream(c)
       PROVE  request' \in [Conns -> S]
  <2> DEFINE i == request[c].tr
  <2>1. i \in Ids
    BY <1>11 DEF ReuseIdle, DialUpstream, WayInv, WayOf
  <2>2. HelloOf(i) \in Hellos \union {"none", "go"}
    BY <2>1, HelloIsOne
  <2>3. transports[i].idle \in Hellos \union {"none", "go"}
    BY <2>1, Numbered DEF UpstreamsTypeOK, Transport
  <2> QED BY <1>8, <1>9, <1>11, <2>1, <2>2, <2>3 DEF ReuseIdle, DialUpstream
<1>12. ASSUME NEW c \in Conns, RequestFinishes(c) \/ RequestAborts(c)
       PROVE  request' \in [Conns -> S]
  BY <1>9, <1>12 DEF RequestFinishes, RequestAborts
<1>13. CASE \/ \E c \in Conns : \E h \in Hellos : CaptureHello(c, h)
            \/ (\E k \in Egresses : SwitchEgress(k)) \/ DrainTakes \/ DrainCloses
            \/ (\E i \in Ids : IdleExpires(i)) \/ TakeAll \/ CloseAll \/ UNCHANGED upVars
  BY <1>5, <1>13 DEF CaptureHello, SwitchEgress, DrainTakes, DrainCloses, IdleExpires, TakeAll,
     CloseAll, upVars
<1> QED BY <1>6, <1>10, <1>11, <1>12, <1>13 DEF UpstreamMoves, RequestStep, S

\* The hello stacks stay within their bound.
LEMMA StackTypes ==
  ASSUME UpstreamsTypeOK, IsFiniteSet(stacks), UpstreamMoves \/ UNCHANGED upVars
  PROVE  /\ stacks' \subseteq Shapes /\ IsFiniteSet(stacks') /\ Cardinality(stacks') <= MaxHelloStacks
         /\ shapeOf' \in [Conns -> Shapes \union {"none"}]
         /\ egress' \in Egresses /\ default' \in Hellos \union {"none"}
<1> USE DEF UpstreamsTypeOK
<1>1. ASSUME NEW c \in Conns, NEW h \in Hellos, CaptureHello(c, h)
      PROVE  /\ stacks' \subseteq Shapes /\ IsFiniteSet(stacks')
             /\ Cardinality(stacks') <= MaxHelloStacks
             /\ shapeOf' \in [Conns -> Shapes \union {"none"}]
             /\ egress' \in Egresses /\ default' \in Hellos \union {"none"}
  <2> DEFINE known == h \in Shapes /\ (h \in stacks \/ Cardinality(stacks) < MaxHelloStacks)
  <2>1. /\ stacks' = IF known THEN stacks \union {h} ELSE stacks
        /\ shapeOf' = [shapeOf EXCEPT ![c] = IF known THEN h ELSE "none"]
        /\ UNCHANGED egress /\ default' \in {default, h}
    BY <1>1 DEF CaptureHello
  <2>2. Cardinality(stacks) \in Nat /\ MaxHelloStacks \in Nat
    BY FS_CardinalityType, UpstreamsAssumption
  <2>3. CASE known /\ h \notin stacks
    <3>1. Cardinality(stacks \union {h}) = Cardinality(stacks) + 1 /\ IsFiniteSet(stacks \union {h})
      BY <2>3, FS_AddElement
    <3> QED BY <2>1, <2>2, <2>3, <3>1
  <2>4. CASE known /\ h \in stacks
    <3>1. stacks' = stacks
      BY <2>1, <2>4
    <3> QED BY <2>1, <2>4, <3>1
  <2>5. CASE ~known
    BY <2>1, <2>5
  <2> QED BY <2>3, <2>4, <2>5
<1>2. CASE \/ \E c \in Conns : \/ \E anthropic \in BOOLEAN : RequestBegins(c, anthropic)
                               \/ RequestStep(c) \/ RequestFinishes(c) \/ RequestAborts(c)
           \/ DrainTakes \/ DrainCloses
           \/ (\E i \in Ids : IdleExpires(i)) \/ TakeAll \/ CloseAll \/ UNCHANGED upVars
  <2>1. UNCHANGED <<stacks, shapeOf, egress, default>>
    BY <1>2 DEF RequestBegins, RequestStep, PickTransport, ReuseIdle, DialUpstream,
       RequestFinishes, RequestAborts, DrainTakes, DrainCloses, IdleExpires, TakeAll, CloseAll, upVars
  <2> QED BY <2>1
<1>3. ASSUME NEW k \in Egresses, SwitchEgress(k)
      PROVE  UNCHANGED <<stacks, shapeOf, default>> /\ egress' \in Egresses
  BY <1>3 DEF SwitchEgress
<1> QED BY <1>1, <1>2, <1>3 DEF UpstreamMoves

\* The transports a switch or Close has taken are transports still.
LEMMA TakenTypes ==
  ASSUME UpstreamsTypeOK, Kept, UpstreamMoves \/ UNCHANGED upVars
  PROVE  drain' \in [pc : {"idle", "due", "taken"}, list : SUBSET Ids'] /\ toClose' \subseteq Ids'
<1>1. Ids \subseteq Ids'
  BY DEF Kept, Ids
<1> USE DEF UpstreamsTypeOK
<1>2. CASE \/ \E c \in Conns : \/ \E h \in Hellos : CaptureHello(c, h)
                               \/ \E anthropic \in BOOLEAN : RequestBegins(c, anthropic)
                               \/ RequestStep(c) \/ RequestFinishes(c) \/ RequestAborts(c)
           \/ (\E i \in Ids : IdleExpires(i)) \/ CloseAll \/ UNCHANGED upVars
  <2>1. UNCHANGED <<drain, toClose>>
    BY <1>2 DEF CaptureHello, RequestBegins, RequestStep, PickTransport, ReuseIdle, DialUpstream,
       RequestFinishes, RequestAborts, IdleExpires, CloseAll, upVars
  <2> QED BY <1>1, <2>1
<1>3. CASE TakeAll
  BY <1>1, <1>3 DEF TakeAll
<1>4. CASE DrainTakes
  <2> DEFINE taken == {i \in Ids : transports[i].cached /\ transports[i].key # egress}
  <2>1. UNCHANGED toClose /\ drain' = [pc |-> "taken", list |-> taken]
    BY <1>4 DEF DrainTakes
  <2>2. taken \subseteq Ids'
    BY <1>1
  <2> HIDE DEF taken
  <2> QED BY <1>1, <2>1, <2>2
<1>5. CASE DrainCloses
  BY <1>1, <1>5 DEF DrainCloses
<1>6. ASSUME NEW k \in Egresses, SwitchEgress(k)
      PROVE  /\ drain' \in [pc : {"idle", "due", "taken"}, list : SUBSET Ids']
             /\ toClose' \subseteq Ids'
  <2>1. UNCHANGED toClose /\ drain' = [drain EXCEPT !.pc = "due"]
    BY <1>6 DEF SwitchEgress
  <2> QED BY <1>1, <2>1
<1> QED BY <1>2, <1>3, <1>4, <1>5, <1>6 DEF UpstreamMoves

-----------------------------------------------------------------------------
(* The proxy. *)

\* The proxy starts with nothing of its own.
LEMMA ProxyStarts ==
  ASSUME ProxyInit
  PROVE  ProxyInv
<1> USE DEF ProxyInit
<1>1. LocalPeerTypeOK
  BY DEF LocalPeerInit, LocalPeerTypeOK
<1>2. TunnelsTypeOK
  BY TunnelTypeParts DEF TunnelsInit, TunnelFlags, TunnelPlaces, TunnelSockets
<1>3. UpstreamsTypeOK
  <2>1. transports = <<>> /\ transports \in Seq(Transport) /\ Len(transports) = 0
    BY EmptySeq DEF UpstreamsInit
  <2>2. NoRequest \in Request(0)
    BY UpstreamsAssumption DEF NoRequest, Request, TransportShapes
  <2>3. request \in [Conns -> Request(Len(transports))]
    BY <2>1, <2>2 DEF UpstreamsInit
  <2>4. stacks \subseteq Shapes /\ Cardinality(stacks) <= MaxHelloStacks
    BY FS_EmptySet, UpstreamsAssumption DEF UpstreamsInit
  <2>5. /\ egress \in Egresses /\ default \in Hellos \union {"none"} /\ toClose \subseteq Ids
        /\ drain \in [pc : {"idle", "due", "taken"}, list : SUBSET Ids]
        /\ shapeOf \in [Conns -> Shapes \union {"none"}]
    BY UpstreamsAssumption DEF UpstreamsInit, Hellos
  <2> QED BY <2>1, <2>3, <2>4, <2>5 DEF UpstreamsTypeOK, Request
<1>4. TrackedInv
  BY DEF TunnelsInit, TrackedInv, Announced, Held, NoTunnelSurvives
<1>5. WgInv
  <2>1. In("copying") = {} /\ In("serving") = {} /\ wg = 0
    BY DEF TunnelsInit, In
  <2> QED BY <2>1, FS_EmptySet DEF WgInv
<1>6. WayInv
  <2>1. IsFiniteSet(stacks) /\ Ids = {}
    BY FS_EmptySet DEF UpstreamsInit, Ids
  <2>2. \A c \in Conns : request[c].pc = "none"
    BY DEF UpstreamsInit, NoRequest
  <2> QED BY <2>1, <2>2 DEF WayInv, IdleInv, WayOf, Busy
<1> QED BY <1>1, <1>2, <1>3, <1>4, <1>5, <1>6 DEF ProxyInv, TypeOK

\* Every step keeps the invariant.
LEMMA ProxySteps ==
  ASSUME ProxyInv, [Next]_vars
  PROVE  ProxyInv'
<1>1. /\ PortMoves \/ UNCHANGED lpVars
      /\ TunnelMoves \/ UNCHANGED tunVars
      /\ UpstreamMoves \/ UNCHANGED upVars
  BY Parts
<1>2. /\ LocalPeerTypeOK /\ UpstreamsTypeOK
      /\ TunnelFlags /\ TunnelPlaces /\ TunnelSockets
      /\ TrackedInv /\ WgInv /\ WayInv
  BY TunnelTypeParts DEF ProxyInv, TypeOK
<1>3. LocalPeerTypeOK'
  BY <1>1, <1>2, PortTypes
<1>4. TrackedInv' /\ WgInv'
  BY <1>1, <1>2, TrackedSteps, WgSteps
<1>5. TunnelsTypeOK'
  <2>1. TunnelFlags' /\ TunnelPlaces' /\ TunnelSockets'
    BY <1>1, <1>2, TunnelFlagsKept, TunnelPlacesKept, TunnelSocketsKept
  <2>2. WgInv' => (wg \in Nat)'
    BY WgType, PTL
  <2> QED BY <1>4, <2>1, <2>2 DEF TunnelsTypeOK, TunnelFlags, TunnelPlaces, TunnelSockets
<1>6. Kept /\ IdleInv'
  BY <1>1, <1>2, TransportSteps
<1>7. IsFiniteSet(stacks)
  BY <1>2 DEF WayInv
<1>8. UpstreamsTypeOK'
  <2>1. request' \in [Conns -> Request(Len(transports'))]
    BY <1>1, <1>2, <1>6, RequestTypes
  <2>2. /\ stacks' \subseteq Shapes /\ Cardinality(stacks') <= MaxHelloStacks
        /\ shapeOf' \in [Conns -> Shapes \union {"none"}]
        /\ egress' \in Egresses /\ default' \in Hellos \union {"none"}
    BY <1>1, <1>2, <1>7, StackTypes
  <2>3. drain' \in [pc : {"idle", "due", "taken"}, list : SUBSET Ids'] /\ toClose' \subseteq Ids'
    BY <1>1, <1>2, <1>6, TakenTypes
  <2>4. transports' \in Seq(Transport)
    BY <1>6 DEF Kept
  <2> QED BY <2>1, <2>2, <2>3, <2>4 DEF UpstreamsTypeOK, Request
<1>9. WayInv'
  <2>1. IsFiniteSet(stacks')
    BY <1>1, <1>2, <1>7, StackTypes
  <2>2. \A d \in Conns : WayOf(d)'
    BY <1>1, <1>2, WaySteps
  <2> QED BY <1>6, <2>1, <2>2 DEF WayInv
<1> QED BY <1>3, <1>4, <1>5, <1>8, <1>9 DEF ProxyInv, TypeOK

\* The proxy whole, from its start (proxy.go:91): types, what of a tunnel is
\* tracked, what wg counts and which way each request takes.
THEOREM ProxyInvariant == ProxySpec => []ProxyInv
<1>1. ProxyInit => ProxyInv
  BY ProxyStarts
<1>2. ProxyInv /\ [Next]_vars => ProxyInv'
  BY ProxySteps
<1> QED BY <1>1, <1>2, PTL DEF ProxySpec

\* A request leaves over the egress it captured and mirrors its own client's
\* hello (nativetls.go:221).
THEOREM SpecOwnWayOut == ProxySpec => []OwnWayOut
<1>1. ProxyInv => OwnWayOut
  <2> SUFFICES ASSUME ProxyInv, NEW c \in Conns, request[c].pc = "sent"
               PROVE  LET q == request[c]
                      IN  /\ transports[q.tr].key = q.key
                          /\ q.hello = IF q.shape = "plain" THEN "go"
                                       ELSE IF shapeOf[c] # "none" THEN shapeOf[c] ELSE default
    BY DEF OwnWayOut
  <2> DEFINE q == request[c]
  <2>1. WayOf(c) /\ Busy(c)
    BY DEF ProxyInv, WayInv, Busy
  <2>2. /\ transports[q.tr].key = q.key /\ transports[q.tr].shape = q.shape
        /\ q.shape \in {"plain", IF shapeOf[c] = "none" THEN "default" ELSE shapeOf[c]}
        /\ q.hello = HelloOf(q.tr)
    BY <2>1 DEF WayOf
  <2>3. shapeOf[c] \notin {"plain", "default"}
    BY UpstreamsAssumption DEF ProxyInv, TypeOK, UpstreamsTypeOK
  <2> QED BY <2>2, <2>3 DEF HelloOf
<1> QED BY <1>1, ProxyInvariant, PTL

\* Close is final (proxy.go:91, listener.go:98): no tunnel runs behind it with
\* an open socket, and no connection is yielded to a handler.
THEOREM SpecCloseIsFinal == ProxySpec => CloseIsFinal
<1> DEFINE Quits == port = "closed" => \A c \in Conns : ~Moves(c, "offered", "yielded")
<1>1. ProxyInv => TypeOK /\ NoTunnelSurvives
  BY DEF ProxyInv, TrackedInv
<1>2. ProxyInv /\ [Next]_vars => [Quits]_vars
  BY Parts, YieldsWhileOpen DEF ProxyInv, TypeOK
<1>3. ProxySpec => [](TypeOK /\ NoTunnelSurvives)
  BY <1>1, ProxyInvariant, PTL
<1>4. ProxySpec => [][Quits]_vars
  BY <1>2, ProxyInvariant, PTL DEF ProxySpec
<1> QED BY <1>3, <1>4 DEF CloseIsFinal, ClosedYieldsNothing
=============================================================================
