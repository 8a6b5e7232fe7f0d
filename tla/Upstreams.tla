------------------------------ MODULE Upstreams ------------------------------
(***************************************************************************)
(* The upstream side of the proxy whose connections Tunnels has: the       *)
(* ClientHello shapes seen on them, the transports cached per egress and   *)
(* shape, and the request each connection sends over one of them.          *)
(*                                                                         *)
(* Sources: internal/supervisor/{hellostack,clienthello,nativetls,         *)
(* routeresolve}.go.  A hello is its shape; what net/http's Transport does *)
(* with idle connections is modelled from how those files use it.          *)
(***************************************************************************)
EXTENDS Tunnels, Sequences

CONSTANTS
  Egresses,       \* transport keys of the egress configurations
  FirstEgress,    \* the one in force when the proxy starts
  Shapes,         \* ClientHello shapes that can be mirrored
  MaxHelloStacks, \* maxHelloStacks
  NativeTLS,      \* the live posture's nativeTLS, fixed at launch
  PinnedHello     \* CCWRAP_NATIVE_TLS_HELLO, or "none"

ASSUME UpstreamsAssumption ==
  /\ MaxHelloStacks \in Nat
  /\ FirstEgress \in Egresses
  /\ NativeTLS \in BOOLEAN
  /\ PinnedHello \in Shapes \union {"none"}
  /\ Shapes \cap {"none", "plain", "default", "h2", "broken"} = {}

VARIABLES
  egress,     \* the egress of the posture in force
  drain,      \* a switch's drain: [pc, list of transports taken to close]
  toClose,    \* the transports Close took from the caches
  default,    \* sess.mirroredHelloRaw
  stacks,     \* sess.helloStacks
  shapeOf,    \* the stack captured on each connection, or "none"
  transports, \* every transport made: [key, shape, cached, idle, closeIdle]
  request     \* the request each connection serves: [pc, key, shape, tr, hello]

upVars == <<egress, drain, toClose, default, stacks, shapeOf, transports, request>>

\* "h2" offers HTTP/2, "broken" does not parse.
Hellos == Shapes \union {"h2", "broken"}

NoRequest == [pc |-> "none", key |-> FirstEgress, shape |-> "plain",
              tr |-> 0, hello |-> "none"]
Busy(c) == request[c].pc \in {"begun", "picked", "sent"}

Ids == DOMAIN transports
TransportShapes == Shapes \union {"plain", "default"}
Transport == [key : Egresses, shape : TransportShapes, cached : BOOLEAN,
              idle : Hellos \union {"none", "go"}, closeIdle : BOOLEAN]

UpstreamsTypeOK ==
  /\ egress \in Egresses
  /\ drain \in [pc : {"idle", "due", "taken"}, list : SUBSET Ids]
  /\ toClose \subseteq Ids
  /\ default \in Hellos \union {"none"}
  /\ stacks \subseteq Shapes /\ Cardinality(stacks) <= MaxHelloStacks
  /\ shapeOf \in [Conns -> Shapes \union {"none"}]
  /\ transports \in Seq(Transport)
  /\ request \in [Conns -> [pc : {"none", "begun", "picked", "sent", "over"},
                            key : Egresses, shape : TransportShapes,
                            tr : 0..Len(transports),
                            hello : Hellos \union {"none", "go"}]]

UpstreamsInit ==
  /\ egress = FirstEgress
  /\ drain = [pc |-> "idle", list |-> {}]
  /\ toClose = {}
  /\ default = PinnedHello
  /\ stacks = {}
  /\ shapeOf = [c \in Conns |-> "none"]
  /\ transports = <<>>
  /\ request = [c \in Conns |-> NoRequest]

\* captureClientHello: the first hello that does not offer HTTP/2 becomes the
\* default, whether or not it parses; a shape beyond the bound gets no stack.
CaptureHello(c, h) ==
  /\ default' = IF default = "none" /\ h # "h2" THEN h ELSE default
  /\ LET known   == /\ h \in Shapes
                    /\ h \in stacks \/ Cardinality(stacks) < MaxHelloStacks
     IN  /\ stacks' = IF known THEN stacks \union {h} ELSE stacks
         /\ shapeOf' = [shapeOf EXCEPT ![c] = IF known THEN h ELSE "none"]
  /\ UNCHANGED <<egress, drain, toClose, transports, request>>

\* upstreamTransportForStack's choice: the plain cache, the session default's,
\* or the shape's own.
ShapeFor(c, anthropic) ==
  IF ~(NativeTLS /\ anthropic) THEN "plain"
  ELSE IF shapeOf[c] = "none" THEN "default" ELSE shapeOf[c]

\* The handler captured the posture.
RequestBegins(c, anthropic) ==
  /\ request[c].pc = "none"
  /\ request' = [request EXCEPT ![c] =
       [NoRequest EXCEPT !.pc = "begun", !.key = egress,
                         !.shape = ShapeFor(c, anthropic)]]
  /\ UNCHANGED <<egress, drain, toClose, default, stacks, shapeOf, transports>>

Matches(i, key, shape) ==
  transports[i].cached /\ transports[i].key = key /\ transports[i].shape = shape

NewTransport(key, shape) ==
  [key |-> key, shape |-> shape, cached |-> TRUE,
   idle |-> "none", closeIdle |-> FALSE]

\* Get or create under mu; Close having passed is no reason not to create.
PickTransport(c) ==
  /\ request[c].pc = "begun"
  /\ LET q == request[c]
         found == {i \in Ids : Matches(i, q.key, q.shape)}
     IN  /\ transports' = IF found # {} THEN transports
                          ELSE Append(transports, NewTransport(q.key, q.shape))
         /\ request' = [request EXCEPT ![c].pc = "picked",
              ![c].tr = IF found # {} THEN CHOOSE i \in found : TRUE
                        ELSE Len(transports) + 1]
  /\ UNCHANGED <<egress, drain, toClose, default, stacks, shapeOf>>

\* Mutant: every native dial mirrors the session's default.
HelloOfSession(i) == IF transports[i].shape = "plain" THEN "go" ELSE default

\* The hello a dial of transport i would send.
HelloOf(i) ==
  LET s == transports[i].shape
  IN  IF s = "plain" THEN "go" ELSE IF s = "default" THEN default ELSE s

\* net/http asks for a connection: it wants idle ones again, and takes one.
ReuseIdle(c) ==
  /\ request[c].pc = "picked"
  /\ LET i == request[c].tr
     IN  /\ transports[i].idle # "none"
         /\ transports' = [transports EXCEPT ![i].idle = "none",
                                             ![i].closeIdle = FALSE]
         /\ request' = [request EXCEPT ![c].pc = "sent",
                                       ![c].hello = transports[i].idle]
  /\ UNCHANGED <<egress, drain, toClose, default, stacks, shapeOf>>

\* nativeTLSDialHello: no hello, or one utls cannot mirror, blocks the request;
\* the egress dial and the handshake may fail as well.
DialUpstream(c) ==
  /\ request[c].pc = "picked"
  /\ LET i == request[c].tr
         hello == HelloOf(i)
     IN  /\ transports[i].idle = "none"
         /\ transports' = [transports EXCEPT ![i].closeIdle = FALSE]
         /\ \/ /\ hello \notin {"none", "broken"}
               /\ request' = [request EXCEPT ![c].pc = "sent", ![c].hello = hello]
            \/ request' = [request EXCEPT ![c].pc = "over"]
  /\ UNCHANGED <<egress, drain, toClose, default, stacks, shapeOf>>

\* The response was read to its end: the connection goes back, unless
\* CloseIdleConnections was called since the last request asked for one.
RequestFinishes(c) ==
  /\ request[c].pc = "sent"
  /\ LET i == request[c].tr
     IN  transports' = IF transports[i].closeIdle THEN transports
                       ELSE [transports EXCEPT ![i].idle = request[c].hello]
  /\ request' = [request EXCEPT ![c].pc = "over"]
  /\ UNCHANGED <<egress, drain, toClose, default, stacks, shapeOf>>

\* The client went away, or the upstream broke off: the connection is closed.
RequestAborts(c) ==
  /\ Busy(c)
  /\ request' = [request EXCEPT ![c].pc = "over"]
  /\ UNCHANGED <<egress, drain, toClose, default, stacks, shapeOf, transports>>

CloseIdle(S) ==
  transports' = [i \in Ids |-> IF i \in S
                   THEN [transports[i] EXCEPT !.idle = "none", !.closeIdle = TRUE]
                   ELSE transports[i]]

\* A live switch to another egress publishes, then takes the transports of
\* other keys out of the caches, then closes their idle connections.  One
\* switch: a way back adds nothing but names.
SwitchEgress(k) ==
  /\ drain.pc = "idle"
  /\ egress = FirstEgress /\ k # egress
  /\ egress' = k
  /\ drain' = [drain EXCEPT !.pc = "due"]
  /\ UNCHANGED <<toClose, default, stacks, shapeOf, transports, request>>

DrainTakes ==
  /\ drain.pc = "due"
  /\ LET superseded == {i \in Ids : transports[i].cached /\ transports[i].key # egress}
     IN  /\ drain' = [pc |-> "taken", list |-> superseded]
         /\ transports' = [i \in Ids |->
              [transports[i] EXCEPT !.cached = @ /\ i \notin superseded]]
  /\ UNCHANGED <<egress, toClose, default, stacks, shapeOf, request>>

DrainCloses ==
  /\ drain.pc = "taken"
  /\ CloseIdle(drain.list)
  /\ drain' = [pc |-> "idle", list |-> {}]
  /\ UNCHANGED <<egress, toClose, default, stacks, shapeOf, request>>

\* Close copies every cache under mu, and closes what is idle there later on.
TakeAll ==
  /\ toClose' = {i \in Ids : transports[i].cached}
  /\ UNCHANGED <<egress, drain, default, stacks, shapeOf, transports, request>>

CloseAll ==
  /\ CloseIdle(toClose)
  /\ UNCHANGED <<egress, drain, toClose, default, stacks, shapeOf, request>>

\* Mutant: only the plain transports have an IdleConnTimeout.
IdleExpiresPlain(i) ==
  /\ transports[i].idle # "none" /\ transports[i].shape = "plain"
  /\ transports' = [transports EXCEPT ![i].idle = "none"]
  /\ UNCHANGED <<egress, drain, toClose, default, stacks, shapeOf, request>>

\* IdleConnTimeout.
IdleExpires(i) ==
  /\ transports[i].idle # "none"
  /\ transports' = [transports EXCEPT ![i].idle = "none"]
  /\ UNCHANGED <<egress, drain, toClose, default, stacks, shapeOf, request>>

RequestStep(c) ==
  PickTransport(c) \/ ReuseIdle(c) \/ DialUpstream(c)
=============================================================================
