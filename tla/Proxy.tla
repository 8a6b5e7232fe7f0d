-------------------------------- MODULE Proxy --------------------------------
(***************************************************************************)
(* The session proxy whole: connections come in through LocalPeer's port,  *)
(* Tunnels handles them, their requests go out through Upstreams, while    *)
(* the session's egress is switched and the proxy is closed.               *)
(*                                                                         *)
(* Source: internal/supervisor/proxy.go; each connection serves one        *)
(* request here.                                                           *)
(***************************************************************************)
EXTENDS Upstreams

vars == <<lpVars, tunVars, upVars>>

TypeOK == LocalPeerTypeOK /\ TunnelsTypeOK /\ UpstreamsTypeOK

OnlyPort == UNCHANGED <<tunVars, upVars>>
OnlyTunnels == UNCHANGED <<lpVars, upVars>>
OnlyUpstreams == UNCHANGED <<lpVars, tunVars>>

Arrive(c) == Connect(c) /\ OnlyPort
Screen(c) == PortStep(c) /\ OnlyPort
Listen == PortLoop /\ OnlyPort

Handle(c) == (Dispatch(c) \/ TunnelStep(c)) /\ OnlyTunnels

\* The hello is read whole, and captured before the handshake replays it.
Peek(c) ==
  \/ /\ \E h \in Hellos : PeekSucceeds(c) /\ CaptureHello(c, h)
     /\ UNCHANGED lpVars
  \/ PeekFails(c) /\ OnlyTunnels

Copy(c) == CopyEnds(c) /\ OnlyTunnels

\* mitmHandler, telemetryMITMHandler and handleForwardProxyRequest.
Begin(c) ==
  /\ \/ pc[c] = "serving" /\ Client(c) \in open
     \/ pc[c] = "plain"
  /\ \E anthropic \in BOOLEAN :
       /\ kind[c] = "anthropic" => anthropic
       /\ kind[c] = "telemetry" => ~anthropic
       /\ RequestBegins(c, anthropic)
  /\ OnlyUpstreams

Forward(c) == RequestStep(c) /\ OnlyUpstreams
Finish(c) == RequestFinishes(c) /\ OnlyUpstreams
Abort(c) == RequestAborts(c) /\ OnlyUpstreams

\* net/http closes a connection only when its handler has returned.
ConnEnds(c) ==
  /\ ~Busy(c)
  /\ InnerConnEnds(c) \/ PlainEnds(c)
  /\ OnlyTunnels

Return(c) ==
  /\ c \in down \/ ~Busy(c)
  /\ ServeReturns(c)
  /\ OnlyTunnels

Switch == (\E k \in Egresses : SwitchEgress(k)) /\ OnlyUpstreams
Drain == (DrainTakes \/ DrainCloses) /\ OnlyUpstreams
Expire(i) == IdleExpires(i) /\ OnlyUpstreams

ProxyInit ==
  /\ \E owners \in [Conns -> Owners] : LocalPeerInit(owners)
  /\ TunnelsInit /\ UpstreamsInit

(* Close.  The transports are copied with the rest, under the same lock. *)

Close == CloseSnapshot /\ TakeAll /\ UNCHANGED lpVars

CloseListener ==
  /\ closer = "listener"
  /\ \/ (SignalDone \/ ShutInner) /\ UNCHANGED tunVars
     \/ ListenerClosed /\ CloserGoes("listener", "inner")
        /\ UNCHANGED <<open, tracked, down>>
  /\ UNCHANGED upVars

\* Each Shutdown waits for its server's request, or for the context.
Quiet(c) == late \/ ~Busy(c)

Shutdown(c) ==
  /\ \A d \in snap.inner \cap down : Quiet(d)
  /\ ShutdownInner(c)
  /\ OnlyTunnels

CloseConns ==
  /\ \A d \in snap.inner : Quiet(d)
  /\ InnerAreDown
  /\ OnlyTunnels

CloseSockets == CloseTracked /\ OnlyTunnels

CloseTransports ==
  /\ CloserGoes("idleconns", "http") /\ UNCHANGED <<open, tracked, down>>
  /\ CloseAll
  /\ UNCHANGED lpVars

CloseMain == (MainIsDown \/ CloseWaits) /\ OnlyTunnels
ContextExpires == CloseExpires /\ OnlyTunnels

CloseStep ==
  \/ CloseListener \/ (\E c \in Conns : Shutdown(c)) \/ CloseConns
  \/ CloseSockets \/ CloseTransports \/ CloseMain

Next ==
  \/ \E c \in Conns :
       \/ Arrive(c) \/ Screen(c) \/ Handle(c) \/ Peek(c) \/ Copy(c)
       \/ Begin(c) \/ Forward(c) \/ Finish(c) \/ Abort(c)
       \/ ConnEnds(c) \/ Return(c)
  \/ Listen
  \/ Switch \/ Drain \/ \E i \in Ids : Expire(i)
  \/ Close \/ CloseStep \/ ContextExpires

ProxySpec == ProxyInit /\ [][Next]_vars

\* What the goroutine of a connection does without its client's leave.
Goroutine(c) ==
  \/ Screen(c) \/ Handle(c) \/ Peek(c) \/ Forward(c) \/ Return(c)
  \/ Client(c) \notin open /\ Copy(c)
  \/ Client(c) \notin open /\ pc[c] # "plain" /\ Abort(c)

\* Goroutines run; what waits on a peer has a deadline: dials, the CONNECT
\* answer, peek and handshake, Close's context, the idle timeout of pooled
\* connections.  A closed socket ends what reads from it.  No client has to
\* connect, no response to arrive, no tunnel to end and no Close to be called.
Fairness ==
  /\ \A c \in Conns : WF_vars(Goroutine(c))
  /\ WF_vars(Listen) /\ WF_vars(Drain)
  /\ WF_vars(\E i \in Ids : Expire(i))
  /\ WF_vars(CloseStep) /\ WF_vars(ContextExpires)

\* Close is one-shot and bounded (proxy.go:91): its context bounds every wait,
\* so it returns whatever clients and upstreams do.
CloseReturns == closed ~> closer = "done"

\* Close ends every tunnel (proxy.go:91, 885, 988): one whose handler already
\* copies or serves was in the snapshot, one that comes later finds the proxy
\* closed, so past the closing of the sockets none holds an open one.
NoTunnelSurvives ==
  closer \in {"idleconns", "http", "wait", "done"} =>
    \A c \in Conns :
      pc[c] \in {"starting", "copying", "registered", "serving"} =>
        Ends(c) \cap open = {}

\* After Close every socket a handler took over or dialled is closed in the
\* end, those dialled or hijacked meanwhile as well, and so is every pooled
\* upstream connection, those of a transport made after the snapshot
\* (proxy.go:91) or drained under a request (routeresolve.go:152) included.
AllIsFreed ==
  closer = "done" ~> (open = {} /\ \A i \in Ids : transports[i].idle = "none")

\* A request leaves over the egress it captured, and over a connection that
\* mirrors its own client's hello shape, or the session's default if its shape
\* is not tracked, never another's and never Go's (hellostack.go:12,
\* nativetls.go:221), however switches, drains and reuse interleave.
OwnWayOut ==
  \A c \in Conns :
    request[c].pc = "sent" =>
      LET q == request[c]
      IN  /\ transports[q.tr].key = q.key
          /\ q.hello = IF q.shape = "plain" THEN "go"
                       ELSE IF shapeOf[c] # "none" THEN shapeOf[c] ELSE default

\* Once the port's Close has returned, Accept yields nothing any more, so no
\* handler starts behind http.Server.Shutdown (listener.go:98).
ClosedYieldsNothing ==
  [][port = "closed" => \A c \in Conns : ~Moves(c, "offered", "yielded")]_vars

\* Close is final: nothing is left of what ran before it, nothing starts after.
CloseIsFinal == [](TypeOK /\ NoTunnelSurvives) /\ ClosedYieldsNothing
=============================================================================
