------------------------------- MODULE Tunnels -------------------------------
(***************************************************************************)
(* The connections of a session proxy: plain requests, blind tunnels, and  *)
(* the tunnels it terminates (MITM), each under an http.Server of its own; *)
(* and Close, which must end all of them within its two seconds.           *)
(*                                                                         *)
(* Sources: internal/supervisor/{proxy,proxynet,clienthello}.go.  The      *)
(* connections arrive through LocalPeer's port.                            *)
(***************************************************************************)
EXTENDS LocalPeer

CONSTANTS
  Kinds,      \* what each connection's client may ask for
  PeekHello   \* native TLS is on and no hello is pinned

AllKinds == {"plain", "blind", "telemetry", "anthropic"}

ASSUME TunnelsAssumption ==
  /\ Kinds \in [Conns -> SUBSET AllKinds]
  /\ PeekHello \in BOOLEAN

VARIABLES
  kind,     \* what each connection turned out to be, "none" before
  pc,       \* where its handler is
  open,     \* hijacked and dialled sockets that are open
  tracked,  \* sp.tracked
  inner,    \* sp.inner: tunnels whose inner server is registered
  down,     \* inner servers that Shutdown has been called on
  wg,       \* sp.wg
  pinned,   \* the telemetry host refused our certificate
  closed,   \* sp.closed
  closer,   \* where Close is
  snap,     \* what Close copied under mu: [inner, tracked]
  late      \* Close's context has expired

tunVars == <<kind, pc, open, tracked, inner, down, wg, pinned, closed,
             closer, snap, late>>
closing == <<closed, closer, snap, late>>

Client(c) == <<c, "client">>
Target(c) == <<c, "target">>
Ends(c) == {Client(c), Target(c)}
AllEnds == UNION {Ends(c) : c \in Conns}

MITM(c) == kind[c] \in {"telemetry", "anthropic"}

TunnelsTypeOK ==
  /\ kind \in [Conns -> AllKinds \union {"none"}]
  /\ pc \in [Conns -> {"none", "plain", "dialing", "hijacked", "half",
                       "announced", "starting", "copying", "peeking",
                       "handshaking", "registering", "registered", "serving",
                       "done"}]
  /\ open \subseteq AllEnds /\ tracked \subseteq AllEnds
  /\ inner \subseteq Conns /\ down \subseteq Conns
  /\ wg \in Nat
  /\ pinned \in BOOLEAN
  /\ closed \in BOOLEAN /\ late \in BOOLEAN
  /\ closer \in {"idle", "listener", "inner", "conns", "idleconns", "http",
                 "wait", "done"}
  /\ snap \in [inner : SUBSET Conns, tracked : SUBSET AllEnds]

TunnelsInit ==
  /\ kind = [c \in Conns |-> "none"]
  /\ pc = [c \in Conns |-> "none"]
  /\ open = {} /\ tracked = {}
  /\ inner = {} /\ down = {} /\ wg = 0
  /\ pinned = FALSE
  /\ closed = FALSE /\ closer = "idle" /\ late = FALSE
  /\ snap = [inner |-> {}, tracked |-> {}]

Goes(c, from, to) == pc[c] = from /\ pc' = [pc EXCEPT ![c] = to]

\* trackedNetConn.Close: the socket, then its entry; a second Close is harmless.
CloseEnds(S) == open' = open \ S /\ tracked' = tracked \ S

Drop(c) == CloseEnds(Ends(c))

\* handleProxy.  shouldCaptureTelemetry is off for a host that refused us; the
\* capture toggle itself is Session's.
Dispatch(c) ==
  /\ stage[c] = "yielded"
  /\ \E k \in Kinds[c] :
       /\ k = "telemetry" => ~pinned
       /\ kind' = [kind EXCEPT ![c] = k]
       /\ \/ k = "plain" /\ Goes(c, "none", "plain") /\ UNCHANGED open
          \/ k = "blind" /\ Goes(c, "none", "dialing") /\ UNCHANGED open
          \/ /\ k \in {"telemetry", "anthropic"}
             /\ Goes(c, "none", "hijacked")
             /\ open' = open \union {Client(c)}
  /\ UNCHANGED <<tracked, inner, down, wg, pinned, closing>>

\* handleBlindTunnel dials before it hijacks: for a while the target is open
\* and not tracked.  Either may fail.
DialAndHijack(c) ==
  /\ \/ Goes(c, "dialing", "hijacked") /\ open' = open \union Ends(c)
     \/ Goes(c, "dialing", "done") /\ UNCHANGED open
  /\ UNCHANGED <<kind, tracked, inner, down, wg, pinned, closing>>

\* trackConn, once per socket, each under mu by itself.
TrackClient(c) ==
  /\ Goes(c, "hijacked", "half")
  /\ tracked' = tracked \union {Client(c)}
  /\ UNCHANGED <<kind, open, inner, down, wg, pinned, closing>>

\* Then writeConnectEstablished, with a deadline of its own, which fails on a
\* closed socket, and for MITM the server certificate.
Establish(c) ==
  /\ \/ /\ Client(c) \in open
        /\ Goes(c, "half",
             IF kind[c] = "blind" THEN "announced"
             ELSE IF kind[c] = "anthropic" /\ PeekHello THEN "peeking"
             ELSE "handshaking")
        /\ tracked' = tracked \union (open \cap Ends(c))
        /\ UNCHANGED open
     \/ Goes(c, "half", "done") /\ Drop(c)
  /\ UNCHANGED <<kind, inner, down, wg, pinned, closing>>

\* The blind tunnel asks isClosed, then adds its two copies to wg.
CheckClosed(c) ==
  /\ IF closed THEN Goes(c, "announced", "done") /\ Drop(c)
               ELSE Goes(c, "announced", "starting") /\ UNCHANGED <<open, tracked>>
  /\ UNCHANGED <<kind, inner, down, wg, pinned, closing>>

StartCopies(c) ==
  /\ Goes(c, "starting", "copying")
  /\ wg' = wg + 2
  /\ UNCHANGED <<kind, open, tracked, inner, down, pinned, closing>>

\* proxyCopy: the copy that ends first closes both sockets, and so the other.
CopyEnds(c) ==
  /\ Goes(c, "copying", "done")
  /\ Drop(c)
  /\ wg' = wg - 2
  /\ UNCHANGED <<kind, inner, down, pinned, closing>>

\* peekClientHello returns a whole hello ...
PeekSucceeds(c) ==
  /\ Client(c) \in open
  /\ Goes(c, "peeking", "handshaking")
  /\ UNCHANGED <<kind, open, tracked, inner, down, wg, pinned, closing>>

\* ... or fails: closed, malformed, or nothing until the deadline.
PeekFails(c) ==
  /\ Goes(c, "peeking", "handshaking")
  /\ UNCHANGED <<kind, open, tracked, inner, down, wg, pinned, closing>>

\* The deadline is set anew before the handshake.
HandshakeSucceeds(c) ==
  /\ Client(c) \in open
  /\ Goes(c, "handshaking", "registering")
  /\ UNCHANGED <<kind, open, tracked, inner, down, wg, pinned, closing>>

\* A telemetry client that fails it, for whatever reason, is tunnelled from
\* now on.
HandshakeFails(c) ==
  /\ Goes(c, "handshaking", "done")
  /\ Drop(c)
  /\ pinned' = (pinned \/ kind[c] = "telemetry")
  /\ UNCHANGED <<kind, inner, down, wg, closing>>

\* Mutant: an inner server is registered without a look at closed.
RegisterAnyway(c) ==
  /\ Goes(c, "registering", "registered")
  /\ inner' = inner \union {c}
  /\ UNCHANGED <<kind, open, tracked, down, wg, pinned, closing>>

\* registerInnerServer, under mu.
Register(c) ==
  /\ IF closed
       THEN Goes(c, "registering", "done") /\ Drop(c) /\ UNCHANGED inner
       ELSE /\ Goes(c, "registering", "registered")
            /\ inner' = inner \union {c}
            /\ UNCHANGED <<open, tracked>>
  /\ UNCHANGED <<kind, down, wg, pinned, closing>>

\* Serve on a server that was shut down returns at once and closes its listener.
Serve(c) ==
  /\ Goes(c, "registered", "serving")
  /\ wg' = wg + 1
  /\ IF c \in down THEN Drop(c) ELSE UNCHANGED <<open, tracked>>
  /\ UNCHANGED <<kind, inner, down, pinned, closing>>

\* The connection's goroutine closes it: end of stream, an error, IdleTimeout.
InnerConnEnds(c) ==
  /\ pc[c] = "serving"
  /\ Client(c) \in open
  /\ Drop(c)
  /\ UNCHANGED <<kind, pc, inner, down, wg, pinned, closing>>

\* singleConnListener: the second Accept waits for the connection's Close.
ServeReturns(c) ==
  /\ Client(c) \notin open
  /\ Goes(c, "serving", "done")
  /\ inner' = inner \ {c}
  /\ wg' = wg - 1
  /\ UNCHANGED <<kind, open, tracked, down, pinned, closing>>

PlainEnds(c) ==
  /\ Goes(c, "plain", "done")
  /\ UNCHANGED <<kind, open, tracked, inner, down, wg, pinned, closing>>

(* Close, in its order. *)

CloseSnapshot ==
  /\ closer = "idle"
  /\ closed' = TRUE
  /\ closer' = "listener"
  /\ snap' = [inner |-> inner, tracked |-> tracked]
  /\ UNCHANGED <<kind, pc, open, tracked, inner, down, wg, pinned, late>>

CloserGoes(from, to) ==
  /\ closer = from
  /\ closer' = to
  /\ UNCHANGED <<kind, pc, inner, wg, pinned, closed, snap, late>>

\* Shutdown of an inner server closes its listener, and that the connection;
\* a server that does not serve yet has no listener to close.
ShutdownInner(c) ==
  /\ closer = "inner"
  /\ c \in snap.inner \ down
  /\ down' = down \union {c}
  /\ IF pc[c] = "serving" THEN Drop(c) ELSE UNCHANGED <<open, tracked>>
  /\ UNCHANGED <<kind, pc, inner, wg, pinned, closing>>

InnerAreDown ==
  /\ snap.inner \subseteq down
  /\ CloserGoes("inner", "conns")
  /\ UNCHANGED <<open, tracked, down>>

CloseTracked ==
  /\ CloserGoes("conns", "idleconns")
  /\ CloseEnds(snap.tracked)
  /\ UNCHANGED down

\* Mutant: Close hands the main server's Shutdown a context without a deadline.
MainIsDownUnbounded ==
  /\ \A c \in Conns : pc[c] \notin {"plain", "dialing"}
  /\ CloserGoes("http", "wait")
  /\ UNCHANGED <<open, tracked, down>>

\* The main server's Shutdown waits for what is not hijacked, not for tunnels.
MainIsDown ==
  /\ \/ late
     \/ \A c \in Conns : /\ pc[c] \notin {"plain", "dialing"}
                         /\ stage[c] = "yielded" => pc[c] # "none"
  /\ CloserGoes("http", "wait")
  /\ UNCHANGED <<open, tracked, down>>

CloseWaits ==
  /\ late \/ wg = 0
  /\ CloserGoes("wait", "done")
  /\ UNCHANGED <<open, tracked, down>>

CloseExpires ==
  /\ closer \notin {"idle", "done"}
  /\ ~late
  /\ late' = TRUE
  /\ UNCHANGED <<kind, pc, open, tracked, inner, down, wg, pinned,
                 closed, closer, snap>>

\* What a handler does by itself, bounded by a deadline where it waits.
TunnelStep(c) ==
  \/ DialAndHijack(c) \/ TrackClient(c) \/ Establish(c)
  \/ CheckClosed(c) \/ StartCopies(c)
  \/ HandshakeSucceeds(c) \/ HandshakeFails(c) \/ Register(c) \/ Serve(c)
=============================================================================
