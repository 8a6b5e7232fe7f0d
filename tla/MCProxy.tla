------------------------------- MODULE MCProxy -------------------------------
(* Instances of Proxy for TLC: the situations that matter instead of their product. *)
EXTENDS Proxy, TLC

CONSTANTS c1, c2, s1, s2, e1, e2

MCKinds == [c \in Conns |-> AllKinds]

Arrived ==
  /\ owner = [c \in Conns |-> "self"]
  /\ stage = [c \in Conns |-> "yielded"]

PortOpen == loop = "accept" /\ acceptor = "in" /\ port = "open"

NothingOpen ==
  /\ kind = [c \in Conns |-> "none"]
  /\ open = {} /\ tracked = {} /\ inner = {} /\ wg = 0
  /\ shapeOf = [c \in Conns |-> "none"]

Knows(shape) == default = shape /\ stacks = {shape} \ {"none"}

Requests(S) ==
  request = [c \in Conns |-> IF c \in S THEN NoRequest
                             ELSE [NoRequest EXCEPT !.pc = "over"]]

NotClosed ==
  /\ closed = FALSE /\ closer = "idle" /\ late = FALSE /\ down = {}
  /\ snap = [inner |-> {}, tracked |-> {}]

\* Connections of the user's and of anybody, with nothing to do for a handler.
AtThePort ==
  /\ \E who \in Owners : LocalPeerInit((c1 :> "self") @@ (c2 :> who))
  /\ pc = [c \in Conns |-> "done"]
  /\ NothingOpen /\ NotClosed /\ Knows("none") /\ Requests({})
  /\ egress = e2

\* One connection from its CONNECT on beside a tunnel that serves already;
\* what their requests do comes below.
AtTheHandlers ==
  /\ Arrived /\ PortOpen
  /\ kind = (c1 :> "none") @@ (c2 :> "anthropic")
  /\ pc = (c1 :> "none") @@ (c2 :> "serving")
  /\ inner = {c2} /\ open = {Client(c2)} /\ tracked = open /\ wg = 1
  /\ shapeOf = [c \in Conns |-> "none"]
  /\ NotClosed /\ Knows(s1) /\ Requests({})
  /\ egress = e2

\* A tunnel or a plain connection sends its request, and Close may come.
AtTheRequest ==
  /\ Arrived /\ PortOpen
  /\ \E k \in {"anthropic", "plain"} :
       /\ kind = (c1 :> k) @@ (c2 :> "none")
       /\ pc = (c1 :> IF k = "plain" THEN "plain" ELSE "serving") @@ (c2 :> "done")
  /\ shapeOf = [c \in Conns |-> "none"]
  /\ inner = (IF kind[c1] = "plain" THEN {} ELSE {c1}) /\ wg = Cardinality(inner)
  /\ open = {Client(c) : c \in inner} /\ tracked = open
  /\ NotClosed /\ Knows(s1) /\ Requests({c1})
  /\ egress = e2

\* While the egress is switched, a plain connection sends its request, and a
\* tunnel's, of a tracked shape or not, is in its handler still when Close,
\* out of time, comes to the pooled connections.
AtTheSwitch ==
  /\ Arrived
  /\ loop = "gone" /\ acceptor = "ended" /\ port = "closed"
  /\ kind = (c1 :> "anthropic") @@ (c2 :> "plain")
  /\ pc = (c1 :> "serving") @@ (c2 :> "plain")
  /\ inner = {c1} /\ down = {c1} /\ open = {} /\ tracked = {} /\ wg = 1
  /\ closed = TRUE /\ closer = "idleconns" /\ late = TRUE
  /\ snap = [inner |-> {c1}, tracked |-> {Client(c1)}]
  /\ stacks = {s1} /\ default = s2
  /\ egress = e1
  /\ \E shape \in {s1, "none"} :
       /\ shapeOf = (c1 :> shape) @@ (c2 :> "none")
       /\ request = (c2 :> NoRequest) @@ (c1 :>
            [NoRequest EXCEPT !.pc = "begun",
                              !.shape = IF shape = "none" THEN "default" ELSE shape])

Init ==
  /\ AtThePort \/ AtTheHandlers \/ AtTheRequest \/ AtTheSwitch
  /\ pinned = FALSE
  /\ drain = [pc |-> "idle", list |-> {}] /\ toClose = {}
  /\ transports = <<>>

Spec == Init /\ [][Next]_vars
FairSpec == Spec /\ Fairness
=============================================================================
