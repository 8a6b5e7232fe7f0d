------------------------------ MODULE LocalPeer ------------------------------
(***************************************************************************)
(* A loopback port that admits only its own user and root.  The accept     *)
(* loop takes a slot per connection and hands it to a goroutine that looks *)
(* up who owns the other end; what is admitted waits for an Accept call.   *)
(*                                                                         *)
(* Source: internal/localpeer/{listener,localpeer}.go.  Connections come   *)
(* from the kernel's backlog; the socket table is what a lookup reads.     *)
(***************************************************************************)
EXTENDS Naturals, FiniteSets

CONSTANTS
  Conns,         \* the connections clients open to the port
  MaxScreening,  \* lookups that may run at once (8 in the code)
  Strict         \* GuardStrict: refuse a peer that cannot be identified

ASSUME LocalPeerAssumption ==
  IsFiniteSet(Conns) /\ MaxScreening \in Nat \ {0} /\ Strict \in BOOLEAN

VARIABLES
  owner,    \* whose process holds the client end of each connection
  stage,    \* how far each connection has come
  loop,     \* the accept loop: "slot", "accept" or "gone"
  acceptor, \* http.Server's Serve goroutine: "out", "in" Accept, "ended"
  port      \* the listener: "open", "done" closed, inner "shut", "closed"

lpVars == <<owner, stage, loop, acceptor, port>>

Owners == {"self", "root", "other"}

\* What the kernel's table says of the peer: missing, orphaned or live, and
\* whether the parser understands the layout.
Row == {"missing", "orphan", "live"}
Table == [row : Row, layout : BOOLEAN]

\* peerUID: one retry when the row is missing.  The table lists the port's own
\* end too, and a layout the parser misreads shows there.
Lookup(who, first, second) ==
  LET read == IF first.layout /\ first.row = "missing" THEN second ELSE first
  IN  IF ~read.layout \/ read.row = "missing" THEN "unknown"
      ELSE IF read.row = "orphan" THEN "orphan" ELSE who

Admit(found) ==
  \/ found \in {"self", "root"}
  \/ found = "unknown" /\ ~Strict

Screening == {c \in Conns : stage[c] = "screening"}
SlotsHeld == Cardinality(Screening) + (IF loop = "accept" THEN 1 ELSE 0)

LocalPeerTypeOK ==
  /\ owner \in [Conns -> Owners]
  /\ stage \in [Conns -> {"none", "backlog", "screening", "offered",
                          "yielded", "dropped"}]
  /\ loop \in {"slot", "accept", "gone"}
  /\ acceptor \in {"out", "in", "ended"}
  /\ port \in {"open", "done", "shut", "closed"}

LocalPeerInit(owners) ==
  /\ owner = owners
  /\ stage = [c \in Conns |-> "none"]
  /\ loop = "slot"
  /\ acceptor = "out"
  /\ port = "open"

Moves(c, from, to) == stage[c] = from /\ stage' = [stage EXCEPT ![c] = to]

Connect(c) ==
  /\ port \in {"open", "done"}
  /\ Moves(c, "none", "backlog")
  /\ UNCHANGED <<owner, loop, acceptor, port>>

LoopTakesSlot ==
  /\ loop = "slot"
  /\ SlotsHeld < MaxScreening
  /\ loop' = "accept"
  /\ UNCHANGED <<owner, stage, acceptor, port>>

LoopAccepts(c) ==
  /\ loop = "accept"
  /\ Moves(c, "backlog", "screening")
  /\ loop' = "slot"
  /\ UNCHANGED <<owner, acceptor, port>>

\* The inner Accept fails: an Accept call gets the error (and http.Server
\* tries again), or, after Close, the loop ends.
LoopFails ==
  /\ loop = "accept"
  /\ \/ /\ port = "open" /\ acceptor = "in"
        /\ loop' = "slot" /\ acceptor' = "out"
     \/ /\ port \in {"shut", "closed"}
        /\ loop' = "gone"
        /\ acceptor' = IF acceptor = "in" THEN "ended" ELSE acceptor
  /\ UNCHANGED <<owner, stage, port>>

LoopSeesDone ==
  /\ loop = "slot"
  /\ port # "open"
  /\ loop' = "gone"
  /\ UNCHANGED <<owner, stage, acceptor, port>>

Screened(c) ==
  /\ stage[c] = "screening"
  /\ \E first, second \in Table :
       LET found == Lookup(owner[c], first, second)
       IN  Moves(c, "screening", IF Admit(found) THEN "offered" ELSE "dropped")
  /\ UNCHANGED <<owner, loop, acceptor, port>>

CallAccept ==
  /\ acceptor = "out"
  /\ acceptor' = "in"
  /\ UNCHANGED <<owner, stage, loop, port>>

\* Accept looks at done again after it received a connection.
HandOver(c) ==
  /\ acceptor = "in"
  /\ Moves(c, "offered", IF port = "open" THEN "yielded" ELSE "dropped")
  /\ acceptor' = IF port = "open" THEN "out" ELSE "ended"
  /\ UNCHANGED <<owner, loop, port>>

AcceptSeesDone ==
  /\ acceptor = "in"
  /\ port # "open"
  /\ acceptor' = "ended"
  /\ UNCHANGED <<owner, stage, loop, port>>

OfferSeesDone(c) ==
  /\ port # "open"
  /\ Moves(c, "offered", "dropped")
  /\ UNCHANGED <<owner, loop, acceptor, port>>

SignalDone ==
  /\ port = "open"
  /\ port' = "done"
  /\ UNCHANGED <<owner, stage, loop, acceptor>>

\* Closing the inner listener resets what is still in the backlog.
ShutInner ==
  /\ port = "done"
  /\ port' = "shut"
  /\ stage' = [c \in Conns |-> IF stage[c] = "backlog" THEN "dropped" ELSE stage[c]]
  /\ UNCHANGED <<owner, loop, acceptor>>

\* Close takes the lock that every Accept call holds, so it waits them out.
ListenerClosed ==
  /\ port = "shut"
  /\ acceptor # "in"
  /\ port' = "closed"
  /\ UNCHANGED <<owner, stage, loop, acceptor>>

PortStep(c) ==
  \/ LoopAccepts(c) \/ Screened(c) \/ HandOver(c) \/ OfferSeesDone(c)

PortLoop ==
  LoopTakesSlot \/ LoopFails \/ LoopSeesDone \/ CallAccept \/ AcceptSeesDone
=============================================================================
