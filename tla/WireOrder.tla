------------------------------ MODULE WireOrder ------------------------------
(***************************************************************************)
(* The order of request heads, from the client connection that a recorder  *)
(* watches to the upstream connection that lays the heads out again.       *)
(*                                                                         *)
(* Source: internal/supervisor/wireorder.go.  A head is [target, chunked,  *)
(* oversized, lines]; an order is the request whose head it was recorded   *)
(* from.  A connection's bytes are taken a whole head or body at a time.   *)
(***************************************************************************)
EXTENDS Naturals, Sequences

CONSTANTS
  Requests,   \* requests, numbered as their clients send them
  Clients,    \* client connections that are intercepted
  UpConns,    \* upstream connections of one native transport
  MaxQueued,  \* maxQueuedWireHead
  Heads       \* the heads that clients send

NoOne == 0

ASSUME WireOrderAssumption ==
  /\ Requests \subseteq Nat \ {NoOne}
  /\ MaxQueued \in Nat \ {0}
  /\ \A h \in Heads : h.chunked \in BOOLEAN

VARIABLES
  head,      \* each request's head, once it has arrived
  recorder,  \* wireOrderRecorder of each client connection: [stopped, queue]
  order,     \* the order each request was handed (popWireOrder), or NoOne
  up,        \* wireOrderConn: [by, next, passthrough, open]
  laid       \* whose order each request's head went out in: {} until then

orderVars == <<head, recorder, order, up, laid>>

Orders == Requests \union {NoOne}
FreshConn == [by |-> NoOne, next |-> NoOne, passthrough |-> FALSE, open |-> TRUE]

WireOrderTypeOK ==
  /\ DOMAIN head \subseteq Requests /\ \A q \in DOMAIN head : head[q] \in Heads
  /\ \A c \in Clients : /\ recorder[c].stopped \in BOOLEAN
                        /\ recorder[c].queue \in Seq(Requests)
                        /\ Len(recorder[c].queue) <= MaxQueued
  /\ order \in [Requests -> Orders]
  /\ up \in [UpConns -> [by : Orders, next : Orders, passthrough : BOOLEAN, open : BOOLEAN]]
  /\ laid \in [Requests -> SUBSET Orders]

WireOrderInit ==
  /\ head = [q \in {} |-> NoOne]
  /\ recorder = [c \in Clients |-> [stopped |-> FALSE, queue |-> <<>>]]
  /\ order = [q \in Requests |-> NoOne]
  /\ up = [u \in UpConns |-> FreshConn]
  /\ laid = [q \in Requests |-> {}]

\* The queue drops its oldest order for a new one.
Enqueue(queue, q) ==
  Append(IF Len(queue) = MaxQueued THEN Tail(queue) ELSE queue, q)

\* wireOrderRecorder.observe: nothing is recorded after a head it cannot read
\* or a body it cannot frame.
Observe(q, c, h) ==
  recorder' = [recorder EXCEPT ![c] =
    IF @.stopped THEN @
    ELSE IF h.oversized THEN [@ EXCEPT !.stopped = TRUE]
    ELSE [stopped |-> h.chunked, queue |-> Enqueue(@.queue, q)]]

\* A client sends its next request; the server reads ahead of its handlers.
Arrive(q, h) ==
  /\ head' = [p \in DOMAIN head \union {q} |-> IF p = q THEN h ELSE head[p]]
  /\ UNCHANGED <<order, up, laid>>

Matching(q, queue) == {i \in DOMAIN queue : head[queue[i]].target = head[q].target}

\* Mutant: the newest order of the target is taken.
PopNewest(q, c) ==
  LET queue == recorder[c].queue
      at == Matching(q, queue)
      last == CHOOSE i \in at : \A j \in at : i >= j
  IN /\ recorder' = [recorder EXCEPT ![c].queue =
                       IF at = {} THEN <<>> ELSE SubSeq(queue, 1, last - 1)]
     /\ order' = [order EXCEPT ![q] = IF at = {} THEN NoOne ELSE queue[last]]
     /\ UNCHANGED <<head, up, laid>>

\* wireOrderRecorder.pop: orders of requests the server answered by itself are
\* passed over.
Pop(q, c) ==
  LET queue == recorder[c].queue
      at == Matching(q, queue)
      first == CHOOSE i \in at : \A j \in at : i <= j
  IN /\ recorder' = [recorder EXCEPT ![c].queue =
                       IF at = {} THEN <<>> ELSE SubSeq(queue, first + 1, Len(queue))]
     /\ order' = [order EXCEPT ![q] = IF at = {} THEN NoOne ELSE queue[first]]
     /\ UNCHANGED <<head, up, laid>>

\* The transport gives q a connection, of its pool or a new one (GotConn).  A
\* request without an order leaves the connection's as it is.
GotConn(q, u) ==
  /\ up[u].by = NoOne
  /\ up' = [up EXCEPT ![u] =
              LET conn == IF @.open THEN @ ELSE FreshConn
              IN [conn EXCEPT !.by = q, !.next = IF order[q] = NoOne THEN @ ELSE order[q]]]
  /\ UNCHANGED <<head, recorder, order, laid>>

\* wireOrderConn.relay: a head uses up the order set for it, unless an earlier
\* body could not be framed.
Relay(q, u, framed) ==
  /\ up[u].by = q
  /\ laid' = [laid EXCEPT ![q] = {IF up[u].passthrough THEN NoOne ELSE up[u].next}]
  /\ up' = [up EXCEPT ![u].next = IF up[u].passthrough THEN @ ELSE NoOne,
                      ![u].passthrough = @ \/ ~framed]
  /\ UNCHANGED <<head, recorder, order>>

\* The connection goes back to the pool, or is closed: by the upstream, or
\* with a request that was given up.
Release(q, keep) ==
  /\ up' = [u \in UpConns |->
              IF up[u].by # q THEN up[u]
              ELSE [up[u] EXCEPT !.by = NoOne, !.open = keep]]
  /\ UNCHANGED <<head, recorder, order, laid>>
=============================================================================
