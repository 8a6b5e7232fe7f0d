---------------------------- MODULE RequestPath ----------------------------
(***************************************************************************)
(* The way of requests from their client connections through the handlers  *)
(* of Exchange to the upstream connections of WireOrder, while the posture *)
(* is switched and the session may end.  The requests of one connection    *)
(* are served one after the other; the upstream connections are shared.    *)
(***************************************************************************)
EXTENDS Exchange, WireOrder

CONSTANTS
  ClientOf   \* the client connection of each request

ASSUME RequestPathAssumption ==
  /\ Senders = Requests /\ IsFiniteSet(Requests)
  /\ ClientOf \in [Requests -> Clients]
  /\ \A h \in Heads :
       /\ {"path", "method", "encoded", "json", "body"} \subseteq DOMAIN h
       /\ Len(h.lines) \in Nat /\ DOMAIN h.lines = 1..Len(h.lines)
       /\ \A i \in DOMAIN h.lines : DOMAIN h.lines[i] = {"name", "lower", "value"}
       /\ {"parses", "models"} \subseteq DOMAIN h.body
       /\ h.body.models \in Seq(Models \union {Star, NoModel})
       /\ h.path = "messages" => Len(h.body.models) = 1

vars == <<exchangeVars, orderVars>>

Init == ExchangeInit /\ WireOrderInit

Earlier(q) == {p \in Requests : p < q /\ ClientOf[p] = ClientOf[q]}
Arrived == DOMAIN head
Upcoming(q) == q \notin Arrived /\ Earlier(q) \subseteq Arrived
Next1(q) == q \in Arrived /\ \A p \in Earlier(q) : x[p].pc = "over"

\* The server reads ahead of the handler it runs.  A connection is to one host;
\* a telemetry host's has no recorder.
Arrives(q) ==
  /\ Upcoming(q)
  /\ \E h \in Heads :
       /\ \A p \in Earlier(q) : head[p].host = h.host
       /\ Arrive(q, h)
       /\ IF IsTelemetry(h) THEN UNCHANGED recorder ELSE Observe(q, ClientOf[q], h)
  /\ UNCHANGED exchangeVars

\* OPTIONS * and the like never reach a handler.
ServerAnswers(q) ==
  /\ Next1(q) /\ head[q].target = "*" /\ x[q].pc = "idle"
  /\ Step(q, [x[q] EXCEPT !.pc = "over", !.status = 200])
  /\ UNCHANGED orderVars

\* A handler begins with its posture and its order.
Begin(q) ==
  /\ Next1(q) /\ head[q].target # "*"
  /\ Capture(q)
  /\ IF IsTelemetry(head[q]) THEN UNCHANGED orderVars ELSE Pop(q, ClientOf[q])

Decide(q) ==
  /\ q \in Arrived
  /\ \/ Synthesize(q, head[q]) \/ RefuseUnroutable(q, head[q])
     \/ RefuseAuthMissing(q, head[q]) \/ RefuseRewrite(q, head[q])
     \/ Forward(q, head[q]) \/ ForwardTelemetry(q, head[q])
  /\ UNCHANGED orderVars

\* Only the native transport's connections lay heads out.
Native(q) == x[q].ap.native /\ ~IsTelemetry(head[q])

\* net/http writes a request that came in chunks in chunks, whatever body it has
\* by then.
Framed(q) == ~head[q].chunked
Holds(q) == {u \in UpConns : up[u].by = q}

GetConn(q) ==
  /\ x[q].pc = "ready" /\ Native(q) /\ Holds(q) = {}
  /\ \E u \in UpConns : GotConn(q, u)
  /\ UNCHANGED exchangeVars

\* The connection was dead; the transport takes another.
Retry(q) ==
  /\ x[q].pc = "ready" /\ Holds(q) # {}
  /\ Release(q, FALSE)
  /\ UNCHANGED exchangeVars

WriteHead(q) ==
  /\ Send(q)
  /\ \/ \E u \in UpConns : Relay(q, u, Framed(q))
     \/ /\ ~Native(q)
        /\ laid' = [laid EXCEPT ![q] = {NoOne}]
        /\ UNCHANGED <<head, recorder, order, up>>

Answer(q) ==
  /\ q \in Arrived
  /\ \/ NoAnswer(q, head[q]) /\ Release(q, FALSE)
     \/ ClientLeaves(q, head[q]) /\ Release(q, FALSE)
     \/ /\ AnswerBegins(q, head[q])
        /\ IF x'[q].pc = "answered" THEN Release(q, FALSE) ELSE UNCHANGED orderVars
     \/ Chunk(q) /\ UNCHANGED orderVars
     \/ AnswerEnds(q, head[q]) /\ \E keep \in BOOLEAN : Release(q, keep)
     \/ AnswerBreaks(q, head[q]) /\ Release(q, FALSE)

Records(q) == Record(q) /\ UNCHANGED orderVars

Next ==
  \/ \E q \in Requests : \/ Arrives(q) \/ ServerAnswers(q) \/ Begin(q) \/ Decide(q)
                         \/ GetConn(q) \/ Retry(q) \/ WriteHead(q) \/ Answer(q) \/ Records(q)
  \/ (SwitchPosture \/ EndSession) /\ UNCHANGED orderVars

Spec == Init /\ [][Next]_vars

-----------------------------------------------------------------------------
(* Properties. *)

\* The head that went upstream.
Wire(q) ==
  LET go == GoHead(x[q].out, Framed(q))
  IN IF laid[q] \subseteq {NoOne} THEN go
     ELSE Reorder(head[CHOOSE o \in laid[q] : TRUE].lines, go)

WasSent(q) == laid[q] # {}
Siblings(q) == {p \in Requests : ClientOf[p] = ClientOf[q]}

\* A head goes upstream in the layout of its own request or in net/http's: the
\* orders of requests answered without a handler, of other connections, and
\* the one an upstream connection was set for another request never serve.
\* Only a client that sends more than the queue holds ahead gets the layout of
\* a later request of the same target (wireorder.go: pop, GotConn, relay).
LaidAsSent ==
  /\ WireOrderTypeOK
  /\ \A q \in Requests : \A o \in laid[q] \ {NoOne} :
       /\ ClientOf[o] = ClientOf[q] /\ o >= q /\ head[o].target = head[q].target
       /\ Cardinality(Siblings(q)) <= MaxQueued => o = q

\* A gateway whose credential ccwrap holds gets that credential once, and none
\* of Claude Code's, whatever the layout restores (routeresolve.go:
\* applyAuthOverride; wireorder.go: reorderRequestHead).
GatewayGetsItsOwn ==
  \A q \in Requests :
    WasSent(q) /\ IsAPI(head[q]) /\ x[q].ap.auth.name # "none" =>
      LET auth == x[q].ap.auth
          wire == Wire(q)
          given == {i \in DOMAIN wire : wire[i].name \in Credentials}
      IN \E i \in given : given = {i} /\ wire[i].name = auth.name /\ wire[i].value = auth.value

\* Claude Code reads the name it asked for wherever the upstream names the
\* model it was sent as, even when a switch replaces the aliases in between;
\* so do the results of a batch under explicit aliases that still hold
\* (modelalias.go: withReverse, newContextForRequest).
AnswerNamesWhatWasAsked ==
  \A q \in Requests : \A i \in DOMAIN x[q].got :
    LET e == x[q] IN
    e.answer # <<>> /\ e.answer.kind # "other" =>
      /\ head[q].path = "messages" /\ e.answer.chunks[i] \in e.ctx.sent => e.got[i] \in e.ctx.asked
      /\ IsAPI(head[q]) /\ IsBatchResults(head[q]) =>
           \A p \in Arrived : \A j \in DOMAIN head[p].body.models :
             LET m == head[p].body.models[j] IN
             /\ head[p].path = "batches" /\ p < q /\ x[p].ctx.rewritten
             /\ x[p].ap.alias = e.ap.alias /\ m \in Explicit(e.ap.alias)
             /\ e.answer.chunks[i] = SentAs(e.ap.alias, m)
             => e.got[i] = m

\* No body kept on disk holds a credential field of a credential exchange, in
\* whatever encoding, cut or not; of telemetry, none that was kept whole and is
\* JSON as it was sent, not compressed (bodyredact.go, forward.go).
NoSecretAtRest ==
  \A q \in Arrived : \A k \in DOMAIN NoRefs : \A s \in x[q].refs[k] :
    s.secret /\ s.view = "raw" =>
      \/ Unmask
      \/ ~Redacts(head[q]) /\ ~IsTelemetry(head[q])
      \/ IsTelemetry(head[q]) /\ (s.truncated \/ (k = "body" /\ ~ReadsAsJSON(head[q], head[q].body))
                                  \/ (k = "resp" /\ ~AnswerReadsAsJSON(x[q].answer)))

\* Every request that a handler took leaves a record, also when its response
\* breaks off, unless the session had ended; a response shown as complete was
\* read to its end, and an upstream's error says that it is the upstream's,
\* unless ccwrap cannot write its models back and answers instead
\* (forward.go: serveAbortable; responsetee.go; failure.go: observe).
RecordsTellTheEnd ==
  /\ ExchangeTypeOK
  /\ \A q \in Arrived :
       LET e == x[q] IN
       /\ e.pc = "over" /\ e.record = "none" => ended \/ head[q].target = "*"
       /\ \A s \in e.refs.resp :
            s.truncated \/ (e.answer.ends = "eof" /\ Len(e.answer.chunks) <= Cap)
       /\ e.pc = "over" /\ e.answer # <<>> /\ e.answer.status >= 400 /\ ~IsTelemetry(head[q]) =>
            e.failure.source = IF Rejected(e.ctx, e.answer) THEN "ccwrap" ELSE "upstream"

\* types.go:521 "'ccwrap' (no upstream response, e.g. unreachable)": a request is
\* said to have met no upstream only if the upstream did not answer and the
\* client waited for it.
UnreachableMeansNoAnswer ==
  \A q \in Arrived :
    x[q].failure.source = "ccwrap" => x[q].answer = <<>> /\ ~x[q].left

=============================================================================
