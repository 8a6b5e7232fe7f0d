---------------------------- MODULE RequestProofs ----------------------------
(* Theorems about requests on their way through the proxy, for every set of   *)
(* requests, postures and answers, with their proofs.                         *)
EXTENDS RequestPath, FiniteSetTheorems, SequenceTheorems, WellFoundedInduction, TLAPS

-----------------------------------------------------------------------------
(* The invariant of the handlers. *)

Fields ==
  {"pc", "ap", "body", "out", "diff", "ctx", "refs", "answer", "tee", "got", "status",
   "failure", "left", "record"}
Shaped(e) == DOMAIN e = Fields /\ DOMAIN e.refs = DOMAIN NoRefs

Early == {"idle", "captured", "ready", "sent"}
Places == Early \union {"answering", "answered", "over"}

Typed(e) ==
  /\ e.pc \in Places
  /\ e.ap \in Postures
  /\ e.record \in {"none", "forwarded", "synthetic", "refused"}
  /\ e.status \in {0, 200, 204, 404, 502} \union {a.status : a \in Answers}

\* What a handler has by the place it is at.
Staged(e) ==
  /\ e.pc \in {"idle", "captured"} => e.refs = NoRefs /\ e.record = "none"
  /\ e.pc \in Early => e.answer = <<>> /\ e.refs.resp = {} /\ e.got = <<>>
  /\ e.pc = "answering" => e.answer \in Answers /\ ~Rejected(e.ctx, e.answer)

\* A spill has a view; one of a response, whether it was cut; and it shows a
\* credential only where NoSecretAtRest excepts it.
MayShow(r, e, k, s) ==
  \/ Unmask
  \/ ~Redacts(r) /\ ~IsTelemetry(r)
  \/ IsTelemetry(r) /\ (s.truncated \/ (k = "body" /\ ~ReadsAsJSON(r, r.body))
                        \/ (k = "resp" /\ ~AnswerReadsAsJSON(e.answer)))
Tapped(r, e) ==
  /\ \A k \in DOMAIN NoRefs : \A s \in e.refs[k] :
       /\ s.view \in {"raw", "masked", "withheld", "undecoded"}
       /\ s.secret /\ s.view = "raw" => MayShow(r, e, k, s)
  /\ \A s \in e.refs.resp :
       s.truncated \/ (e.answer.ends = "eof" /\ Len(e.answer.chunks) <= Cap)

\* What the record says of the end.
Told(r, e, gone) ==
  /\ e.pc = "over" /\ e.record = "none" => gone \/ r.target = "*"
  /\ e.answer # <<>> /\ e.answer.status >= 400 /\ ~IsTelemetry(r) =>
       e.failure.source = IF Rejected(e.ctx, e.answer) THEN "ccwrap" ELSE "upstream"

\* An answer reads as the context of its request says.
Shown(e) == {ShownAs(e.ctx, e.answer.kind, m) : m \in Models \union {Star, NoModel}}
Rendered(r, e) ==
  /\ e.pc \in {"idle", "captured"} => e.ctx = NoContext
  /\ e.pc \in {"ready", "sent", "answering"} \/ e.answer # <<>> =>
       e.ctx = IF IsAPI(r) THEN ContextOf(e.ap.alias, AsRead(r)) ELSE NoContext
  /\ e.answer # <<>> =>
       /\ e.got \in Seq(Shown(e)) /\ Len(e.got) <= Len(e.answer.chunks)
       /\ \A i \in DOMAIN e.got : e.got[i] = ShownAs(e.ctx, e.answer.kind, e.answer.chunks[i])

\* So is a handler of a request with the head r; gone: the session has ended.
EntryOK(r, e, gone) ==
  Shaped(e) /\ Typed(e) /\ Staged(e) /\ Tapped(r, e) /\ Told(r, e, gone) /\ Rendered(r, e)

HandlerInv ==
  /\ active \in Postures /\ ended \in BOOLEAN /\ DOMAIN x = Requests
  /\ \A q \in Requests : IF q \in Arrived THEN EntryOK(head[q], x[q], ended)
                                          ELSE \E p \in Postures : x[q] = Idle(p)

(* The invariant of the orders. *)

Queue(c) == recorder[c].queue
Sorted(s) == \A i, j \in DOMAIN s : i < j => s[i] < s[j]
Has(s, p) == \E i \in DOMAIN s : s[i] = p
Below(s, p) == \A i \in DOMAIN s : s[i] < p

ArrivedInv == \A q \in Arrived : Earlier(q) \subseteq Arrived

\* Queued are the heads not handled yet, in the order they came, and those of
\* requests the server answered by itself.
QueuedInv(c) ==
  /\ \A i \in DOMAIN Queue(c) :
       LET o == Queue(c)[i]
       IN  /\ o \in Arrived /\ ClientOf[o] = c /\ ~IsTelemetry(head[o])
           /\ x[o].pc = "idle" \/ head[o].target = "*"
  /\ Sorted(Queue(c))

\* A client that keeps within the queue has every head that waits in it, up to
\* the one the recorder stopped at.
Within(c) == Cardinality({p \in Requests : ClientOf[p] = c}) <= MaxQueued
NoGap(c) ==
  Within(c) =>
    \A p \in Arrived :
      ClientOf[p] = c /\ x[p].pc = "idle" /\ ~IsTelemetry(head[p]) =>
        \/ Has(Queue(c), p)
        \/ recorder[c].stopped /\ Below(Queue(c), p)

\* The order a request was handed is its own, or a later one's of its kind.
OrderInv(q) ==
  LET o == order[q]
  IN  /\ x[q].pc = "idle" => o = NoOne
      /\ o # NoOne =>
           /\ q \in Arrived /\ o \in Arrived /\ o >= q
           /\ ClientOf[o] = ClientOf[q] /\ head[o].target = head[q].target
           /\ Within(ClientOf[q]) => o = q

\* A request's connection has an order only until the head is sent, and that
\* request's; one in the pool has none.
ConnInv(u) ==
  LET k == up[u]
  IN  IF k.by = NoOne THEN k.open => k.next = NoOne \/ k.passthrough
      ELSE /\ k.by \in Arrived /\ Native(k.by) /\ k.open
           /\ x[k.by].pc \in {"ready", "sent", "answering"}
           /\ \/ k.passthrough \/ k.next = NoOne
              \/ x[k.by].pc = "ready" /\ k.next = order[k.by]
           /\ \A v \in UpConns : up[v].by = k.by => v = u

LaidInv(q) ==
  /\ laid[q] \subseteq {NoOne, order[q]}
  /\ x[q].pc \in {"idle", "captured", "ready"} => laid[q] = {}

WireTypes ==
  /\ DOMAIN head \subseteq Requests /\ \A q \in DOMAIN head : head[q] \in Heads
  /\ recorder \in [Clients -> [stopped : BOOLEAN, queue : Seq(Requests)]]
  /\ \A c \in Clients : Len(Queue(c)) <= MaxQueued
  /\ order \in [Requests -> Orders]
  /\ up \in [UpConns -> [by : Orders, next : Orders, passthrough : BOOLEAN, open : BOOLEAN]]
  /\ laid \in [Requests -> SUBSET Orders]

WireInv ==
  /\ WireTypes /\ ArrivedInv
  /\ \A c \in Clients : QueuedInv(c) /\ NoGap(c)
  /\ \A q \in Requests : OrderInv(q) /\ LaidInv(q)
  /\ \A u \in UpConns : ConnInv(u)

RequestInv == HandlerInv /\ WireInv

-----------------------------------------------------------------------------
(* The handlers. *)

\* A handler that has not begun is as the invariant wants it, whatever head comes.
LEMMA IdleIsFine ==
  ASSUME NEW p \in Postures, NEW r, NEW gone
  PROVE  EntryOK(r, Idle(p), gone)
<1> DEFINE e == Idle(p)
<1>1. /\ e.pc = "idle" /\ e.ap = p /\ e.ctx = NoContext /\ e.refs = NoRefs /\ e.answer = <<>>
      /\ e.got = <<>> /\ e.status = 0 /\ e.record = "none"
      /\ DOMAIN e = Fields /\ DOMAIN NoRefs = {"body", "up", "resp"}
      /\ NoRefs.body = {} /\ NoRefs.up = {} /\ NoRefs.resp = {}
  BY DEF Idle, Fields, NoRefs
<1> HIDE DEF e
<1>2. Shaped(e) /\ Typed(e)
  BY <1>1 DEF Shaped, Typed, Places, Early
<1>3. Staged(e)
  BY <1>1 DEF Staged
<1>4. Tapped(r, e)
  BY <1>1 DEF Tapped
<1>5. Told(r, e, gone) /\ Rendered(r, e)
  BY <1>1 DEF Told, Rendered
<1> QED BY <1>2, <1>3, <1>4, <1>5 DEF EntryOK, e

Views == {"raw", "masked", "withheld", "undecoded"}
SpillsFine(r, e, k) ==
  \A s \in e.refs[k] : s.view \in Views /\ (s.secret /\ s.view = "raw" => MayShow(r, e, k, s))

\* Before any answer, a handler's spills are those of the request.
LEMMA BeforeAnswer ==
  ASSUME NEW r, NEW gone, NEW f, Shaped(f), Typed(f), f.answer = <<>>, f.refs.resp = {},
         f.pc \notin {"idle", "answering"},
         f.pc \in Early => f.got = <<>>,
         f.pc = "captured" => f.refs = NoRefs /\ f.record = "none" /\ f.ctx = NoContext,
         f.pc = "over" /\ f.record = "none" => gone \/ r.target = "*",
         f.pc \in {"ready", "sent"} =>
           f.ctx = IF IsAPI(r) THEN ContextOf(f.ap.alias, AsRead(r)) ELSE NoContext,
         SpillsFine(r, f, "body"), SpillsFine(r, f, "up")
  PROVE  EntryOK(r, f, gone)
<1>1. Staged(f) /\ Told(r, f, gone) /\ Rendered(r, f)
  BY DEF Staged, Told, Rendered, Early
<1>2. Tapped(r, f)
  BY DEF Tapped, NoRefs, SpillsFine, Views
<1> QED BY <1>1, <1>2 DEF EntryOK

\* What teeRequestBody and the telemetry tap spill shows a credential only where
\* it may.
LEMMA RequestTaps ==
  ASSUME NEW r, NEW body, NEW e
  PROVE  /\ \A s \in TeeRequest(r, body) :
              s.view \in Views /\ (s.secret /\ s.view = "raw" => Unmask \/ ~Redacts(r))
         /\ IsTelemetry(r) =>
              \A s \in Spill(MaskedTelemetry(ReadsAsJSON(r, r.body)), r.secret, ~r.big, r.big) :
                s.view \in Views /\ (s.secret /\ s.view = "raw" => MayShow(r, e, "body", s))
  BY DEF TeeRequest, Spill, Masked, MaskedTelemetry, Views, MayShow

\* The one handler that moved is at one of the places, with the posture it took.
Became(q, places) ==
  /\ x'[q].pc \in places /\ (x[q].pc # "idle" => x'[q].ap = x[q].ap)
  /\ \A p \in Requests \ {q} : x'[p] = x[p]

\* One handler's step keeps the invariant if what becomes of it does.
LEMMA OneEntry ==
  ASSUME HandlerInv, Arrived \subseteq Requests, NEW q \in Arrived, NEW f, Step(q, f),
         EntryOK(head[q], f, ended), UNCHANGED head
  PROVE  HandlerInv' /\ x'[q] = f /\ \A p \in Requests \ {q} : x'[p] = x[p]
<1>1. /\ x' = [x EXCEPT ![q] = f] /\ UNCHANGED <<active, ended>> /\ Arrived' = Arrived
      /\ DOMAIN x = Requests
  BY DEF Step, Arrived, HandlerInv
<1>2. DOMAIN x' = Requests /\ \A p \in Requests : x'[p] = IF p = q THEN f ELSE x[p]
  BY <1>1
<1> QED BY <1>1, <1>2 DEF HandlerInv

\* A head that arrives finds a handler that has not begun.
LEMMA ArrivesFine ==
  ASSUME HandlerInv, Arrived \subseteq Requests, NEW q \in Requests, NEW h, q \notin Arrived,
         head' = [p \in Arrived \union {q} |-> IF p = q THEN h ELSE head[p]],
         UNCHANGED exchangeVars
  PROVE  HandlerInv'
<1>1. /\ Arrived' = Arrived \union {q} /\ head'[q] = h
      /\ \A p \in Arrived : head'[p] = head[p]
  BY DEF Arrived
<1>2. EntryOK(h, x[q], ended)
  BY IdleIsFine DEF HandlerInv
<1> QED BY <1>1, <1>2 DEF HandlerInv, exchangeVars

\* The server answers a request by itself, or its handler captures the posture.
LEMMA BeginsFine ==
  ASSUME HandlerInv, Arrived \subseteq Requests, NEW q \in Arrived, UNCHANGED head,
         \/ Capture(q)
         \/ /\ x[q].pc = "idle" /\ head[q].target = "*"
            /\ Step(q, [x[q] EXCEPT !.pc = "over", !.status = 200])
  PROVE  HandlerInv' /\ Became(q, {"captured", "over"})
<1> DEFINE r == head[q]
           e == x[q]
<1>1. EntryOK(r, e, ended) /\ active \in Postures
  BY DEF HandlerInv
<1>2. CASE Capture(q)
  <2> DEFINE i == Idle(active)
             f == [i EXCEPT !.pc = "captured"]
  <2>1. Step(q, f)
    BY <1>2 DEF Capture
  <2>2. /\ DOMAIN i = Fields /\ i.ap = active /\ i.ctx = NoContext /\ i.refs = NoRefs
        /\ i.answer = <<>> /\ i.got = <<>> /\ i.status = 0 /\ i.record = "none"
    BY DEF Idle, Fields
  <2> HIDE DEF i
  <2>3. /\ f.pc = "captured" /\ DOMAIN f = Fields /\ f.ap = active /\ f.ctx = NoContext
        /\ f.refs = NoRefs /\ f.answer = <<>> /\ f.got = <<>> /\ f.status = 0 /\ f.record = "none"
    BY <2>2 DEF Fields
  <2> HIDE DEF f
  <2>4. Shaped(f) /\ Typed(f) /\ f.refs.resp = {} /\ f.refs.body = {} /\ f.refs.up = {}
    BY <1>1, <2>3 DEF Shaped, Typed, Places, Early, NoRefs
  <2>5. EntryOK(r, f, ended)
    BY <2>3, <2>4, BeforeAnswer DEF SpillsFine
  <2> QED BY <1>2, <2>1, <2>3, <2>5, OneEntry DEF Capture, Became
<1>3. CASE /\ e.pc = "idle" /\ r.target = "*"
           /\ Step(q, [e EXCEPT !.pc = "over", !.status = 200])
  <2> DEFINE f == [e EXCEPT !.pc = "over", !.status = 200]
  <2>1. Shaped(e) /\ Typed(e) /\ e.refs = NoRefs /\ e.answer = <<>>
    BY <1>1, <1>3 DEF EntryOK, Staged, Early
  <2>2. /\ f.pc = "over" /\ f.status = 200 /\ f.ap = e.ap /\ f.refs = e.refs /\ f.answer = <<>>
        /\ f.record = e.record /\ DOMAIN f = Fields
    BY <2>1 DEF Shaped, Fields
  <2> HIDE DEF f
  <2>3. Shaped(f) /\ Typed(f) /\ f.refs.resp = {} /\ f.refs.body = {} /\ f.refs.up = {}
    BY <2>1, <2>2 DEF Shaped, Typed, Places, Early, NoRefs
  <2>4. EntryOK(r, f, ended)
    BY <1>3, <2>2, <2>3, BeforeAnswer DEF SpillsFine, Early
  <2>5. Step(q, f)
    BY <1>3 DEF f
  <2> QED BY <2>2, <2>4, <2>5, OneEntry DEF Became
<1> QED BY <1>2, <1>3

\* The answer of a handler that refuses, or answers by itself.
LEMMA DecidesItself ==
  ASSUME HandlerInv, Arrived \subseteq Requests, NEW q \in Arrived, UNCHANGED head,
         Synthesize(q, head[q]) \/ RefuseUnroutable(q, head[q]) \/ RefuseAuthMissing(q, head[q])
  PROVE  HandlerInv' /\ Became(q, {"over"})
<1> DEFINE r == head[q]
           e == x[q]
<1>1. /\ EntryOK(r, e, ended) /\ e.pc = "captured"
  BY DEF HandlerInv, Synthesize, RefuseUnroutable, RefuseAuthMissing, Routed
<1>2. Shaped(e) /\ Typed(e) /\ e.refs = NoRefs /\ e.answer = <<>>
  BY <1>1 DEF EntryOK, Staged, Early
<1>3. PICK f : /\ Step(q, f)
               /\ f.pc = "over" /\ f.ap = e.ap /\ f.refs = e.refs /\ f.answer = <<>> /\ DOMAIN f = Fields
               /\ f.status \in {200, 204, 404, 502}
               /\ f.record \in {"none", "synthetic"} /\ (f.record = "none" => ended)
  <2>1. CASE Synthesize(q, r)
    <3> DEFINE got == IF r.path = "models" THEN SetToSeq(Explicit(x[q].ap.alias)) ELSE e.got
               st == SyntheticStatus(r)
               f == [e EXCEPT !.pc = "over", !.status = st, !.got = got, !.record = "synthetic"]
    <3>1. Step(q, f)
      BY <2>1 DEF Synthesize
    <3>2. st \in {200, 204, 404}
      BY DEF SyntheticStatus
    <3> HIDE DEF got, st
    <3>3. /\ f.pc = "over" /\ f.ap = e.ap /\ f.refs = e.refs /\ f.answer = <<>> /\ DOMAIN f = Fields
          /\ f.status = st /\ f.record = "synthetic"
      BY <1>2 DEF Shaped, Fields
    <3> HIDE DEF f
    <3> QED BY <3>1, <3>2, <3>3
  <2>2. CASE RefuseUnroutable(q, r)
    <3> DEFINE f == [e EXCEPT !.pc = "over", !.status = 502]
    <3>1. Step(q, f) /\ ended
      BY <2>2 DEF RefuseUnroutable
    <3>2. /\ f.pc = "over" /\ f.ap = e.ap /\ f.refs = e.refs /\ f.answer = <<>> /\ DOMAIN f = Fields
          /\ f.status = 502 /\ f.record = "none"
      BY <1>1, <1>2 DEF Shaped, Fields, EntryOK, Staged
    <3> QED BY <3>1, <3>2
  <2>3. CASE RefuseAuthMissing(q, r)
    <3> DEFINE f == [e EXCEPT !.pc = "over", !.status = 502, !.record = "synthetic"]
    <3>1. Step(q, f)
      BY <2>3 DEF RefuseAuthMissing
    <3>2. /\ f.pc = "over" /\ f.ap = e.ap /\ f.refs = e.refs /\ f.answer = <<>> /\ DOMAIN f = Fields
          /\ f.status = 502 /\ f.record = "synthetic"
      BY <1>2 DEF Shaped, Fields
    <3> QED BY <3>1, <3>2
  <2> QED BY <2>1, <2>2, <2>3
<1>4. Shaped(f) /\ Typed(f) /\ f.refs.resp = {} /\ f.refs.body = {} /\ f.refs.up = {}
  BY <1>2, <1>3 DEF Shaped, Typed, Places, Early, NoRefs
<1>5. EntryOK(r, f, ended)
  BY <1>3, <1>4, BeforeAnswer DEF SpillsFine, Early
<1> QED BY <1>3, <1>5, OneEntry DEF Became

\* A rewrite that is refused leaves what its tap saw of the request.
LEMMA RefusesRewrite ==
  ASSUME HandlerInv, Arrived \subseteq Requests, NEW q \in Arrived, UNCHANGED head,
         RefuseRewrite(q, head[q])
  PROVE  HandlerInv' /\ Became(q, {"over"})
<1> DEFINE r == head[q]
           e == x[q]
           taken == IF e.ap.capture THEN TeeRequest(r, r.body) ELSE {}
           f == [e EXCEPT !.pc = "over", !.status = 502, !.record = "refused", !.refs.body = taken]
<1>1. EntryOK(r, e, ended) /\ e.pc = "captured" /\ Step(q, f) /\ ~IsTelemetry(r)
  BY DEF HandlerInv, RefuseRewrite, Routed
<1>2. Shaped(e) /\ Typed(e) /\ e.refs = NoRefs /\ e.answer = <<>>
  BY <1>1 DEF EntryOK, Staged, Early
<1>3. \A s \in taken : s.view \in Views /\ (s.secret /\ s.view = "raw" => Unmask \/ ~Redacts(r))
  BY RequestTaps
<1> HIDE DEF taken
<1>4. /\ f.pc = "over" /\ f.ap = e.ap /\ f.answer = <<>> /\ DOMAIN f = Fields
      /\ f.status = 502 /\ f.record = "refused"
  BY <1>2 DEF Shaped, Fields
<1>5. f.refs = [NoRefs EXCEPT !.body = taken]
  BY <1>2 DEF Shaped, Fields
<1> HIDE DEF f
<1>6. f.refs.body = taken /\ f.refs.up = {} /\ f.refs.resp = {} /\ DOMAIN f.refs = DOMAIN NoRefs
  BY <1>5 DEF NoRefs
<1>7. Shaped(f) /\ Typed(f)
  BY <1>2, <1>4, <1>6 DEF Shaped, Typed, Places, Early
<1>8. SpillsFine(r, f, "body") /\ SpillsFine(r, f, "up")
  BY <1>1, <1>3, <1>6 DEF SpillsFine, MayShow
<1>9. EntryOK(r, f, ended)
  BY <1>4, <1>6, <1>7, <1>8, BeforeAnswer DEF Early
<1> QED BY <1>1, <1>4, <1>9, OneEntry DEF Became

\* The handler hands the request to the transport.
LEMMA ForwardsFine ==
  ASSUME HandlerInv, Arrived \subseteq Requests, NEW q \in Arrived, UNCHANGED head,
         Forward(q, head[q]) \/ ForwardTelemetry(q, head[q])
  PROVE  HandlerInv' /\ Became(q, {"ready"})
<1> DEFINE r == head[q]
           e == x[q]
<1>1. EntryOK(r, e, ended) /\ e.pc = "captured"
  BY DEF HandlerInv, Forward, ForwardTelemetry, Routed
<1>2. Shaped(e) /\ Typed(e) /\ e.refs = NoRefs /\ e.answer = <<>> /\ e.got = <<>> /\ e.ctx = NoContext
  BY <1>1 DEF EntryOK, Staged, Rendered, Early
<1>3. CASE Forward(q, r)
  <2> DEFINE p == e.ap
             ctx == IF IsAPI(r) THEN ContextOf(p.alias, AsRead(r)) ELSE NoContext
             body == IF IsAPI(r) THEN RewriteRequest(p.alias, AsRead(r), Keep) ELSE BodyRead(r)
             in == Read(r.lines)
             out == Outgoing(in, IsAPI(r), ctx.normalize, p.own, p.auth)
             diff == Changes(in, out)
             taken == IF p.capture THEN TeeRequest(r, r.body) ELSE {}
             sent == IF p.capture /\ ctx.rewritten THEN TeeRequest(r, body) ELSE {}
             f == [e EXCEPT !.pc = "ready", !.ctx = ctx, !.body = body,
                            !.out = out, !.diff = diff, !.refs.body = taken, !.refs.up = sent]
  <2>1. Step(q, f) /\ ~IsTelemetry(r)
    BY <1>3 DEF Forward, Routed
  <2>2. \A s \in taken \union sent :
          s.view \in Views /\ (s.secret /\ s.view = "raw" => Unmask \/ ~Redacts(r))
    BY RequestTaps
  <2>3. ctx = IF IsAPI(r) THEN ContextOf(e.ap.alias, AsRead(r)) ELSE NoContext
    OBVIOUS
  <2> HIDE DEF ctx, body, in, out, diff, taken, sent
  <2>4. /\ f.pc = "ready" /\ f.ap = e.ap /\ f.answer = <<>> /\ DOMAIN f = Fields /\ f.ctx = ctx
        /\ f.got = <<>> /\ f.record = e.record /\ f.status = e.status
    BY <1>2 DEF Shaped, Fields
  <2>5. f.refs = [NoRefs EXCEPT !.body = taken, !.up = sent]
    BY <1>2 DEF Shaped, Fields
  <2> HIDE DEF f
  <2>6. f.refs.body = taken /\ f.refs.up = sent /\ f.refs.resp = {} /\ DOMAIN f.refs = DOMAIN NoRefs
    BY <2>5 DEF NoRefs
  <2>7. Shaped(f) /\ Typed(f)
    BY <1>2, <2>4, <2>6 DEF Shaped, Typed, Places, Early
  <2>8. SpillsFine(r, f, "body") /\ SpillsFine(r, f, "up")
    BY <2>1, <2>2, <2>6 DEF SpillsFine, MayShow
  <2>9. EntryOK(r, f, ended)
    BY <2>3, <2>4, <2>6, <2>7, <2>8, BeforeAnswer
  <2> QED BY <2>1, <2>4, <2>9, OneEntry DEF Became
<1>4. CASE ForwardTelemetry(q, r)
  <2> DEFINE out == Without(Read(r.lines), HopByHop)
             body == BodyRead(r)
             taken == IF r.cut THEN {}
                      ELSE Spill(MaskedTelemetry(ReadsAsJSON(r, r.body)), r.secret, ~r.big, r.big)
             f == [e EXCEPT !.pc = "ready", !.body = body, !.out = out, !.refs.body = taken]
  <2>1. Step(q, f) /\ IsTelemetry(r)
    BY <1>4 DEF ForwardTelemetry
  <2>2. \A g : \A s \in taken :
          s.view \in Views /\ (s.secret /\ s.view = "raw" => MayShow(r, g, "body", s))
    BY <2>1, RequestTaps
  <2> HIDE DEF out, body, taken
  <2>3. /\ f.pc = "ready" /\ f.ap = e.ap /\ f.answer = <<>> /\ DOMAIN f = Fields /\ f.ctx = NoContext
        /\ f.got = <<>> /\ f.record = e.record /\ f.status = e.status
    BY <1>2 DEF Shaped, Fields
  <2>4. f.refs = [NoRefs EXCEPT !.body = taken]
    BY <1>2 DEF Shaped, Fields
  <2> HIDE DEF f
  <2>5. f.refs.body = taken /\ f.refs.up = {} /\ f.refs.resp = {} /\ DOMAIN f.refs = DOMAIN NoRefs
    BY <2>4 DEF NoRefs
  <2>6. Shaped(f) /\ Typed(f)
    BY <1>2, <2>3, <2>5 DEF Shaped, Typed, Places, Early
  <2>7. SpillsFine(r, f, "body") /\ SpillsFine(r, f, "up")
    BY <2>2, <2>5 DEF SpillsFine
  <2>8. ~IsAPI(r)
    BY <2>1 DEF IsAPI, IsTelemetry
  <2>9. EntryOK(r, f, ended)
    BY <2>3, <2>5, <2>6, <2>7, <2>8, BeforeAnswer
  <2> QED BY <2>1, <2>3, <2>9, OneEntry DEF Became
<1> QED BY <1>3, <1>4
\* What ErrorHandler leaves alone.
LEMMA FailedFields ==
  ASSUME NEW r, NEW e, Shaped(e)
  PROVE  LET g == Failed(r, e)
         IN  /\ g.pc = "answered" /\ g.status = 502 /\ DOMAIN g = Fields
             /\ g.ap = e.ap /\ g.refs = e.refs /\ g.ctx = e.ctx /\ g.answer = e.answer
             /\ g.got = e.got /\ g.record = e.record
             /\ ~IsTelemetry(r) => g.failure.source = "ccwrap"
<1> DEFINE failure == IF IsTelemetry(r) THEN NoFailure
                      ELSE [source |-> "ccwrap", issue |-> "upstream_unreachable", body |-> "none"]
           g == [e EXCEPT !.pc = "answered", !.status = 502, !.failure = failure]
<1>1. ~IsTelemetry(r) => failure.source = "ccwrap"
  OBVIOUS
<1> HIDE DEF failure
<1>2. /\ g.pc = "answered" /\ g.status = 502 /\ DOMAIN g = Fields
      /\ g.ap = e.ap /\ g.refs = e.refs /\ g.ctx = e.ctx /\ g.answer = e.answer
      /\ g.got = e.got /\ g.record = e.record /\ g.failure = failure
  BY DEF Shaped, Fields
<1>3. g = Failed(r, e)
  BY DEF Failed, failure
<1> HIDE DEF g
<1> QED BY <1>1, <1>2, <1>3

\* The same handler a step on, before any answer.
LEMMA StillUnanswered ==
  ASSUME HandlerInv, Arrived \subseteq Requests, NEW q \in Arrived, UNCHANGED head,
         x[q].pc \in {"ready", "sent"}, NEW f, Step(q, f), f.pc \in {"sent", "answered"},
         f.ap = x[q].ap, f.refs = x[q].refs, f.ctx = x[q].ctx, f.answer = x[q].answer,
         f.got = x[q].got, f.record = x[q].record, DOMAIN f = Fields,
         f.status \in {x[q].status, 502}
  PROVE  HandlerInv' /\ x'[q] = f /\ Became(q, {f.pc})
<1> DEFINE r == head[q]
           e == x[q]
<1>1. EntryOK(r, e, ended)
  BY DEF HandlerInv
<1>2. /\ Shaped(e) /\ Typed(e) /\ e.answer = <<>> /\ e.got = <<>> /\ e.refs.resp = {}
      /\ e.ctx = IF IsAPI(r) THEN ContextOf(e.ap.alias, AsRead(r)) ELSE NoContext
  BY <1>1 DEF EntryOK, Staged, Rendered, Early
<1>3. Shaped(f) /\ Typed(f)
  BY <1>2 DEF Shaped, Typed, Places, Early
<1>4. SpillsFine(r, f, "body") /\ SpillsFine(r, f, "up")
  BY <1>1 DEF EntryOK, Tapped, SpillsFine, MayShow, NoRefs, Views
<1>5. EntryOK(r, f, ended)
  BY <1>2, <1>3, <1>4, BeforeAnswer
<1> QED BY <1>5, OneEntry DEF Became

\* The transport takes the head.
LEMMA SendFine ==
  ASSUME HandlerInv, Arrived \subseteq Requests, NEW q \in Arrived, UNCHANGED head, Send(q)
  PROVE  HandlerInv' /\ Became(q, {"sent"})
<1> DEFINE f == [x[q] EXCEPT !.pc = "sent"]
<1>1. Step(q, f) /\ x[q].pc = "ready" /\ DOMAIN x[q] = Fields
  BY DEF Send, HandlerInv, EntryOK, Shaped
<1>2. /\ f.pc = "sent" /\ f.ap = x[q].ap /\ f.refs = x[q].refs /\ f.ctx = x[q].ctx
      /\ f.answer = x[q].answer /\ f.got = x[q].got /\ f.record = x[q].record
      /\ DOMAIN f = Fields /\ f.status = x[q].status
  BY <1>1 DEF Fields
<1> HIDE DEF f
<1> QED BY <1>1, <1>2, StillUnanswered

\* There will be no answer.
LEMMA UnansweredFine ==
  ASSUME HandlerInv, Arrived \subseteq Requests, NEW q \in Arrived, UNCHANGED head,
         NoAnswer(q, head[q]) \/ ClientLeaves(q, head[q])
  PROVE  HandlerInv' /\ Became(q, {"answered"})
<1> DEFINE r == head[q]
           g == Failed(r, x[q])
           h == [g EXCEPT !.left = TRUE]
<1>1. x[q].pc \in {"ready", "sent"} /\ (Step(q, g) \/ Step(q, h)) /\ Shaped(x[q])
  BY DEF NoAnswer, ClientLeaves, HandlerInv, EntryOK
<1>2. /\ g.pc = "answered" /\ g.ap = x[q].ap /\ g.refs = x[q].refs /\ g.ctx = x[q].ctx
      /\ g.answer = x[q].answer /\ g.got = x[q].got /\ g.record = x[q].record
      /\ DOMAIN g = Fields /\ g.status = 502
  BY <1>1, FailedFields
<1> HIDE DEF g
<1>3. /\ h.pc = "answered" /\ h.ap = x[q].ap /\ h.refs = x[q].refs /\ h.ctx = x[q].ctx
      /\ h.answer = x[q].answer /\ h.got = x[q].got /\ h.record = x[q].record
      /\ DOMAIN h = Fields /\ h.status = 502
  BY <1>2 DEF Fields
<1> HIDE DEF h
<1>4. CASE Step(q, g)
  BY <1>1, <1>2, <1>4, StillUnanswered
<1>5. CASE Step(q, h)
  BY <1>1, <1>3, <1>5, StillUnanswered
<1> QED BY <1>1, <1>4, <1>5

\* An answer changes nothing of what was spilled of the request.
LEMMA WithAnswer ==
  ASSUME NEW r, NEW gone, NEW e, EntryOK(r, e, gone), NEW f, Shaped(f), Typed(f),
         f.ap = e.ap, f.ctx = e.ctx, f.refs.body = e.refs.body, f.refs.up = e.refs.up,
         f.answer \in Answers, f.pc \in {"answering", "answered"}, e.pc \in {"sent", "answering"},
         f.pc = "answering" => ~Rejected(f.ctx, f.answer),
         f.got \in Seq(Shown(f)), Len(f.got) <= Len(f.answer.chunks),
         \A i \in DOMAIN f.got : f.got[i] = ShownAs(f.ctx, f.answer.kind, f.answer.chunks[i]),
         SpillsFine(r, f, "resp"),
         \A s \in f.refs.resp :
           s.truncated \/ (f.answer.ends = "eof" /\ Len(f.answer.chunks) <= Cap),
         f.answer.status >= 400 /\ ~IsTelemetry(r) =>
           f.failure.source = IF Rejected(f.ctx, f.answer) THEN "ccwrap" ELSE "upstream"
  PROVE  EntryOK(r, f, gone)
<1>1. f.ctx = IF IsAPI(r) THEN ContextOf(f.ap.alias, AsRead(r)) ELSE NoContext
  BY DEF EntryOK, Rendered
<1>2. Staged(f) /\ Told(r, f, gone) /\ Rendered(r, f)
  BY <1>1 DEF Staged, Told, Rendered, Early
<1>3. SpillsFine(r, f, "body") /\ SpillsFine(r, f, "up")
  BY DEF EntryOK, Tapped, SpillsFine, MayShow, NoRefs, Views
<1>4. Tapped(r, f)
  BY <1>3 DEF Tapped, NoRefs, SpillsFine, Views
<1> QED BY <1>2, <1>4 DEF EntryOK

\* What the taps make of an answer shows a credential only where it may, and is
\* called whole only if it was read to its end.
LEMMA AnswerTaps ==
  ASSUME NEW r, NEW a \in Answers, NEW e, e.answer = a
  PROVE  /\ IsTelemetry(r) =>
              \A s \in TapTelemetry(a) :
                /\ s.view \in Views /\ (s.secret /\ s.view = "raw" => MayShow(r, e, "resp", s))
                /\ s.truncated \/ (a.ends = "eof" /\ Len(a.chunks) <= Cap)
         /\ ~IsTelemetry(r) =>
              \A buf : \A eof \in BOOLEAN : \A s \in TeeResponse(r, a, buf, eof) :
                /\ s.view \in Views /\ (s.secret /\ s.view = "raw" => MayShow(r, e, "resp", s))
                /\ eof /\ (s.truncated \/ Len(a.chunks) <= Cap)
<1> DEFINE n == Len(a.chunks)
<1>1. n \in Nat /\ Cap \in Nat /\ a.ends \in {"eof", "broken"}
  BY ExchangeAssumption
<1>2. Cut(a) <=> ~(n <= Cap)
  BY <1>1 DEF Cut
<1> HIDE DEF n
<1>3. ASSUME NEW s \in TapTelemetry(a), IsTelemetry(r)
      PROVE  /\ s.view \in Views /\ (s.secret /\ s.view = "raw" => MayShow(r, e, "resp", s))
             /\ s.truncated \/ (a.ends = "eof" /\ n <= Cap)
  BY <1>1, <1>2, <1>3 DEF TapTelemetry, Spill, MaskedTelemetry, Views, MayShow
<1>4. ASSUME ~IsTelemetry(r), NEW buf, NEW eof \in BOOLEAN, NEW s \in TeeResponse(r, a, buf, eof)
      PROVE  /\ s.view \in Views /\ (s.secret /\ s.view = "raw" => MayShow(r, e, "resp", s))
             /\ eof /\ (s.truncated \/ n <= Cap)
  BY <1>2, <1>4 DEF TeeResponse, Spill, Masked, Views, MayShow
<1> QED BY <1>3, <1>4 DEF n

\* An answer begins, and reads as the context of its request says.
LEMMA BeginsAnswer ==
  ASSUME HandlerInv, Arrived \subseteq Requests, NEW q \in Arrived, UNCHANGED head,
         AnswerBegins(q, head[q])
  PROVE  HandlerInv' /\ Became(q, {"answering", "answered"})
<1> DEFINE r == head[q]
           e == x[q]
<1>1. EntryOK(r, e, ended) /\ e.pc = "sent"
  BY DEF HandlerInv, AnswerBegins
<1>2. /\ Shaped(e) /\ Typed(e) /\ e.answer = <<>> /\ e.got = <<>> /\ e.refs.resp = {}
  BY <1>1 DEF EntryOK, Staged, Early
<1>3. PICK a \in Answers :
        LET g == [x[q] EXCEPT !.answer = a]
        IN IF Rejected(g.ctx, a)
           THEN Step(q, Failed(r, g))
           ELSE Step(q, [g EXCEPT !.pc = "answering", !.status = a.status,
                           !.refs.resp = IF IsTelemetry(r) THEN TapTelemetry(a) ELSE {},
                           !.failure = IF IsTelemetry(r) THEN NoFailure
                                       ELSE Upstream(a, g.ctx, g.ap, "none")])
  BY DEF AnswerBegins
<1> DEFINE g == [e EXCEPT !.answer = a]
<1>4. /\ DOMAIN g = Fields /\ g.pc = "sent" /\ g.ap = e.ap /\ g.refs = e.refs /\ g.ctx = e.ctx
      /\ g.answer = a /\ g.got = <<>> /\ g.record = e.record /\ g.status = e.status
  BY <1>1, <1>2 DEF Shaped, Fields
<1>5. a.chunks \in Seq(Models \union {Star, NoModel}) /\ a.status \in Nat
  BY ExchangeAssumption
<1>6. Len(<<>>) <= Len(a.chunks)
  BY <1>5
<1>7. CASE Rejected(g.ctx, a)
  <2> DEFINE f == Failed(r, g)
  <2>1. Step(q, f)
    BY <1>3, <1>7
  <2> HIDE DEF g
  <2>2. /\ f.pc = "answered" /\ f.status = 502 /\ DOMAIN f = Fields
        /\ f.ap = e.ap /\ f.refs = e.refs /\ f.ctx = e.ctx /\ f.answer = a
        /\ f.got = <<>> /\ f.record = e.record
        /\ ~IsTelemetry(r) => f.failure.source = "ccwrap"
    BY <1>2, <1>4, FailedFields DEF Shaped
  <2> HIDE DEF f
  <2>3. Shaped(f) /\ Typed(f)
    BY <1>2, <2>2 DEF Shaped, Typed, Places, Early
  <2>4. /\ f.got \in Seq(Shown(f)) /\ DOMAIN f.got = {} /\ Len(f.got) <= Len(f.answer.chunks)
        /\ f.refs.resp = {} /\ Rejected(f.ctx, f.answer)
    BY <1>2, <1>4, <1>6, <1>7, <2>2
  <2>5. /\ SpillsFine(r, f, "resp")
        /\ \A s \in f.refs.resp :
             s.truncated \/ (f.answer.ends = "eof" /\ Len(f.answer.chunks) <= Cap)
        /\ f.answer.status >= 400 /\ ~IsTelemetry(r) =>
             f.failure.source = IF Rejected(f.ctx, f.answer) THEN "ccwrap" ELSE "upstream"
        /\ \A i \in DOMAIN f.got : f.got[i] = ShownAs(f.ctx, f.answer.kind, f.answer.chunks[i])
    BY <2>2, <2>4 DEF SpillsFine
  <2>6. /\ f.refs.body = e.refs.body /\ f.refs.up = e.refs.up /\ f.answer \in Answers
        /\ f.ap = e.ap /\ f.ctx = e.ctx /\ f.pc = "answered"
    BY <2>2
  <2>7. EntryOK(r, f, ended)
    BY <1>1, <2>3, <2>4, <2>5, <2>6, WithAnswer
  <2> QED BY <2>1, <2>2, <2>7, OneEntry DEF Became
<1>8. CASE ~Rejected(g.ctx, a)
  <2> DEFINE tap == IF IsTelemetry(r) THEN TapTelemetry(a) ELSE {}
             failure == IF IsTelemetry(r) THEN NoFailure ELSE Upstream(a, g.ctx, g.ap, "none")
             st == a.status
             f == [g EXCEPT !.pc = "answering", !.status = st, !.refs.resp = tap,
                            !.failure = failure]
  <2>1. Step(q, f)
    BY <1>3, <1>8
  <2>2. ~IsTelemetry(r) /\ st >= 400 => failure.source = "upstream"
    BY <1>5 DEF Upstream
  <2> HIDE DEF g, failure, tap, st
  <2>3. /\ f.pc = "answering" /\ f.status = st /\ DOMAIN f = Fields
        /\ f.ap = e.ap /\ f.ctx = e.ctx /\ f.answer = a
        /\ f.got = <<>> /\ f.record = e.record /\ f.failure = failure
    BY <1>4 DEF Fields
  <2>4. f.refs = [e.refs EXCEPT !.resp = tap]
    BY <1>4 DEF Fields
  <2> HIDE DEF f
  <2>5. /\ f.refs.body = e.refs.body /\ f.refs.up = e.refs.up /\ f.refs.resp = tap
        /\ DOMAIN f.refs = DOMAIN NoRefs
    BY <1>2, <2>4 DEF Shaped, NoRefs
  <2>6. Shaped(f) /\ Typed(f)
    BY <1>2, <2>3, <2>5 DEF Shaped, Typed, Places, Early, st
  <2>7. /\ f.got \in Seq(Shown(f)) /\ DOMAIN f.got = {} /\ Len(f.got) <= Len(f.answer.chunks)
        /\ ~Rejected(f.ctx, f.answer)
    BY <1>4, <1>6, <1>8, <2>3
  <2>8. /\ SpillsFine(r, f, "resp")
        /\ \A s \in f.refs.resp :
             s.truncated \/ (f.answer.ends = "eof" /\ Len(f.answer.chunks) <= Cap)
    BY <2>3, <2>5, AnswerTaps DEF SpillsFine, tap
  <2>9. f.answer.status >= 400 /\ ~IsTelemetry(r) => f.failure.source = "upstream"
    BY <2>2, <2>3 DEF st
  <2>10. EntryOK(r, f, ended)
    BY <1>1, <2>3, <2>5, <2>6, <2>7, <2>8, <2>9, WithAnswer
  <2> QED BY <2>1, <2>3, <2>10, OneEntry DEF Became
<1> QED BY <1>7, <1>8

\* So does each of its chunks.
LEMMA ChunkFine ==
  ASSUME HandlerInv, Arrived \subseteq Requests, NEW q \in Arrived, UNCHANGED head, Chunk(q)
  PROVE  HandlerInv' /\ Became(q, {"answering"})
<1> DEFINE r == head[q]
           e == x[q]
           a == e.answer
           m == a.chunks[Len(e.got) + 1]
           v == ShownAs(e.ctx, a.kind, m)
           got == Append(e.got, v)
           tee == IF Len(e.tee) < Cap THEN Append(e.tee, m) ELSE e.tee
           f == [e EXCEPT !.got = got, !.tee = tee]
<1>1. EntryOK(r, e, ended) /\ e.pc = "answering" /\ Len(e.got) < Len(a.chunks) /\ Step(q, f)
  BY DEF HandlerInv, Chunk
<1>2. Shaped(e) /\ Typed(e) /\ a \in Answers /\ ~Rejected(e.ctx, a) /\ e.answer # <<>>
  BY <1>1, ExchangeAssumption DEF EntryOK, Staged
<1>3. /\ e.got \in Seq(Shown(e)) /\ \A i \in DOMAIN e.got : e.got[i] = ShownAs(e.ctx, a.kind, a.chunks[i])
  BY <1>1, <1>2 DEF EntryOK, Rendered
<1>4. a.chunks \in Seq(Models \union {Star, NoModel})
  BY <1>2, ExchangeAssumption
<1>5. m \in Models \union {Star, NoModel} /\ Len(e.got) + 1 <= Len(a.chunks)
  <2> HIDE DEF a
  <2>1. Len(e.got) \in Nat /\ Len(a.chunks) \in Nat
    BY <1>3, <1>4
  <2> QED BY <1>1, <1>4, <2>1
<1>6. v \in Shown(e)
  BY <1>5 DEF Shown
<1> HIDE DEF v, m
<1>7. /\ got \in Seq(Shown(e)) /\ Len(got) = Len(e.got) + 1 /\ DOMAIN got = 1..(Len(e.got) + 1)
      /\ \A i \in DOMAIN got : got[i] = IF i = Len(e.got) + 1 THEN v ELSE e.got[i]
      /\ DOMAIN e.got = 1..Len(e.got) /\ Len(e.got) \in Nat
  BY <1>3, <1>6
<1>8. \A i \in DOMAIN got : got[i] = ShownAs(e.ctx, a.kind, a.chunks[i])
  <2> TAKE i \in DOMAIN got
  <2> HIDE DEF got, a
  <2>1. CASE i = Len(e.got) + 1
    BY <1>7, <2>1 DEF v, m
  <2>2. CASE i # Len(e.got) + 1
    BY <1>3, <1>7, <2>2
  <2> QED BY <2>1, <2>2
<1> HIDE DEF got, tee
<1>9. /\ f.pc = "answering" /\ f.status = e.status /\ DOMAIN f = Fields
      /\ f.ap = e.ap /\ f.ctx = e.ctx /\ f.answer = a /\ f.refs = e.refs
      /\ f.got = got /\ f.record = e.record /\ f.failure = e.failure
  BY <1>1, <1>2 DEF Shaped, Fields
<1> HIDE DEF f, a
<1>10. Shaped(f) /\ Typed(f)
  BY <1>2, <1>9 DEF Shaped, Typed, Places, Early
<1>11. /\ SpillsFine(r, f, "resp")
       /\ \A s \in f.refs.resp :
            s.truncated \/ (f.answer.ends = "eof" /\ Len(f.answer.chunks) <= Cap)
  BY <1>1, <1>9 DEF EntryOK, Tapped, SpillsFine, MayShow, NoRefs, Views, a
<1>12. f.answer.status >= 400 /\ ~IsTelemetry(r) =>
         f.failure.source = IF Rejected(f.ctx, f.answer) THEN "ccwrap" ELSE "upstream"
  BY <1>1, <1>2, <1>9 DEF EntryOK, Told, a
<1>13. /\ f.got \in Seq(Shown(f)) /\ Len(f.got) <= Len(f.answer.chunks)
       /\ \A i \in DOMAIN f.got : f.got[i] = ShownAs(f.ctx, f.answer.kind, f.answer.chunks[i])
  <2>1. f.answer = e.answer
    BY <1>9 DEF a
  <2>2. Shown(f) = Shown(e)
    BY <1>9, <2>1 DEF Shown
  <2> QED BY <1>5, <1>7, <1>8, <1>9, <2>2
<1>14. EntryOK(r, f, ended)
  BY <1>1, <1>2, <1>9, <1>10, <1>11, <1>12, <1>13, WithAnswer DEF a
<1> QED BY <1>1, <1>9, <1>14, OneEntry DEF Became

\* A response is closed, at its end or when it breaks off.
LEMMA ClosesFine ==
  ASSUME HandlerInv, Arrived \subseteq Requests, NEW q \in Arrived, UNCHANGED head,
         AnswerEnds(q, head[q]) \/ AnswerBreaks(q, head[q])
  PROVE  HandlerInv' /\ Became(q, {"answered"})
<1> DEFINE r == head[q]
           e == x[q]
           a == e.answer
<1>1. EntryOK(r, e, ended) /\ e.pc = "answering"
  BY DEF HandlerInv, AnswerEnds, AnswerBreaks
<1>2. /\ Shaped(e) /\ Typed(e) /\ a \in Answers /\ ~Rejected(e.ctx, a) /\ e.answer # <<>>
      /\ a.status \in Nat
  BY <1>1, ExchangeAssumption DEF EntryOK, Staged
<1>3. PICK eof \in BOOLEAN, left \in {e.left, TRUE} :
        /\ Step(q, [Closed(r, e, eof) EXCEPT !.left = left])
        /\ eof => a.ends = "eof"
  <2>1. \A eof \in BOOLEAN :
          Closed(r, e, eof) = [Closed(r, e, eof) EXCEPT !.left = e.left]
    <3> TAKE eof \in BOOLEAN
    <3> DEFINE tap == IF IsTelemetry(r) THEN e.refs.resp
                      ELSE IF e.ap.capture THEN TeeResponse(r, a, e.tee, eof) ELSE {}
               failure == IF eof /\ e.failure.source = "upstream" /\ e.tee # <<>> /\ Decodes(a)
                          THEN Upstream(a, e.ctx, e.ap, IF Cut(a) THEN "cut" ELSE "whole")
                          ELSE e.failure
               c == [e EXCEPT !.pc = "answered", !.refs.resp = tap, !.failure = failure]
    <3>1. Closed(r, e, eof) = c
      BY DEF Closed
    <3> HIDE DEF tap, failure
    <3>2. c.left = e.left
      BY <1>2 DEF Shaped, Fields
    <3>3. c = [c EXCEPT !.left = e.left]
      BY <3>2, <1>2 DEF Shaped, Fields
    <3> QED BY <3>1, <3>3
  <2>2. CASE AnswerEnds(q, r)
    BY <2>1, <2>2 DEF AnswerEnds
  <2>3. CASE AnswerBreaks(q, r)
    BY <2>1, <2>3 DEF AnswerBreaks
  <2> QED BY <2>2, <2>3
<1> DEFINE tap == IF IsTelemetry(r) THEN e.refs.resp
                  ELSE IF e.ap.capture THEN TeeResponse(r, a, e.tee, eof) ELSE {}
           failure == IF eof /\ e.failure.source = "upstream" /\ e.tee # <<>> /\ Decodes(a)
                      THEN Upstream(a, e.ctx, e.ap, IF Cut(a) THEN "cut" ELSE "whole")
                      ELSE e.failure
           c == [e EXCEPT !.pc = "answered", !.refs.resp = tap, !.failure = failure]
           f == [c EXCEPT !.left = left]
<1>4. Step(q, f)
  BY <1>3 DEF Closed
<1>5. a.status >= 400 /\ ~IsTelemetry(r) => failure.source = "upstream"
  <2>1. a.status >= 400 /\ ~IsTelemetry(r) => e.failure.source = "upstream"
    BY <1>1, <1>2 DEF EntryOK, Told
  <2> QED BY <1>2, <2>1 DEF Upstream
<1>6. \A s \in tap :
        /\ s.view \in Views /\ (s.secret /\ s.view = "raw" => MayShow(r, e, "resp", s))
        /\ s.truncated \/ (a.ends = "eof" /\ Len(a.chunks) <= Cap)
  <2>1. CASE IsTelemetry(r)
    BY <1>1, <2>1 DEF EntryOK, Tapped, NoRefs, Views
  <2>2. CASE ~IsTelemetry(r)
    <3> HIDE DEF a, r, e
    <3> QED BY <1>2, <1>3, <2>2, AnswerTaps DEF a
  <2> QED BY <2>1, <2>2
<1> HIDE DEF tap, failure
<1>7. /\ c.pc = "answered" /\ c.status = e.status /\ DOMAIN c = Fields
      /\ c.ap = e.ap /\ c.ctx = e.ctx /\ c.answer = e.answer
      /\ c.got = e.got /\ c.record = e.record /\ c.failure = failure
  BY <1>2 DEF Shaped, Fields
<1>8. c.refs = [e.refs EXCEPT !.resp = tap]
  BY <1>2 DEF Shaped, Fields
<1> HIDE DEF c
<1>9. /\ f.pc = "answered" /\ f.status = e.status /\ DOMAIN f = Fields
      /\ f.ap = e.ap /\ f.ctx = e.ctx /\ f.answer = e.answer
      /\ f.got = e.got /\ f.record = e.record /\ f.failure = failure
      /\ f.refs = [e.refs EXCEPT !.resp = tap]
  BY <1>7, <1>8 DEF Fields
<1> HIDE DEF f
<1>10. /\ f.refs.body = e.refs.body /\ f.refs.up = e.refs.up /\ f.refs.resp = tap
       /\ DOMAIN f.refs = DOMAIN NoRefs
  BY <1>2, <1>9 DEF Shaped, NoRefs
<1>11. Shaped(f) /\ Typed(f)
  BY <1>2, <1>9, <1>10 DEF Shaped, Typed, Places, Early
<1>12. /\ SpillsFine(r, f, "resp")
       /\ \A s \in f.refs.resp :
            s.truncated \/ (f.answer.ends = "eof" /\ Len(f.answer.chunks) <= Cap)
  BY <1>6, <1>9, <1>10 DEF SpillsFine, MayShow
<1>13. f.answer.status >= 400 /\ ~IsTelemetry(r) =>
         f.failure.source = IF Rejected(f.ctx, f.answer) THEN "ccwrap" ELSE "upstream"
  BY <1>2, <1>5, <1>9
<1>14. /\ f.got \in Seq(Shown(f)) /\ Len(f.got) <= Len(f.answer.chunks)
       /\ \A i \in DOMAIN f.got : f.got[i] = ShownAs(f.ctx, f.answer.kind, f.answer.chunks[i])
  <2>1. Shown(f) = Shown(e)
    BY <1>9 DEF Shown
  <2> QED BY <1>1, <1>2, <1>9, <2>1 DEF EntryOK, Rendered
<1>15. EntryOK(r, f, ended)
  BY <1>1, <1>2, <1>9, <1>10, <1>11, <1>12, <1>13, <1>14, WithAnswer
<1> QED BY <1>4, <1>9, <1>15, OneEntry DEF Became

\* The handler makes its record.
LEMMA RecordFine ==
  ASSUME HandlerInv, Arrived \subseteq Requests, NEW q \in Arrived, UNCHANGED head, Record(q)
  PROVE  HandlerInv' /\ Became(q, {"over"})
<1> DEFINE r == head[q]
           e == x[q]
           f == [e EXCEPT !.pc = "over", !.record = "forwarded"]
<1>1. EntryOK(r, e, ended) /\ e.pc = "answered" /\ Step(q, f)
  BY DEF HandlerInv, Record
<1>2. /\ f.pc = "over" /\ f.record = "forwarded" /\ DOMAIN f = Fields
      /\ f.status = e.status /\ f.ap = e.ap /\ f.ctx = e.ctx /\ f.answer = e.answer
      /\ f.refs = e.refs /\ f.got = e.got /\ f.failure = e.failure
  BY <1>1 DEF EntryOK, Shaped, Fields
<1> HIDE DEF f
<1>3. Shaped(f) /\ Typed(f) /\ Staged(f)
  BY <1>1, <1>2 DEF EntryOK, Shaped, Typed, Staged, Places, Early
<1>4. Tapped(r, f)
  BY <1>1, <1>2 DEF EntryOK, Tapped, MayShow
<1>5. Told(r, f, ended)
  BY <1>1, <1>2 DEF EntryOK, Told
<1>6. Rendered(r, f)
  BY <1>1, <1>2 DEF EntryOK, Rendered, Shown
<1>7. EntryOK(r, f, ended)
  BY <1>3, <1>4, <1>5, <1>6 DEF EntryOK
<1> QED BY <1>1, <1>2, <1>7, OneEntry DEF Became

\* A switch of the posture leaves the handlers alone; once the session has
\* ended, so it stays.
LEMMA SessionFine ==
  ASSUME HandlerInv, UNCHANGED head, SwitchPosture \/ EndSession
  PROVE  HandlerInv'
<1>1. UNCHANGED x /\ active' \in Postures /\ ended' \in BOOLEAN /\ (ended => ended')
  BY DEF HandlerInv, SwitchPosture, EndSession
<1>2. Arrived' = Arrived
  BY DEF Arrived
<1>3. ASSUME NEW q \in Arrived, EntryOK(head[q], x[q], ended)
      PROVE  EntryOK(head[q], x[q], ended')
  BY <1>1, <1>3 DEF EntryOK, Told
<1> QED BY <1>1, <1>2, <1>3 DEF HandlerInv
-----------------------------------------------------------------------------
(* The orders. *)

\* A step of a handler that the orders do not notice.
Calm(p) ==
  /\ x'[p].pc = "idle" => x[p].pc = "idle"
  /\ x[p].pc = "idle" /\ p \in Arrived =>
       x'[p].pc = "idle" \/ head[p].target = "*" \/ IsTelemetry(head[p])
  /\ x'[p].pc \in {"idle", "captured", "ready"} => x[p].pc \in {"idle", "captured", "ready"}

\* A step that leaves a request on its connection.
Rides(p) ==
  /\ order'[p] = order[p] /\ x'[p].ap = x[p].ap
  /\ x'[p].pc \in {"ready", "sent", "answering"} /\ (x[p].pc = "ready" => x'[p].pc = "ready")

\* The queues stay as they are while the handlers take such steps.
LEMMA QueuesKeep ==
  ASSUME WireInv, UNCHANGED <<head, recorder>>, \A p \in Requests : Calm(p)
  PROVE  ArrivedInv' /\ \A c \in Clients : (QueuedInv(c) /\ NoGap(c))'
<1>1. Arrived' = Arrived /\ Arrived \subseteq Requests
  BY DEF Arrived, WireInv, WireTypes
<1>2. ArrivedInv'
  BY <1>1 DEF WireInv, ArrivedInv, Earlier
<1>3. ASSUME NEW c \in Clients  PROVE QueuedInv(c)'
  <2>1. Queue(c)' = Queue(c)
    BY DEF Queue
  <2>2. QueuedInv(c)
    BY DEF WireInv
  <2> QED BY <1>1, <2>1, <2>2 DEF QueuedInv, Calm
<1>4. ASSUME NEW c \in Clients  PROVE NoGap(c)'
  <2>1. Queue(c)' = Queue(c) /\ recorder'[c].stopped = recorder[c].stopped
    BY DEF Queue
  <2>2. NoGap(c)
    BY DEF WireInv
  <2> QED BY <1>1, <2>1, <2>2 DEF NoGap, Calm, Within
<1> QED BY <1>2, <1>3, <1>4

\* So do the orders handed out.
LEMMA QueuesStay ==
  ASSUME WireInv, UNCHANGED <<head, recorder, order, laid>>, \A p \in Requests : Calm(p)
  PROVE  /\ ArrivedInv' /\ \A c \in Clients : (QueuedInv(c) /\ NoGap(c))'
         /\ \A q \in Requests : (OrderInv(q) /\ LaidInv(q))'
<1>1. Arrived' = Arrived /\ Arrived \subseteq Requests
  BY DEF Arrived, WireInv, WireTypes
<1>2. ASSUME NEW q \in Requests  PROVE OrderInv(q)' /\ LaidInv(q)'
  <2>1. OrderInv(q) /\ LaidInv(q)
    BY DEF WireInv
  <2>2. OrderInv(q)'
    BY <1>1, <2>1 DEF OrderInv, Calm, Within
  <2>3. LaidInv(q)'
    BY <2>1 DEF LaidInv, Calm
  <2> QED BY <2>2, <2>3
<1> QED BY <1>2, QueuesKeep

\* So does a connection whose request rides on.
LEMMA ConnStays ==
  ASSUME WireInv, NEW u \in UpConns, up'[u] = up[u],
         \A p \in Arrived : p \in Arrived' /\ head'[p] = head[p],
         up[u].by # NoOne => Rides(up[u].by),
         \A v \in UpConns : v # u => up'[v].by \in {up[v].by, NoOne}
  PROVE  ConnInv(u)'
<1>1. ConnInv(u)
  BY DEF WireInv
<1>2. CASE up[u].by = NoOne
  BY <1>1, <1>2 DEF ConnInv
<1>3. CASE up[u].by # NoOne
  <2> DEFINE b == up[u].by
  <2>1. /\ b \in Arrived /\ b \in Arrived' /\ head'[b] = head[b] /\ up'[u].by = b
        /\ x'[b].ap = x[b].ap /\ order'[b] = order[b]
        /\ x'[b].pc \in {"ready", "sent", "answering"} /\ (x[b].pc = "ready" => x'[b].pc = "ready")
    BY <1>1, <1>3 DEF ConnInv, Rides
  <2>2. Native(b)'
    BY <1>1, <1>3, <2>1 DEF ConnInv, Native
  <2>3. \A v \in UpConns : up'[v].by = b => v = u
    BY <1>1, <1>3 DEF ConnInv
  <2> QED BY <1>1, <1>3, <2>1, <2>2, <2>3 DEF ConnInv
<1> QED BY <1>2, <1>3

\* A handler's step that changes no order.
LEMMA HandlerOnly ==
  ASSUME WireInv, UNCHANGED orderVars, \A p \in Requests : Calm(p),
         \A u \in UpConns : up[u].by # NoOne => Rides(up[u].by)
  PROVE  WireInv'
<1> USE DEF orderVars
<1>1. WireTypes'
  BY DEF WireInv, WireTypes, Queue
<1>2. ASSUME NEW u \in UpConns  PROVE ConnInv(u)'
  <2>1. Arrived' = Arrived
    BY DEF Arrived
  <2> QED BY <2>1, ConnStays
<1> QED BY <1>1, <1>2, QueuesStay DEF WireInv

\* A request gives its connection back, or the connection is closed.
LEMMA ReleaseFine ==
  ASSUME WireInv, NEW q \in Requests, NEW keep \in BOOLEAN, Release(q, keep),
         keep => x[q].pc # "ready",
         \A p \in Requests : Calm(p), \A p \in Requests \ {q} : x'[p] = x[p]
  PROVE  WireInv'
<1>0. q # NoOne
  BY WireOrderAssumption
<1>1. UNCHANGED <<head, recorder, order, laid>> /\ Arrived' = Arrived /\ Arrived \subseteq Requests
  BY DEF Release, Arrived, WireInv, WireTypes
<1>2. WireTypes /\ up \in [UpConns -> [by : Orders, next : Orders, passthrough : BOOLEAN, open : BOOLEAN]]
  BY DEF WireInv, WireTypes
<1>3. \A v \in UpConns :
        up'[v] = IF up[v].by # q THEN up[v] ELSE [up[v] EXCEPT !.by = NoOne, !.open = keep]
  BY DEF Release
<1>4. \A v \in UpConns :
        /\ up'[v] \in [by : Orders, next : Orders, passthrough : BOOLEAN, open : BOOLEAN]
        /\ up'[v].by = IF up[v].by = q THEN NoOne ELSE up[v].by
        /\ up'[v].next = up[v].next /\ up'[v].passthrough = up[v].passthrough
        /\ up[v].by = q => up'[v].open = keep
  <2> TAKE v \in UpConns
  <2> DEFINE k == up[v]
             g == [k EXCEPT !.by = NoOne, !.open = keep]
  <2>1. k \in [by : Orders, next : Orders, passthrough : BOOLEAN, open : BOOLEAN] /\ NoOne \in Orders
    BY <1>2 DEF Orders
  <2>2. up'[v] = IF k.by # q THEN k ELSE g
    BY <1>3
  <2> HIDE DEF k
  <2>3. /\ g \in [by : Orders, next : Orders, passthrough : BOOLEAN, open : BOOLEAN]
        /\ g.by = NoOne /\ g.next = k.next /\ g.passthrough = k.passthrough /\ g.open = keep
    BY <2>1
  <2> HIDE DEF g
  <2> QED BY <2>1, <2>2, <2>3 DEF k
<1>5. WireTypes'
  <2>1. up' \in [UpConns -> [by : Orders, next : Orders, passthrough : BOOLEAN, open : BOOLEAN]]
    BY <1>4 DEF Release
  <2> QED BY <1>1, <1>2, <2>1 DEF WireTypes, Queue
<1>6. ASSUME NEW u \in UpConns  PROVE ConnInv(u)'
  <2>1. ConnInv(u)
    BY DEF WireInv
  <2>2. CASE up[u].by = q
    BY <1>0, <1>4, <2>1, <2>2 DEF ConnInv
  <2>3. CASE up[u].by # q
    <3>1. up[u].by # NoOne => Rides(up[u].by)
      BY <1>1, <2>1, <2>3 DEF ConnInv, Rides
    <3> QED BY <1>1, <1>3, <1>4, <2>3, <3>1, ConnStays
  <2> QED BY <2>2, <2>3
<1> QED BY <1>1, <1>5, <1>6, QueuesStay DEF WireInv

\* The transport gives a request a connection.
LEMMA GetConnFine ==
  ASSUME WireInv, NEW q \in Arrived, NEW u \in UpConns, x[q].pc = "ready", Native(q),
         Holds(q) = {}, GotConn(q, u), UNCHANGED x
  PROVE  WireInv'
<1>1. /\ UNCHANGED <<head, recorder, order, laid>> /\ Arrived' = Arrived /\ Arrived \subseteq Requests
      /\ up[u].by = NoOne /\ q # NoOne
  BY WireOrderAssumption DEF GotConn, Arrived, WireInv, WireTypes
<1>2. WireTypes /\ up \in [UpConns -> [by : Orders, next : Orders, passthrough : BOOLEAN, open : BOOLEAN]]
      /\ order[q] \in Orders /\ q \in Orders
  BY <1>1 DEF WireInv, WireTypes, Orders
<1> DEFINE conn == IF up[u].open THEN up[u] ELSE FreshConn
           next == IF order[q] = NoOne THEN conn.next ELSE order[q]
           k == [conn EXCEPT !.by = q, !.next = next]
<1>3. /\ conn \in [by : Orders, next : Orders, passthrough : BOOLEAN, open : BOOLEAN]
      /\ conn.open = TRUE /\ (conn.next = NoOne \/ conn.passthrough)
  <2>1. ConnInv(u)
    BY DEF WireInv
  <2>2. FreshConn \in [by : Orders, next : Orders, passthrough : BOOLEAN, open : BOOLEAN]
    BY DEF FreshConn, Orders
  <2>3. FreshConn.open = TRUE /\ FreshConn.next = NoOne
    BY DEF FreshConn
  <2> QED BY <1>1, <1>2, <2>1, <2>2, <2>3 DEF ConnInv
<1>4. up' = [up EXCEPT ![u] = k]
  BY DEF GotConn
<1>5. next \in Orders /\ (conn.passthrough \/ next \in {NoOne, order[q]})
  BY <1>2, <1>3
<1> HIDE DEF conn, next
<1>6. /\ k \in [by : Orders, next : Orders, passthrough : BOOLEAN, open : BOOLEAN]
      /\ k.by = q /\ k.next = next /\ k.passthrough = conn.passthrough /\ k.open = TRUE
  BY <1>2, <1>3, <1>5
<1> HIDE DEF k
<1>7. up'[u] = k /\ \A v \in UpConns : v # u => up'[v] = up[v]
  BY <1>2, <1>4
<1>8. WireTypes'
  <2>1. up' \in [UpConns -> [by : Orders, next : Orders, passthrough : BOOLEAN, open : BOOLEAN]]
    BY <1>2, <1>4, <1>6
  <2> QED BY <1>1, <1>2, <2>1 DEF WireTypes, Queue
<1>9. ASSUME NEW v \in UpConns  PROVE ConnInv(v)'
  <2>1. ConnInv(v)
    BY DEF WireInv
  <2>2. up[v].by # q
    BY DEF Holds
  <2>3. CASE v = u
    <3>1. q \in Arrived' /\ Native(q)' /\ x'[q].pc = "ready"
      BY <1>1 DEF Native
    <3>2. \A w \in UpConns : up'[w].by = q => w = u
      BY <1>7 DEF Holds
    <3>3. k.passthrough \/ k.next = NoOne \/ k.next = order'[q]
      BY <1>1, <1>5, <1>6
    <3> QED BY <1>1, <1>6, <1>7, <2>3, <3>1, <3>2, <3>3 DEF ConnInv
  <2>4. CASE v # u /\ up[v].by = NoOne
    BY <1>7, <2>1, <2>4 DEF ConnInv
  <2>5. CASE v # u /\ up[v].by # NoOne
    <3> DEFINE b == up[v].by
    <3>1. /\ b \in Arrived' /\ Native(b)' /\ up'[v] = up[v]
          /\ \A w \in UpConns : up'[w].by = b => w = v
      BY <1>1, <1>6, <1>7, <2>1, <2>2, <2>5 DEF ConnInv, Native
    <3> QED BY <1>1, <2>1, <2>5, <3>1 DEF ConnInv
  <2> QED BY <2>3, <2>4, <2>5
<1>10. \A p \in Requests : Calm(p)
  BY DEF Calm
<1> QED BY <1>1, <1>8, <1>9, <1>10, QueuesStay DEF WireInv
\* A head goes out on its request's connection, in its order or in net/http's.
LEMMA RelayFine ==
  ASSUME WireInv, NEW q \in Arrived, NEW u \in UpConns, NEW framed \in BOOLEAN,
         x[q].pc = "ready", x'[q].pc = "sent", x'[q].ap = x[q].ap,
         \A p \in Requests \ {q} : x'[p] = x[p], Relay(q, u, framed)
  PROVE  WireInv'
<1>1. /\ UNCHANGED <<head, recorder, order>> /\ Arrived' = Arrived /\ Arrived \subseteq Requests
      /\ up[u].by = q /\ q # NoOne
  BY WireOrderAssumption DEF Relay, Arrived, WireInv, WireTypes
<1>2. /\ WireTypes /\ up \in [UpConns -> [by : Orders, next : Orders, passthrough : BOOLEAN, open : BOOLEAN]]
      /\ order[q] \in Orders /\ q \in Requests /\ laid \in [Requests -> SUBSET Orders]
      /\ NoOne \in Orders
  BY <1>1 DEF WireInv, WireTypes, Orders
<1>3. ConnInv(u)
  BY DEF WireInv
<1> DEFINE k == up[u]
           o == IF k.passthrough THEN NoOne ELSE k.next
           next == IF k.passthrough THEN k.next ELSE NoOne
           passthrough == k.passthrough \/ ~framed
           g == [k EXCEPT !.next = next, !.passthrough = passthrough]
<1>4. o \in {NoOne, order[q]}
  BY <1>1, <1>3 DEF ConnInv
<1>5. k \in [by : Orders, next : Orders, passthrough : BOOLEAN, open : BOOLEAN]
  BY <1>2
<1>6. laid' = [laid EXCEPT ![q] = {o}]
  BY DEF Relay
<1>7. up' = [up EXCEPT ![u] = g]
  <2>1. up' = [up EXCEPT ![u].next = next, ![u].passthrough = passthrough]
    BY DEF Relay
  <2> QED BY <1>2, <2>1
<1>8. next \in Orders /\ passthrough \in BOOLEAN /\ (passthrough \/ next = NoOne)
  BY <1>2, <1>5
<1> HIDE DEF k, o, next, passthrough
<1>9. /\ g \in [by : Orders, next : Orders, passthrough : BOOLEAN, open : BOOLEAN]
      /\ g.by = k.by /\ g.next = next /\ g.passthrough = passthrough /\ g.open = k.open
  BY <1>5, <1>8
<1> HIDE DEF g
<1>10. up'[u] = g /\ \A v \in UpConns : v # u => up'[v] = up[v]
  BY <1>2, <1>7
<1>11. laid'[q] = {o} /\ \A p \in Requests : p # q => laid'[p] = laid[p]
  BY <1>2, <1>6
<1>12. WireTypes'
  <2>1. up' \in [UpConns -> [by : Orders, next : Orders, passthrough : BOOLEAN, open : BOOLEAN]]
    BY <1>2, <1>7, <1>9
  <2>2. laid' \in [Requests -> SUBSET Orders]
    BY <1>2, <1>4, <1>6
  <2> QED BY <1>1, <1>2, <2>1, <2>2 DEF WireTypes, Queue
<1>13. ASSUME NEW v \in UpConns  PROVE ConnInv(v)'
  <2>1. ConnInv(v)
    BY DEF WireInv
  <2>2. CASE v = u
    <3>1. q \in Arrived' /\ Native(q)' /\ k.by = q /\ k.open
      BY <1>1, <1>3 DEF Native, ConnInv, k
    <3>2. \A w \in UpConns : up'[w].by = q => w = u
      BY <1>1, <1>3, <1>10 DEF ConnInv
    <3> QED BY <1>1, <1>8, <1>9, <1>10, <2>2, <3>1, <3>2 DEF ConnInv
  <2>3. CASE v # u
    <3>1. up[v].by # NoOne => up[v].by \in Requests \ {q}
      BY <1>1, <1>3, <2>1, <2>3 DEF ConnInv
    <3>2. up[v].by # NoOne => Rides(up[v].by)
      BY <1>1, <2>1, <3>1 DEF ConnInv, Rides
    <3>3. \A w \in UpConns : w # v => up'[w].by \in {up[w].by, NoOne}
      BY <1>1, <1>9, <1>10 DEF k
    <3> QED BY <1>1, <1>10, <2>3, <3>2, <3>3, ConnStays
  <2> QED BY <2>2, <2>3
<1>14. /\ \A p \in Requests : Calm(p)
  BY DEF Calm
<1>15. ASSUME NEW p \in Requests  PROVE OrderInv(p)' /\ LaidInv(p)'
  <2>1. OrderInv(p) /\ LaidInv(p) /\ Calm(p)
    BY <1>14 DEF WireInv
  <2>2. OrderInv(p)'
    BY <1>1, <2>1 DEF OrderInv, Calm, Within
  <2>3. LaidInv(p)'
    BY <1>1, <1>4, <1>11, <2>1 DEF LaidInv, Calm
  <2> QED BY <2>2, <2>3
<1> QED BY <1>1, <1>12, <1>13, <1>14, <1>15, QueuesKeep DEF WireInv

\* A head that another transport lays out goes in net/http's order.
LEMMA PlainFine ==
  ASSUME WireInv, NEW q \in Arrived, x[q].pc = "ready", x'[q].pc = "sent", ~Native(q),
         \A p \in Requests \ {q} : x'[p] = x[p],
         laid' = [laid EXCEPT ![q] = {NoOne}], UNCHANGED <<head, recorder, order, up>>
  PROVE  WireInv'
<1>1. Arrived' = Arrived /\ Arrived \subseteq Requests /\ WireTypes /\ laid \in [Requests -> SUBSET Orders]
      /\ NoOne \in Orders
  BY DEF Arrived, WireInv, WireTypes, Orders
<1>2. laid'[q] = {NoOne} /\ \A p \in Requests : p # q => laid'[p] = laid[p]
  BY <1>1
<1>3. WireTypes'
  <2>1. laid' \in [Requests -> SUBSET Orders]
    BY <1>1
  <2> QED BY <1>1, <2>1 DEF WireTypes, Queue
<1>4. ASSUME NEW v \in UpConns  PROVE ConnInv(v)'
  <2>1. ConnInv(v)
    BY DEF WireInv
  <2>2. up[v].by # NoOne => up[v].by \in Requests \ {q}
    BY <1>1, <2>1 DEF ConnInv
  <2>3. up[v].by # NoOne => Rides(up[v].by)
    BY <2>1, <2>2 DEF ConnInv, Rides
  <2> QED BY <1>1, <2>3, ConnStays
<1>5. \A p \in Requests : Calm(p)
  BY DEF Calm
<1>6. ASSUME NEW p \in Requests  PROVE OrderInv(p)' /\ LaidInv(p)'
  <2>1. OrderInv(p) /\ LaidInv(p) /\ Calm(p)
    BY <1>5 DEF WireInv
  <2>2. OrderInv(p)'
    BY <1>1, <2>1 DEF OrderInv, Calm, Within
  <2>3. LaidInv(p)'
    BY <1>1, <1>2, <2>1 DEF LaidInv, Calm
  <2> QED BY <2>2, <2>3
<1> QED BY <1>3, <1>4, <1>5, <1>6, QueuesKeep DEF WireInv
\* A set of numbers that is not empty has a least one.
LEMMA LeastOne ==
  ASSUME NEW S \in SUBSET Nat, S # {}
  PROVE  \E i \in S : \A j \in S : i <= j
<1> DEFINE R == OpToRel(<, Nat)
<1>1. IsWellFoundedOn(R, Nat)
  BY NatLessThanWellFounded, Zenon
<1>2. \A a, b \in Nat : a < b => <<a, b>> \in R
  BY DEF OpToRel
<1> HIDE DEF R
<1>3. PICK i \in S : \A j \in S : ~(<<j, i>> \in R)
  BY <1>1, WFMin
<1>4. ASSUME NEW j \in S  PROVE i <= j
  <2>1. i \in Nat /\ j \in Nat /\ ~(j < i)
    BY <1>2, <1>3
  <2> QED BY <2>1
<1> QED BY <1>4

\* A queue takes a new order, and drops one only when it is full.
LEMMA EnqueueKeeps ==
  ASSUME NEW s \in Seq(Requests), Sorted(s), NEW q \in Requests, Below(s, q), Len(s) <= MaxQueued
  PROVE  LET t == Enqueue(s, q)
         IN  /\ t \in Seq(Requests) /\ Len(t) <= MaxQueued /\ Sorted(t) /\ Has(t, q)
             /\ \A i \in DOMAIN t : t[i] = q \/ Has(s, t[i])
             /\ Len(s) < MaxQueued => \A p : Has(s, p) => Has(t, p)
<1> DEFINE n == Len(s)
           d == IF n = MaxQueued THEN 1 ELSE 0
           base == IF n = MaxQueued THEN Tail(s) ELSE s
           t == Append(base, q)
<1>1. /\ n \in Nat /\ MaxQueued \in Nat \ {0} /\ DOMAIN s = 1..n /\ Requests \subseteq Nat
      /\ Len(s) = n /\ n <= MaxQueued
  BY WireOrderAssumption
<1> HIDE DEF n
<1>2. /\ base \in Seq(Requests) /\ Len(base) = n - d /\ d \in {0, 1}
      /\ \A i \in 1..(n - d) : base[i] = s[i + d]
  <2>1. CASE n = MaxQueued
    <3>1. s # <<>>
      BY <1>1, <2>1
    <3>2. Tail(s) \in Seq(Requests) /\ Len(Tail(s)) = n - 1 /\ \A i \in 1..(n - 1) : Tail(s)[i] = s[i + 1]
      <4>1. /\ Tail(s) \in Seq(Requests) /\ Len(Tail(s)) = n - 1
            /\ \A i \in 1..Len(Tail(s)) : Tail(s)[i] = s[i + 1]
        BY <1>1, <3>1, HeadTailProperties
      <4> QED BY <4>1
    <3> QED BY <2>1, <3>2
  <2>2. CASE n # MaxQueued
    <3>1. d = 0 /\ base = s /\ n - 0 = n /\ \A i \in 1..n : i + 0 = i
      BY <1>1, <2>2
    <3> QED BY <1>1, <3>1
  <2> QED BY <2>1, <2>2
<1>3. n - d < MaxQueued /\ n - d \in Nat /\ (n < MaxQueued => d = 0)
  <2>1. CASE n = MaxQueued
    BY <1>1, <2>1
  <2>2. CASE n # MaxQueued
    BY <1>1, <2>2
  <2> QED BY <2>1, <2>2
<1> HIDE DEF base, d
<1> DEFINE m == n - d
<1>4. m \in Nat /\ m < MaxQueued /\ Len(base) = m /\ (n < MaxQueued => d = 0 /\ m = n)
  BY <1>1, <1>2, <1>3
<1>5. \A i \in 1..m : i + d \in 1..n /\ base[i] = s[i + d]
  BY <1>1, <1>2
<1> HIDE DEF m
<1>6. /\ t \in Seq(Requests) /\ Len(t) = m + 1 /\ DOMAIN t = 1..(m + 1)
      /\ \A i \in 1..m : t[i] = base[i]
      /\ t[m + 1] = q
  BY <1>2, <1>4, AppendProperties
<1> HIDE DEF t
<1>7. Len(t) <= MaxQueued /\ Has(t, q)
  BY <1>1, <1>4, <1>6 DEF Has
<1>8. \A i \in 1..m : t[i] = s[i + d] /\ i + d \in DOMAIN s
  BY <1>1, <1>5, <1>6
<1>9. Sorted(t)
  <2> SUFFICES ASSUME NEW i \in 1..(m + 1), NEW j \in 1..(m + 1), i < j  PROVE t[i] < t[j]
    BY <1>6 DEF Sorted
  <2>1. i \in 1..m
    BY <1>4
  <2>2. CASE j = m + 1
    BY <1>6, <1>8, <2>1, <2>2 DEF Below
  <2>3. CASE j \in 1..m
    <3>1. i + d < j + d
      BY <1>2
    <3> QED BY <1>8, <2>1, <2>3, <3>1 DEF Sorted
  <2> QED BY <1>4, <2>2, <2>3
<1>10. \A i \in DOMAIN t : t[i] = q \/ Has(s, t[i])
  <2> TAKE i \in DOMAIN t
  <2>1. CASE i = m + 1
    BY <1>6, <2>1
  <2>2. CASE i \in 1..m
    BY <1>8, <2>2 DEF Has
  <2> QED BY <1>4, <1>6, <2>1, <2>2
<1>11. n < MaxQueued => \A p : Has(s, p) => Has(t, p)
  <2> SUFFICES ASSUME n < MaxQueued, NEW i \in DOMAIN s  PROVE Has(t, s[i])
    BY DEF Has
  <2>1. d = 0 /\ i \in 1..m /\ i + 0 = i
    BY <1>1, <1>4
  <2> QED BY <1>4, <1>6, <1>8, <2>1 DEF Has
<1> QED BY <1>6, <1>7, <1>9, <1>10, <1>11 DEF Enqueue, t, base, n

\* A client with no more requests than the queue holds never fills it before
\* its last one.
LEMMA RoomForMore ==
  ASSUME NEW c \in Clients, NEW s \in Seq(Requests), Sorted(s),
         \A i \in DOMAIN s : ClientOf[s[i]] = c,
         NEW q \in Requests, ClientOf[q] = c, Below(s, q), Within(c)
  PROVE  Len(s) < MaxQueued
<1> DEFINE n == Len(s)
           S == {p \in Requests : ClientOf[p] = c}
           t == [i \in 1..(n + 1) |-> IF i = n + 1 THEN q ELSE s[i]]
<1>1. n \in Nat /\ MaxQueued \in Nat /\ DOMAIN s = 1..n /\ Requests \subseteq Nat
  BY WireOrderAssumption
<1>2. IsFiniteSet(S)
  BY RequestPathAssumption, FS_Subset
<1>3. \A i \in 1..n : s[i] \in S /\ s[i] < q
  BY <1>1 DEF Below
<1>4. t \in [1..(n + 1) -> S]
  BY <1>1, <1>3
<1>5. ASSUME NEW i \in 1..(n + 1), NEW j \in 1..(n + 1), i < j  PROVE t[i] < t[j]
  <2>1. i \in 1..n
    BY <1>1, <1>5
  <2>2. CASE j = n + 1
    BY <1>1, <1>3, <2>1, <2>2
  <2>3. CASE j \in 1..n
    BY <1>1, <1>5, <2>1, <2>3 DEF Sorted
  <2> QED BY <1>1, <2>2, <2>3
<1>6. t \in Injection(1..(n + 1), S)
  <2>1. ASSUME NEW i \in 1..(n + 1), NEW j \in 1..(n + 1), t[i] = t[j]  PROVE i = j
    <3>1. t[i] \in Nat /\ t[j] \in Nat
      BY <1>1, <1>4
    <3> HIDE DEF t
    <3>2. ~(i < j) /\ ~(j < i)
      BY <1>5, <2>1, <3>1
    <3> QED BY <1>1, <3>2
  <2> HIDE DEF t
  <2>2. DOMAIN t = 1..(n + 1)
    BY <1>4
  <2> QED BY <1>4, <2>1, <2>2 DEF Injection, IsInjective
<1> HIDE DEF t, S
<1>7. Cardinality(1..(n + 1)) <= Cardinality(S)
  BY <1>2, <1>6, FS_Injection
<1>8. Cardinality(1..(n + 1)) = n + 1
  BY <1>1, FS_Interval
<1>9. Cardinality(S) \in Nat /\ Cardinality(S) <= MaxQueued
  BY <1>2, FS_CardinalityType DEF Within, S
<1> QED BY <1>1, <1>7, <1>8, <1>9

\* What is left of a queue once an order and those before it are gone.
LEMMA RestOfQueue ==
  ASSUME NEW s \in Seq(Requests), Sorted(s), NEW f \in DOMAIN s
  PROVE  LET t == SubSeq(s, f + 1, Len(s))
         IN  /\ t \in Seq(Requests) /\ Len(t) <= Len(s) /\ Sorted(t)
             /\ \A i \in DOMAIN t : \E k \in DOMAIN s : f < k /\ t[i] = s[k]
             /\ \A k \in DOMAIN s : f < k => Has(t, s[k])
<1> DEFINE n == Len(s)
           m == n - f
           t == SubSeq(s, f + 1, n)
<1>1. n \in Nat /\ DOMAIN s = 1..n /\ f \in 1..n /\ m \in Nat
  OBVIOUS
<1>2. /\ t \in Seq(Requests) /\ Len(t) = m /\ DOMAIN t = 1..m
      /\ \A i \in 1..m : t[i] = s[f + i] /\ f + i \in DOMAIN s
  <2>1. \A i \in (f + 1)..n : s[i] \in Requests
    BY <1>1
  <2>2. /\ t \in Seq(Requests)
        /\ Len(t) = IF f + 1 <= n THEN n - (f + 1) + 1 ELSE 0
        /\ \A i \in 1..(n - (f + 1) + 1) : t[i] = s[(f + 1) + i - 1]
    BY <1>1, <2>1, SubSeqProperties
  <2> HIDE DEF t
  <2>3. Len(t) = m /\ n - (f + 1) + 1 = m
    BY <1>1, <2>2
  <2>4. \A i \in 1..m : (f + 1) + i - 1 = f + i /\ f + i \in 1..n
    BY <1>1
  <2>5. DOMAIN t = 1..m
    BY <2>2, <2>3
  <2> QED BY <1>1, <2>2, <2>3, <2>4, <2>5
<1> HIDE DEF t
<1>3. Sorted(t)
  <2> SUFFICES ASSUME NEW i \in 1..m, NEW j \in 1..m, i < j  PROVE t[i] < t[j]
    BY <1>2 DEF Sorted
  <2>1. f + i < f + j
    BY <1>1
  <2> QED BY <1>2, <2>1 DEF Sorted
<1>4. \A i \in DOMAIN t : \E k \in DOMAIN s : f < k /\ t[i] = s[k]
  <2> TAKE i \in DOMAIN t
  <2>1. f < f + i
    BY <1>1, <1>2
  <2> QED BY <1>2, <2>1
<1>5. ASSUME NEW k \in DOMAIN s, f < k  PROVE Has(t, s[k])
  <2>1. k - f \in 1..m /\ f + (k - f) = k
    BY <1>1, <1>5
  <2> QED BY <1>2, <2>1 DEF Has
<1>6. Len(t) <= n
  BY <1>1, <1>2
<1> QED BY <1>2, <1>3, <1>4, <1>5, <1>6 DEF t
\* A handler is handed its own order where the client kept within the queue, and
\* never an older one.
LEMMA PopFine ==
  ASSUME WireInv, NEW q \in Arrived, x[q].pc = "idle", head[q].target # "*",
         ~IsTelemetry(head[q]), \A p \in Earlier(q) : x[p].pc = "over",
         x'[q].pc = "captured", \A p \in Requests \ {q} : x'[p] = x[p], Pop(q, ClientOf[q])
  PROVE  WireInv'
<1> DEFINE c == ClientOf[q]
           s == recorder[c].queue
           at == Matching(q, s)
           first == CHOOSE i \in at : \A j \in at : i <= j
           t == IF at = {} THEN <<>> ELSE SubSeq(s, first + 1, Len(s))
           o == IF at = {} THEN NoOne ELSE s[first]
<1>1. /\ WireTypes /\ UNCHANGED <<head, up, laid>> /\ Arrived' = Arrived /\ Arrived \subseteq Requests
      /\ Requests \subseteq Nat /\ NoOne \notin Requests /\ NoOne \in Orders
      /\ recorder \in [Clients -> [stopped : BOOLEAN, queue : Seq(Requests)]]
      /\ order \in [Requests -> Orders]
  BY WireOrderAssumption DEF Pop, Arrived, WireInv, WireTypes, Orders
<1>2. /\ c \in Clients /\ s \in Seq(Requests) /\ Queue(c) = s /\ Len(s) <= MaxQueued
      /\ Requests \subseteq Orders
  BY <1>1, RequestPathAssumption DEF Queue, WireTypes, Orders
<1>3. recorder' = [recorder EXCEPT ![c].queue = t] /\ order' = [order EXCEPT ![q] = o]
  BY DEF Pop
<1>4. QueuedInv(c) /\ NoGap(c)
  BY <1>2 DEF WireInv
<1>5. /\ Sorted(s)
      /\ \A i \in DOMAIN s : /\ s[i] \in Arrived /\ ClientOf[s[i]] = c /\ ~IsTelemetry(head[s[i]])
                             /\ x[s[i]].pc = "idle" \/ head[s[i]].target = "*"
  BY <1>2, <1>4 DEF QueuedInv
<1>6. \A i \in DOMAIN s : i \in at <=> head[s[i]].target = head[q].target
  BY DEF Matching
<1>7. at # {} => first \in at /\ \A j \in at : first <= j
  <2>1. at \subseteq Nat
    BY <1>2 DEF Matching
  <2> HIDE DEF at
  <2> QED BY <2>1, LeastOne
<1>8. at \subseteq DOMAIN s
  BY DEF Matching
<1> HIDE DEF at, first
\* Whatever waits, is not older than q; and q itself is there, unless the
\* recorder stopped before it.
<1>9. ASSUME NEW i \in at  PROVE s[i] >= q
  <2>1. x[s[i]].pc = "idle" /\ s[i] \in Requests /\ ClientOf[s[i]] = c /\ q \in Requests
    BY <1>1, <1>5, <1>6, <1>8
  <2>2. s[i] \notin Earlier(q)
    BY <2>1
  <2>3. s[i] \in Nat /\ q \in Nat /\ ~(s[i] < q)
    BY <1>1, <2>1, <2>2 DEF Earlier
  <2> HIDE DEF s
  <2> QED BY <2>3
<1>10. ASSUME Within(c)
       PROVE  \/ \E i \in at : s[i] = q
              \/ recorder[c].stopped /\ at = {} /\ Below(s, q)
  <2>1. Has(s, q) \/ (recorder[c].stopped /\ Below(s, q))
    BY <1>2, <1>4, <1>10 DEF NoGap
  <2>2. CASE Has(s, q)
    BY <1>6, <2>2 DEF Has
  <2>3. CASE recorder[c].stopped /\ Below(s, q)
    <3>1. ASSUME NEW i \in at  PROVE FALSE
      <4>1. s[i] < q /\ s[i] >= q
        BY <1>8, <1>9, <2>3 DEF Below
      <4>2. s[i] \in Nat /\ q \in Nat
        BY <1>1, <1>5, <1>8
      <4> HIDE DEF s
      <4> QED BY <4>1, <4>2
    <3> QED BY <2>3, <3>1
  <2> QED BY <2>1, <2>2, <2>3
<1>11. o # NoOne =>
         /\ at # {} /\ o \in Arrived /\ o >= q /\ ClientOf[o] = c /\ head[o].target = head[q].target
         /\ Within(c) => o = q
  <2> SUFFICES ASSUME at # {}
               PROVE  /\ s[first] \in Arrived /\ s[first] >= q /\ ClientOf[s[first]] = c
                      /\ head[s[first]].target = head[q].target
                      /\ Within(c) => s[first] = q
    OBVIOUS
  <2>1. first \in DOMAIN s /\ first \in at
    BY <1>7, <1>8
  <2>2. ASSUME Within(c)  PROVE s[first] = q
    <3>1. PICK i \in at : s[i] = q
      BY <1>10, <2>2
    <3>2. first <= i /\ i \in DOMAIN s /\ first \in Int /\ i \in Int
      BY <1>2, <1>7, <1>8, <2>1, <3>1
    <3>3. CASE first = i
      BY <3>1, <3>3
    <3>4. CASE first < i
      <4>1. s[first] < q /\ s[first] >= q
        BY <1>5, <1>9, <2>1, <3>1, <3>2, <3>4 DEF Sorted
      <4>2. s[first] \in Nat /\ q \in Nat
        BY <1>1, <1>5, <2>1
      <4> HIDE DEF s
      <4> QED BY <4>1, <4>2
    <3> QED BY <3>2, <3>3, <3>4
  <2> QED BY <1>5, <1>6, <1>9, <2>1, <2>2
<1>12. /\ t \in Seq(Requests) /\ Len(t) <= MaxQueued /\ Sorted(t)
       /\ \A i \in DOMAIN t : \E k \in DOMAIN s : t[i] = s[k] /\ s[k] # q
       /\ at # {} => \A k \in DOMAIN s : first < k => Has(t, s[k])
  <2>1. CASE at = {}
    BY <2>1, WireOrderAssumption DEF Sorted
  <2>2. CASE at # {}
    <3>1. first \in DOMAIN s /\ t = SubSeq(s, first + 1, Len(s))
      BY <1>7, <1>8, <2>2
    <3> HIDE DEF t
    <3>2. /\ t \in Seq(Requests) /\ Len(t) <= Len(s) /\ Sorted(t)
          /\ \A i \in DOMAIN t : \E k \in DOMAIN s : first < k /\ t[i] = s[k]
          /\ \A k \in DOMAIN s : first < k => Has(t, s[k])
      BY <1>2, <1>5, <3>1, RestOfQueue
    <3>3. ASSUME NEW k \in DOMAIN s, first < k  PROVE s[k] # q
      <4>1. s[first] < s[k] /\ s[first] >= q
        BY <1>5, <1>7, <1>9, <2>2, <3>1, <3>3 DEF Sorted
      <4>2. s[first] \in Nat /\ q \in Nat /\ s[k] \in Nat
        BY <1>1, <1>5, <3>1
      <4> HIDE DEF s
      <4> QED BY <4>1, <4>2
    <3>4. Len(t) <= MaxQueued
      <4>1. Len(t) \in Nat /\ Len(s) \in Nat /\ MaxQueued \in Nat
        BY <1>2, <3>2, WireOrderAssumption
      <4> QED BY <1>2, <3>2, <4>1
    <3> QED BY <3>2, <3>3, <3>4
  <2> QED BY <2>1, <2>2
<1> HIDE DEF t, o
<1>13. /\ \A d \in Clients : Queue(d)' = IF d = c THEN t ELSE Queue(d)
       /\ \A d \in Clients : recorder'[d].stopped = recorder[d].stopped
       /\ recorder' \in [Clients -> [stopped : BOOLEAN, queue : Seq(Requests)]]
  BY <1>1, <1>2, <1>3, <1>12 DEF Queue
<1>14. /\ order'[q] = o /\ \A p \in Requests : p # q => order'[p] = order[p]
       /\ order' \in [Requests -> Orders]
  <2>1. o \in Orders
    BY <1>1, <1>2, <1>11
  <2> QED BY <1>1, <1>3, <2>1
<1>15. WireTypes'
  BY <1>1, <1>12, <1>13, <1>14 DEF WireTypes
<1>16. ArrivedInv'
  BY <1>1 DEF WireInv, ArrivedInv, Earlier
<1>17. ASSUME NEW d \in Clients  PROVE QueuedInv(d)'
  <2>1. CASE d = c
    <3>1. Queue(d)' = t
      BY <1>13, <2>1
    <3>2. ASSUME NEW i \in DOMAIN t
          PROVE  /\ t[i] \in Arrived' /\ ClientOf[t[i]] = d /\ ~IsTelemetry(head'[t[i]])
                 /\ x'[t[i]].pc = "idle" \/ head'[t[i]].target = "*"
      <4>1. PICK k \in DOMAIN s : t[i] = s[k] /\ s[k] # q
        BY <1>12
      <4>2. x'[s[k]] = x[s[k]]
        BY <1>1, <1>5, <4>1
      <4> QED BY <1>1, <1>5, <2>1, <4>1, <4>2
    <3> QED BY <1>12, <3>1, <3>2 DEF QueuedInv
  <2>2. CASE d # c
    <3>1. Queue(d)' = Queue(d) /\ QueuedInv(d)
      BY <1>13, <2>2 DEF WireInv
    <3>2. \A i \in DOMAIN Queue(d) : x'[Queue(d)[i]] = x[Queue(d)[i]]
      BY <1>1, <2>2, <3>1 DEF QueuedInv
    <3> QED BY <1>1, <3>1, <3>2 DEF QueuedInv
  <2> QED BY <2>1, <2>2
<1>18. ASSUME NEW d \in Clients  PROVE NoGap(d)'
  <2> SUFFICES ASSUME Within(d), NEW p \in Arrived, ClientOf[p] = d, x'[p].pc = "idle",
                      ~IsTelemetry(head[p])
               PROVE  \/ Has(Queue(d)', p)
                      \/ recorder'[d].stopped /\ Below(Queue(d)', p)
    BY <1>1 DEF NoGap, Within
  <2>1. p # q /\ p \in Requests /\ x[p].pc = "idle"
    BY <1>1
  <2>2. NoGap(d)
    BY DEF WireInv
  <2>3. Has(Queue(d), p) \/ (recorder[d].stopped /\ Below(Queue(d), p))
    BY <2>1, <2>2 DEF NoGap
  <2>4. CASE d # c
    BY <1>13, <2>3, <2>4
  <2>5. CASE d = c /\ at = {}
    <3>1. recorder[c].stopped /\ t = <<>>
      BY <1>10, <2>5 DEF t
    <3> QED BY <1>13, <2>5, <3>1 DEF Below
  <2>6. CASE d = c /\ at # {}
    <3>1. PICK j \in at : s[j] = q
      BY <1>10, <2>6
    <3>2. first \in DOMAIN s /\ s[first] = q
      <4>1. first \in DOMAIN s /\ s[first] \in Requests
        BY <1>2, <1>7, <1>8, <2>6
      <4>2. o = s[first] /\ o # NoOne
        BY <1>1, <2>6, <4>1 DEF o
      <4> QED BY <1>11, <2>6, <4>1, <4>2
    <3>3. CASE Has(s, p)
      <4>1. PICK k \in DOMAIN s : s[k] = p
        BY <3>3 DEF Has
      <4>2. first < k
        <5>1. k \in Int /\ first \in Int
          BY <1>2, <3>2
        <5>2. k # first
          BY <2>1, <3>2, <4>1
        <5>3. ~(k < first)
          <6> SUFFICES ASSUME k < first  PROVE FALSE
            OBVIOUS
          <6>1. p < q
            BY <1>5, <3>2, <4>1 DEF Sorted
          <6>2. p \in Earlier(q)
            BY <2>1, <2>6, <6>1 DEF Earlier
          <6> QED BY <2>1, <6>2
        <5> QED BY <5>1, <5>2, <5>3
      <4> QED BY <1>12, <1>13, <2>6, <4>1, <4>2
    <3>4. CASE recorder[d].stopped /\ Below(s, p)
      <4>1. Below(t, p)
        BY <1>12, <3>4 DEF Below
      <4> QED BY <1>13, <2>6, <3>4, <4>1
    <3> QED BY <1>2, <2>3, <2>6, <3>3, <3>4
  <2> QED BY <2>4, <2>5, <2>6
<1>19. ASSUME NEW p \in Requests  PROVE OrderInv(p)' /\ LaidInv(p)'
  <2>1. OrderInv(p) /\ LaidInv(p)
    BY DEF WireInv
  <2>2. CASE p = q
    <3>1. OrderInv(p)'
      BY <1>1, <1>11, <1>14, <2>2 DEF OrderInv, Within
    <3>2. laid'[q] = {}
      BY <1>1, <2>1, <2>2 DEF LaidInv
    <3> QED BY <2>2, <3>1, <3>2 DEF LaidInv
  <2>3. CASE p # q
    <3>1. x'[p] = x[p] /\ order'[p] = order[p] /\ laid'[p] = laid[p]
      BY <1>1, <1>14, <2>3
    <3>2. OrderInv(p)'
      BY <1>1, <2>1, <3>1 DEF OrderInv, Within
    <3>3. LaidInv(p)'
      BY <2>1, <3>1 DEF LaidInv
    <3> QED BY <3>2, <3>3
  <2> QED BY <2>2, <2>3
<1>20. ASSUME NEW u \in UpConns  PROVE ConnInv(u)'
  <2>1. ConnInv(u)
    BY DEF WireInv
  <2>2. up[u].by # NoOne => up[u].by \in Requests \ {q}
    BY <1>1, <2>1 DEF ConnInv
  <2>3. up[u].by # NoOne => Rides(up[u].by)
    BY <1>14, <2>1, <2>2 DEF ConnInv, Rides
  <2> QED BY <1>1, <2>3, ConnStays
<1> QED BY <1>15, <1>16, <1>17, <1>18, <1>19, <1>20 DEF WireInv
\* The recorder of a client has its next head, stops at it, or had stopped.
LEMMA ArrivalIsSeen ==
  ASSUME WireInv, HandlerInv, NEW q \in Requests, Arrives(q)
  PROVE  WireInv'
<1> DEFINE c == ClientOf[q]
<1>1. PICK h \in Heads :
        /\ Arrive(q, h)
        /\ IF IsTelemetry(h) THEN UNCHANGED recorder ELSE Observe(q, c, h)
  BY DEF Arrives
<1>2. /\ q \notin Arrived /\ Earlier(q) \subseteq Arrived /\ UNCHANGED <<order, up, laid, x>>
      /\ head' = [p \in Arrived \union {q} |-> IF p = q THEN h ELSE head[p]]
  BY <1>1 DEF Arrives, Upcoming, Arrive, Arrived, exchangeVars
<1>3. /\ Arrived' = Arrived \union {q} /\ head'[q] = h /\ \A p \in Arrived : head'[p] = head[p]
  BY <1>2 DEF Arrived
<1>4. /\ WireTypes /\ Arrived \subseteq Requests /\ Requests \subseteq Nat /\ NoOne \notin Requests
      /\ c \in Clients /\ Requests \subseteq Orders
      /\ recorder \in [Clients -> [stopped : BOOLEAN, queue : Seq(Requests)]]
  BY WireOrderAssumption, RequestPathAssumption DEF WireInv, WireTypes, Orders, Arrived
<1>5. x[q].pc = "idle"
  BY <1>2 DEF HandlerInv, Idle
<1> DEFINE s == Queue(c)
           t == Enqueue(s, q)
<1>6. s \in Seq(Requests) /\ Len(s) <= MaxQueued /\ QueuedInv(c) /\ Sorted(s)
  BY <1>4 DEF WireInv, WireTypes, QueuedInv, Queue
\* What waits, came before.
<1>7. Below(s, q)
  <2> SUFFICES ASSUME NEW i \in DOMAIN s  PROVE s[i] < q
    BY DEF Below
  <2>1. s[i] \in Arrived /\ ClientOf[s[i]] = c
    BY <1>6 DEF QueuedInv
  <2>2. q \notin Earlier(s[i])
    BY <1>2, <2>1 DEF WireInv, ArrivedInv
  <2>3. s[i] \in Nat /\ q \in Nat /\ s[i] # q /\ ~(q < s[i])
    BY <1>2, <1>4, <2>1, <2>2 DEF Earlier
  <2> HIDE DEF s
  <2> QED BY <2>3
<1>8. /\ t \in Seq(Requests) /\ Len(t) <= MaxQueued /\ Sorted(t) /\ Has(t, q)
      /\ \A i \in DOMAIN t : t[i] = q \/ Has(s, t[i])
      /\ Len(s) < MaxQueued => \A p : Has(s, p) => Has(t, p)
  <2> HIDE DEF s
  <2> QED BY <1>6, <1>7, EnqueueKeeps
<1>9. Within(c) => \A p : Has(s, p) => Has(t, p)
  <2>1. \A i \in DOMAIN s : ClientOf[s[i]] = c
    BY <1>6 DEF QueuedInv
  <2> HIDE DEF s, t
  <2> QED BY <1>4, <1>6, <1>7, <1>8, <2>1, RoomForMore
<1> DEFINE old == recorder[c]
           new == recorder'[c]
<1>10. /\ recorder' \in [Clients -> [stopped : BOOLEAN, queue : Seq(Requests)]]
       /\ \A d \in Clients : d # c => recorder'[d] = recorder[d]
       /\ \/ new = old /\ (IsTelemetry(h) \/ old.stopped)
          \/ new.stopped = TRUE /\ new.queue = s /\ ~IsTelemetry(h)
          \/ new.queue = t /\ ~IsTelemetry(h) /\ ~old.stopped
  <2>1. CASE IsTelemetry(h)
    BY <1>1, <1>4, <2>1
  <2>2. CASE ~IsTelemetry(h)
    <3> DEFINE r == IF old.stopped THEN old
                    ELSE IF h.oversized THEN [old EXCEPT !.stopped = TRUE]
                    ELSE [stopped |-> h.chunked, queue |-> Enqueue(old.queue, q)]
    <3>1. recorder' = [recorder EXCEPT ![c] = r]
      BY <1>1, <2>2 DEF Observe
    <3>2. old \in [stopped : BOOLEAN, queue : Seq(Requests)] /\ old.queue = s /\ h.chunked \in BOOLEAN
      BY <1>4, WireOrderAssumption DEF Queue
    <3> HIDE DEF old, s, t
    <3>3. /\ r \in [stopped : BOOLEAN, queue : Seq(Requests)]
          /\ \/ r = old /\ old.stopped
             \/ r.stopped = TRUE /\ r.queue = s
             \/ r.queue = t /\ ~old.stopped
      BY <1>8, <3>2 DEF t
    <3> HIDE DEF r
    <3>4. recorder'[c] = r /\ \A d \in Clients : d # c => recorder'[d] = recorder[d]
      BY <1>4, <3>1
    <3>5. recorder' \in [Clients -> [stopped : BOOLEAN, queue : Seq(Requests)]]
      BY <1>4, <3>1, <3>3
    <3> QED BY <2>2, <3>3, <3>4, <3>5
  <2> QED BY <2>1, <2>2
<1>11. \A d \in Clients : d # c => Queue(d)' = Queue(d) /\ recorder'[d].stopped = recorder[d].stopped
  BY <1>10 DEF Queue
<1>12. /\ Queue(c)' \in {s, t} /\ new.queue = Queue(c)' /\ old.queue = s
       /\ Queue(c)' = t => ~IsTelemetry(h) \/ s = t
  BY <1>10 DEF Queue
<1>13. WireTypes'
  <2>1. \A d \in Clients : Len(Queue(d)') <= MaxQueued
    BY <1>4, <1>6, <1>8, <1>11, <1>12 DEF WireTypes
  <2>2. DOMAIN head' \subseteq Requests /\ \A p \in DOMAIN head' : head'[p] \in Heads
    BY <1>2, <1>4 DEF WireTypes, Arrived
  <2> QED BY <1>2, <1>4, <1>10, <2>1, <2>2 DEF WireTypes
<1>14. ArrivedInv'
  BY <1>2, <1>3 DEF WireInv, ArrivedInv, Earlier
<1>15. ASSUME NEW d \in Clients  PROVE QueuedInv(d)'
  <2>1. QueuedInv(d)
    BY DEF WireInv
  <2>2. CASE Queue(d)' = Queue(d)
    BY <1>2, <1>3, <2>1, <2>2 DEF QueuedInv
  <2>3. CASE d = c /\ Queue(c)' = t /\ s # t
    <3>1. ASSUME NEW i \in DOMAIN t
          PROVE  /\ t[i] \in Arrived' /\ ClientOf[t[i]] = d /\ ~IsTelemetry(head'[t[i]])
                 /\ x'[t[i]].pc = "idle" \/ head'[t[i]].target = "*"
      <4>1. CASE t[i] = q
        BY <1>2, <1>3, <1>5, <1>12, <2>3, <4>1
      <4>2. CASE Has(s, t[i])
        <5>1. PICK k \in DOMAIN s : s[k] = t[i]
          BY <4>2 DEF Has
        <5>2. /\ s[k] \in Arrived /\ ClientOf[s[k]] = c /\ ~IsTelemetry(head[s[k]])
              /\ x[s[k]].pc = "idle" \/ head[s[k]].target = "*"
          BY <1>6 DEF QueuedInv
        <5> QED BY <1>2, <1>3, <2>3, <5>1, <5>2
      <4> QED BY <1>8, <4>1, <4>2
    <3> QED BY <1>8, <2>3, <3>1 DEF QueuedInv
  <2> QED BY <1>11, <1>12, <2>2, <2>3
<1>16. ASSUME NEW d \in Clients  PROVE NoGap(d)'
  <2> SUFFICES ASSUME Within(d), NEW p \in Arrived', ClientOf[p] = d, x'[p].pc = "idle",
                      ~IsTelemetry(head'[p])
               PROVE  \/ Has(Queue(d)', p)
                      \/ recorder'[d].stopped /\ Below(Queue(d)', p)
    BY DEF NoGap, Within
  <2>1. CASE p = q
    <3>1. d = c /\ ~IsTelemetry(h)
      BY <1>3, <2>1
    <3>2. CASE Queue(c)' = s /\ new.stopped
      BY <1>7, <2>1, <3>1, <3>2
    <3>3. CASE Queue(c)' = t
      BY <1>8, <2>1, <3>1, <3>3
    <3> QED BY <1>10, <1>12, <3>1, <3>2, <3>3
  <2>2. CASE p # q
    <3>1. p \in Arrived /\ x[p].pc = "idle" /\ ~IsTelemetry(head[p])
      BY <1>2, <1>3, <2>2
    <3>2. Has(Queue(d), p) \/ (recorder[d].stopped /\ Below(Queue(d), p))
      <4>1. NoGap(d)
        BY DEF WireInv
      <4> QED BY <3>1, <4>1 DEF NoGap
    <3>3. CASE d # c
      BY <1>11, <3>2, <3>3
    <3>4. CASE d = c
      <4>1. Has(s, p) => Has(Queue(c)', p)
        BY <1>9, <1>12, <3>4
      <4>2. old.stopped /\ Below(s, p) => \/ Has(Queue(c)', p)
                                          \/ new.stopped /\ Below(Queue(c)', p)
        BY <1>10, <1>12
      <4> QED BY <3>2, <3>4, <4>1, <4>2
    <3> QED BY <3>3, <3>4
  <2> QED BY <2>1, <2>2
<1>17. ASSUME NEW p \in Requests  PROVE OrderInv(p)' /\ LaidInv(p)'
  <2>1. OrderInv(p) /\ LaidInv(p)
    BY DEF WireInv
  <2>2. OrderInv(p)'
    BY <1>2, <1>3, <2>1 DEF OrderInv, Within
  <2>3. LaidInv(p)'
    BY <1>2, <2>1 DEF LaidInv
  <2> QED BY <2>2, <2>3
<1>18. ASSUME NEW u \in UpConns  PROVE ConnInv(u)'
  <2>1. ConnInv(u)
    BY DEF WireInv
  <2>2. up[u].by # NoOne => Rides(up[u].by)
    BY <1>2, <2>1 DEF ConnInv, Rides
  <2> QED BY <1>2, <1>3, <2>2, ConnStays
<1> QED BY <1>13, <1>14, <1>15, <1>16, <1>17, <1>18 DEF WireInv
-----------------------------------------------------------------------------
(* All steps. *)

\* Initially no head has come.
LEMMA InitRequest == Init => RequestInv
<1> SUFFICES ASSUME Init  PROVE RequestInv
  OBVIOUS
<1>1. /\ active \in Postures /\ ended = FALSE /\ x = [q \in Requests |-> Idle(active)]
      /\ head = [q \in {} |-> NoOne] /\ Arrived = {}
      /\ recorder = [c \in Clients |-> [stopped |-> FALSE, queue |-> <<>>]]
      /\ order = [q \in Requests |-> NoOne] /\ up = [u \in UpConns |-> FreshConn]
      /\ laid = [q \in Requests |-> {}]
  BY RequestPathAssumption DEF Init, ExchangeInit, WireOrderInit, Arrived
<1>2. HandlerInv
  BY <1>1 DEF HandlerInv
<1>3. \A c \in Clients : Queue(c) = <<>>
  BY <1>1 DEF Queue
<1>4. WireTypes
  <2>1. Len(<<>>) <= MaxQueued
    BY WireOrderAssumption
  <2>2. recorder \in [Clients -> [stopped : BOOLEAN, queue : Seq(Requests)]]
    BY <1>1
  <2>3. FreshConn \in [by : Orders, next : Orders, passthrough : BOOLEAN, open : BOOLEAN]
    BY DEF FreshConn, Orders
  <2>4. up \in [UpConns -> [by : Orders, next : Orders, passthrough : BOOLEAN, open : BOOLEAN]]
    BY <1>1, <2>3
  <2>5. order \in [Requests -> Orders] /\ laid \in [Requests -> SUBSET Orders]
    BY <1>1 DEF Orders
  <2>6. DOMAIN head = {}
    BY <1>1
  <2> QED BY <1>3, <2>1, <2>2, <2>4, <2>5, <2>6 DEF WireTypes
<1>5. ArrivedInv /\ \A c \in Clients : QueuedInv(c) /\ NoGap(c)
  BY <1>1, <1>3 DEF ArrivedInv, QueuedInv, NoGap, Sorted
<1>6. \A q \in Requests : OrderInv(q) /\ LaidInv(q)
  BY <1>1 DEF OrderInv, LaidInv
<1>7. \A u \in UpConns : ConnInv(u)
  BY <1>1 DEF ConnInv, FreshConn
<1> QED BY <1>2, <1>4, <1>5, <1>6, <1>7 DEF RequestInv, WireInv

\* A handler's step is one the orders do not notice, but for its beginning.
LEMMA HandlerIsCalm ==
  ASSUME NEW q \in Requests, NEW places, Became(q, places), "idle" \notin places,
         x[q].pc # "idle" \/ head[q].target = "*" \/ IsTelemetry(head[q]),
         places \intersect {"captured", "ready"} = {} \/ x[q].pc \in {"idle", "captured", "ready"}
  PROVE  \A p \in Requests : Calm(p)
<1>1. Calm(q)
  BY DEF Became, Calm
<1> QED BY <1>1 DEF Became, Calm

\* A handler whose place is none where a connection is held has none.
LEMMA NoneHeld ==
  ASSUME WireInv, NEW q \in Requests, x[q].pc \notin {"ready", "sent", "answering"},
         NEW places, Became(q, places), UNCHANGED order
  PROVE  \A u \in UpConns : up[u].by # NoOne => Rides(up[u].by)
<1> SUFFICES ASSUME NEW u \in UpConns, up[u].by # NoOne  PROVE Rides(up[u].by)
  OBVIOUS
<1>1. ConnInv(u) /\ Arrived \subseteq Requests
  BY DEF WireInv, WireTypes, Arrived
<1>2. up[u].by \in Requests \ {q} /\ x[up[u].by].pc \in {"ready", "sent", "answering"}
  BY <1>1 DEF ConnInv
<1> QED BY <1>2 DEF Became, Rides

\* Every step keeps the invariant.
LEMMA NextRequest == RequestInv /\ [Next]_vars => RequestInv'
<1> SUFFICES ASSUME RequestInv, [Next]_vars  PROVE RequestInv'
  OBVIOUS
<1>1. HandlerInv /\ WireInv /\ Arrived \subseteq Requests
  BY DEF RequestInv, WireInv, WireTypes, Arrived
<1>2. ASSUME NEW q \in Requests, Arrives(q)  PROVE RequestInv'
  <2>1. PICK h \in Heads : Arrive(q, h)
    BY <1>2 DEF Arrives
  <2>2. HandlerInv'
    BY <1>1, <1>2, <2>1, ArrivesFine DEF Arrives, Arrive, Upcoming, Arrived
  <2> QED BY <1>1, <1>2, <2>2, ArrivalIsSeen DEF RequestInv
<1>3. ASSUME NEW q \in Requests, ServerAnswers(q)  PROVE RequestInv'
  <2>1. q \in Arrived /\ x[q].pc = "idle" /\ head[q].target = "*" /\ UNCHANGED orderVars
    BY <1>3 DEF ServerAnswers, Next1
  <2>2. HandlerInv' /\ Became(q, {"captured", "over"})
    BY <1>1, <1>3, <2>1, BeginsFine DEF ServerAnswers, orderVars
  <2>3. \A p \in Requests : Calm(p)
    BY <2>1, <2>2, HandlerIsCalm
  <2>4. \A u \in UpConns : up[u].by # NoOne => Rides(up[u].by)
    BY <1>1, <2>1, <2>2, NoneHeld DEF orderVars
  <2> QED BY <1>1, <2>1, <2>2, <2>3, <2>4, HandlerOnly DEF RequestInv
<1>4. ASSUME NEW q \in Requests, Begin(q)  PROVE RequestInv'
  <2>1. /\ q \in Arrived /\ x[q].pc = "idle" /\ head[q].target # "*" /\ UNCHANGED head
        /\ \A p \in Earlier(q) : x[p].pc = "over"
    BY <1>4 DEF Begin, Next1, Capture, Pop, orderVars
  <2>2. HandlerInv' /\ Became(q, {"captured", "over"})
    BY <1>1, <1>4, <2>1, BeginsFine DEF Begin
  <2>3. CASE IsTelemetry(head[q])
    <3>1. UNCHANGED orderVars
      BY <1>4, <2>3 DEF Begin
    <3>2. \A p \in Requests : Calm(p)
      BY <2>1, <2>2, <2>3, HandlerIsCalm
    <3>3. \A u \in UpConns : up[u].by # NoOne => Rides(up[u].by)
      BY <1>1, <2>1, <2>2, <3>1, NoneHeld DEF orderVars
    <3> QED BY <1>1, <2>2, <3>1, <3>2, <3>3, HandlerOnly DEF RequestInv
  <2>4. CASE ~IsTelemetry(head[q])
    <3>1. Pop(q, ClientOf[q])
      BY <1>4, <2>4 DEF Begin
    <3>2. x'[q].pc = "captured"
      <4> DEFINE i == Idle(active)
                 f == [i EXCEPT !.pc = "captured"]
      <4>1. DOMAIN i = Fields
        BY DEF Idle, Fields
      <4>2. x' = [x EXCEPT ![q] = f] /\ DOMAIN x = Requests
        BY <1>1, <1>4 DEF Begin, Capture, Step, HandlerInv
      <4> HIDE DEF i
      <4>3. f.pc = "captured"
        BY <4>1 DEF Fields
      <4> HIDE DEF f
      <4> QED BY <4>2, <4>3
    <3> QED BY <1>1, <2>1, <2>2, <2>4, <3>1, <3>2, PopFine DEF RequestInv, Became
  <2> QED BY <2>3, <2>4
<1>5. ASSUME NEW q \in Requests, Decide(q)  PROVE RequestInv'
  <2>1. q \in Arrived /\ x[q].pc = "captured" /\ UNCHANGED orderVars
    BY <1>5 DEF Decide, Synthesize, RefuseUnroutable, RefuseAuthMissing, RefuseRewrite,
                Forward, ForwardTelemetry, Routed
  <2>2. HandlerInv' /\ (Became(q, {"over"}) \/ Became(q, {"ready"}))
    <3>1. CASE Synthesize(q, head[q]) \/ RefuseUnroutable(q, head[q]) \/ RefuseAuthMissing(q, head[q])
      BY <1>1, <2>1, <3>1, DecidesItself DEF orderVars
    <3>2. CASE RefuseRewrite(q, head[q])
      BY <1>1, <2>1, <3>2, RefusesRewrite DEF orderVars
    <3>3. CASE Forward(q, head[q]) \/ ForwardTelemetry(q, head[q])
      BY <1>1, <2>1, <3>3, ForwardsFine DEF orderVars
    <3> QED BY <1>5, <3>1, <3>2, <3>3 DEF Decide
  <2>3. \A p \in Requests : Calm(p)
    BY <2>1, <2>2, HandlerIsCalm
  <2>4. \A u \in UpConns : up[u].by # NoOne => Rides(up[u].by)
    BY <1>1, <2>1, <2>2, NoneHeld DEF orderVars
  <2> QED BY <1>1, <2>1, <2>2, <2>3, <2>4, HandlerOnly DEF RequestInv
<1>6. ASSUME NEW q \in Requests, x[q].pc # "idle"  PROVE q \in Arrived
  BY <1>1, <1>6 DEF HandlerInv, Idle
<1>7. ASSUME UNCHANGED <<exchangeVars, head>>  PROVE HandlerInv'
  BY <1>1, <1>7 DEF HandlerInv, exchangeVars, Arrived
<1>8. ASSUME NEW q \in Requests, GetConn(q)  PROVE RequestInv'
  <2>1. /\ x[q].pc = "ready" /\ Native(q) /\ Holds(q) = {} /\ UNCHANGED exchangeVars
        /\ UNCHANGED x
    BY <1>8 DEF GetConn, exchangeVars
  <2>2. PICK u \in UpConns : GotConn(q, u)
    BY <1>8 DEF GetConn
  <2>3. WireInv'
    BY <1>1, <1>6, <2>1, <2>2, GetConnFine
  <2>4. UNCHANGED head
    BY <2>2 DEF GotConn
  <2> QED BY <1>7, <2>1, <2>3, <2>4 DEF RequestInv
<1>9. ASSUME NEW q \in Requests, Retry(q)  PROVE RequestInv'
  <2>1. Release(q, FALSE) /\ UNCHANGED exchangeVars /\ UNCHANGED x /\ UNCHANGED head
    BY <1>9 DEF Retry, Release, exchangeVars
  <2>2. \A p \in Requests : Calm(p)
    BY <2>1 DEF Calm
  <2>3. WireInv'
    BY <1>1, <2>1, <2>2, ReleaseFine
  <2> QED BY <1>7, <2>1, <2>3 DEF RequestInv
<1>10. ASSUME NEW q \in Requests, WriteHead(q)  PROVE RequestInv'
  <2>1. x[q].pc = "ready" /\ q \in Arrived /\ Send(q) /\ UNCHANGED head
    BY <1>6, <1>10 DEF WriteHead, Send, Relay
  <2>2. HandlerInv' /\ Became(q, {"sent"})
    BY <1>1, <2>1, SendFine
  <2>3. x'[q].pc = "sent" /\ x'[q].ap = x[q].ap /\ \A p \in Requests \ {q} : x'[p] = x[p]
    BY <2>1, <2>2 DEF Became
  <2>4. CASE \E u \in UpConns : Relay(q, u, Framed(q))
    <3>1. PICK u \in UpConns : Relay(q, u, Framed(q))
      BY <2>4
    <3>2. Framed(q) \in BOOLEAN
      BY <1>1, <2>1, WireOrderAssumption DEF Framed, RequestInv, WireInv, WireTypes, Arrived, WireOrderAssumption
    <3> QED BY <1>1, <2>1, <2>2, <2>3, <3>1, <3>2, RelayFine DEF RequestInv
  <2>5. CASE /\ ~Native(q)
             /\ laid' = [laid EXCEPT ![q] = {NoOne}]
             /\ UNCHANGED <<head, recorder, order, up>>
    BY <1>1, <2>1, <2>2, <2>3, <2>5, PlainFine DEF RequestInv
  <2> QED BY <1>10, <2>4, <2>5 DEF WriteHead
<1>11. ASSUME NEW q \in Requests, Answer(q)  PROVE RequestInv'
  <2>1. q \in Arrived /\ UNCHANGED head
    BY <1>11 DEF Answer, Release, orderVars
  <2>2. ASSUME HandlerInv', Became(q, {"answered"}), x[q].pc \in {"ready", "sent", "answering"},
               NEW keep \in BOOLEAN, Release(q, keep), keep => x[q].pc # "ready"
        PROVE  RequestInv'
    <3>1. \A p \in Requests : Calm(p)
      BY <2>2, HandlerIsCalm
    <3> QED BY <1>1, <2>2, <3>1, ReleaseFine DEF RequestInv, Became
  <2>3. ASSUME HandlerInv', Became(q, {"answering"}), x[q].pc \in {"sent", "answering"},
               UNCHANGED orderVars
        PROVE  RequestInv'
    <3>1. \A p \in Requests : Calm(p)
      BY <2>3, HandlerIsCalm
    <3>2. ASSUME NEW u \in UpConns, up[u].by # NoOne  PROVE Rides(up[u].by)
      <4>1. ConnInv(u)
        BY <1>1 DEF WireInv
      <4> QED BY <1>1, <2>3, <3>2, <4>1 DEF ConnInv, Became, Rides, orderVars
    <3> QED BY <1>1, <2>3, <3>1, <3>2, HandlerOnly DEF RequestInv
  <2>4. CASE (NoAnswer(q, head[q]) \/ ClientLeaves(q, head[q])) /\ Release(q, FALSE)
    <3>1. x[q].pc \in {"ready", "sent"}
      BY <2>4 DEF NoAnswer, ClientLeaves
    <3>2. HandlerInv' /\ Became(q, {"answered"})
      BY <1>1, <2>1, <2>4, UnansweredFine
    <3> QED BY <2>2, <2>4, <3>1, <3>2
  <2>5. CASE /\ AnswerBegins(q, head[q])
             /\ IF x'[q].pc = "answered" THEN Release(q, FALSE) ELSE UNCHANGED orderVars
    <3>1. x[q].pc = "sent"
      BY <2>5 DEF AnswerBegins
    <3>2. HandlerInv' /\ Became(q, {"answering", "answered"})
      BY <1>1, <2>1, <2>5, BeginsAnswer
    <3>3. CASE x'[q].pc = "answered"
      <4>1. Became(q, {"answered"}) /\ Release(q, FALSE)
        BY <2>5, <3>2, <3>3 DEF Became
      <4> QED BY <2>2, <3>1, <3>2, <4>1
    <3>4. CASE x'[q].pc # "answered"
      <4>1. Became(q, {"answering"}) /\ UNCHANGED orderVars
        BY <2>5, <3>2, <3>4 DEF Became
      <4> QED BY <2>3, <3>1, <3>2, <4>1
    <3> QED BY <3>3, <3>4
  <2>6. CASE Chunk(q) /\ UNCHANGED orderVars
    <3>1. x[q].pc = "answering"
      BY <2>6 DEF Chunk
    <3>2. HandlerInv' /\ Became(q, {"answering"})
      BY <1>1, <2>1, <2>6, ChunkFine
    <3> QED BY <2>3, <2>6, <3>1, <3>2
  <2>7. CASE \/ AnswerEnds(q, head[q]) /\ \E keep \in BOOLEAN : Release(q, keep)
             \/ AnswerBreaks(q, head[q]) /\ Release(q, FALSE)
    <3>1. x[q].pc = "answering"
      BY <2>7 DEF AnswerEnds, AnswerBreaks
    <3>2. HandlerInv' /\ Became(q, {"answered"})
      BY <1>1, <2>1, <2>7, ClosesFine
    <3>3. PICK keep \in BOOLEAN : Release(q, keep)
      BY <2>7
    <3> QED BY <2>2, <3>1, <3>2, <3>3
  <2> QED BY <1>11, <2>4, <2>5, <2>6, <2>7 DEF Answer
<1>12. ASSUME NEW q \in Requests, Records(q)  PROVE RequestInv'
  <2>1. x[q].pc = "answered" /\ q \in Arrived /\ UNCHANGED orderVars
    BY <1>6, <1>12 DEF Records, Record
  <2>2. HandlerInv' /\ Became(q, {"over"})
    BY <1>1, <1>12, <2>1, RecordFine DEF Records, orderVars
  <2>3. \A p \in Requests : Calm(p)
    BY <2>1, <2>2, HandlerIsCalm
  <2>4. \A u \in UpConns : up[u].by # NoOne => Rides(up[u].by)
    BY <1>1, <2>1, <2>2, NoneHeld DEF orderVars
  <2> QED BY <1>1, <2>1, <2>2, <2>3, <2>4, HandlerOnly DEF RequestInv
<1>13. CASE ((SwitchPosture \/ EndSession) /\ UNCHANGED orderVars) \/ UNCHANGED vars
  <2>1. UNCHANGED <<x, orderVars>>
    BY <1>13 DEF SwitchPosture, EndSession, vars, exchangeVars
  <2>2. HandlerInv'
    <3>1. CASE UNCHANGED vars
      BY <1>7, <3>1 DEF vars, orderVars
    <3>2. CASE (SwitchPosture \/ EndSession) /\ UNCHANGED orderVars
      BY <1>1, <3>2, SessionFine DEF orderVars
    <3> QED BY <1>13, <3>1, <3>2
  <2>3. \A p \in Requests : Calm(p)
    BY <2>1 DEF Calm
  <2>4. ASSUME NEW u \in UpConns, up[u].by # NoOne  PROVE Rides(up[u].by)
    <3>1. ConnInv(u)
      BY <1>1 DEF WireInv
    <3> QED BY <2>1, <2>4, <3>1 DEF ConnInv, Rides, orderVars
  <2> QED BY <1>1, <2>1, <2>2, <2>3, <2>4, HandlerOnly DEF RequestInv
<1> QED BY <1>2, <1>3, <1>4, <1>5, <1>8, <1>9, <1>10, <1>11, <1>12, <1>13 DEF Next

\* Handlers, recorders and upstream connections stay as RequestInv says.
THEOREM RequestInvariant == Spec => []RequestInv
<1> QED BY InitRequest, NextRequest, PTL DEF Spec

\* An order used for a head is its request's own, where the client keeps within
\* the queue, and never that of another connection or of an earlier request.
THEOREM SpecLaidAsSent == Spec => []LaidAsSent
<1>1. RequestInv => LaidAsSent
  <2> SUFFICES ASSUME RequestInv  PROVE LaidAsSent
    OBVIOUS
  <2>1. WireTypes /\ \A q \in Requests : OrderInv(q) /\ LaidInv(q)
    BY DEF RequestInv, WireInv
  <2>2. WireOrderTypeOK
    BY <2>1 DEF WireTypes, WireOrderTypeOK, Queue
  <2>3. ASSUME NEW q \in Requests, NEW o \in laid[q] \ {NoOne}
        PROVE  /\ ClientOf[o] = ClientOf[q] /\ o >= q /\ head[o].target = head[q].target
               /\ Cardinality(Siblings(q)) <= MaxQueued => o = q
    <3>1. o = order[q] /\ o # NoOne
      BY <2>1, <2>3 DEF LaidInv
    <3>2. Cardinality(Siblings(q)) <= MaxQueued => Within(ClientOf[q])
      BY DEF Siblings, Within
    <3> QED BY <2>1, <3>1, <3>2 DEF OrderInv
  <2> QED BY <2>2, <2>3 DEF LaidAsSent
<1> QED BY <1>1, RequestInvariant, PTL

\* No credential of a credential exchange rests on disk.
THEOREM SpecNoSecretAtRest == Spec => []NoSecretAtRest
<1>1. RequestInv => NoSecretAtRest
  <2> SUFFICES ASSUME RequestInv, NEW q \in Arrived, NEW k \in DOMAIN NoRefs,
                      NEW s \in x[q].refs[k], s.secret /\ s.view = "raw"
               PROVE  MayShow(head[q], x[q], k, s)
    BY DEF NoSecretAtRest, MayShow
  <2>1. q \in Requests
    BY DEF RequestInv, WireInv, WireTypes, Arrived
  <2>2. Tapped(head[q], x[q])
    BY <2>1 DEF RequestInv, HandlerInv, EntryOK
  <2> QED BY <2>2 DEF Tapped
<1> QED BY <1>1, RequestInvariant, PTL

\* Records say how their requests ended.
THEOREM SpecRecordsTellTheEnd == Spec => []RecordsTellTheEnd
<1>1. RequestInv => RecordsTellTheEnd
  <2> SUFFICES ASSUME RequestInv  PROVE RecordsTellTheEnd
    OBVIOUS
  <2>1. HandlerInv /\ Arrived \subseteq Requests /\ Senders = Requests
    BY RequestPathAssumption DEF RequestInv, WireInv, WireTypes, Arrived
  <2>2. ASSUME NEW q \in Requests
        PROVE  /\ Typed(x[q])
               /\ \A k \in DOMAIN NoRefs : \A s \in x[q].refs[k] : s.view \in Views
    <3>1. CASE q \in Arrived
      BY <2>1, <3>1 DEF HandlerInv, EntryOK, Tapped, Views
    <3>2. CASE q \notin Arrived
      <4>1. EntryOK(<<>>, x[q], TRUE)
        BY <2>1, <3>2, IdleIsFine DEF HandlerInv
      <4> QED BY <4>1 DEF EntryOK, Tapped, Views
    <3> QED BY <3>1, <3>2
  <2>3. ExchangeTypeOK
    BY <2>1, <2>2 DEF HandlerInv, ExchangeTypeOK, Typed, Views, Places, Early
  <2>4. ASSUME NEW q \in Arrived
        PROVE  LET e == x[q]
               IN  /\ e.pc = "over" /\ e.record = "none" => ended \/ head[q].target = "*"
                   /\ \A s \in e.refs.resp :
                        s.truncated \/ (e.answer.ends = "eof" /\ Len(e.answer.chunks) <= Cap)
                   /\ e.pc = "over" /\ e.answer # <<>> /\ e.answer.status >= 400
                      /\ ~IsTelemetry(head[q]) =>
                        e.failure.source = IF Rejected(e.ctx, e.answer) THEN "ccwrap" ELSE "upstream"
    <3>1. EntryOK(head[q], x[q], ended)
      BY <2>1 DEF HandlerInv
    <3> QED BY <3>1 DEF EntryOK, Told, Tapped
  <2> QED BY <2>3, <2>4 DEF RecordsTellTheEnd
<1> QED BY <1>1, RequestInvariant, PTL

\* Reading the head's body leaves what the aliases look at, but that a broken
\* body no longer parses.
LEMMA ReadAsSent ==
  ASSUME NEW h \in Heads
  PROVE  LET r == AsRead(h)
         IN  /\ r.path = h.path /\ r.method = h.method /\ r.encoded = h.encoded /\ r.json = h.json
             /\ r.body.models = h.body.models
<1> DEFINE b == BodyRead(h)
           r == [h EXCEPT !.body = b]
<1>1. /\ {"path", "method", "encoded", "json", "body"} \subseteq DOMAIN h
      /\ {"parses", "models"} \subseteq DOMAIN h.body
  BY RequestPathAssumption
<1>2. b.models = h.body.models
  BY <1>1 DEF BodyRead
<1> HIDE DEF b
<1>3. /\ r.path = h.path /\ r.method = h.method /\ r.encoded = h.encoded /\ r.json = h.json
      /\ r.body = b
  BY <1>1
<1> QED BY <1>2, <1>3 DEF AsRead, b

\* A single message's answer reads as what was asked for.
LEMMA MessageReadsBack ==
  ASSUME NEW c, NEW r, r.path = "messages", NEW m, DOMAIN r.body.models = {1}, r.body.models[1] = m,
         NEW kind, kind # "other", NEW t \in ContextOf(c, r).sent
  PROVE  ShownAs(ContextOf(c, r), kind, t) \in ContextOf(c, r).asked
<1> DEFINE ctx == ContextOf(c, r)
           rewritten == Reads(c, r) /\ Changed(c, r.body)
<1>1. /\ ctx.asked = IF Reads(c, r)
                     THEN {r.body.models[i] : i \in NotedItem(c, r)} \ {NoModel} ELSE {}
      /\ ctx.sent = {SentAs(c, n) : n \in ctx.asked}
      /\ ctx.normalize <=> rewritten \/ (Enabled(c) /\ IsBatchResults(r))
      /\ ctx.reverse = ReverseOf(c, r)
  BY DEF ContextOf
<1> HIDE DEF ctx
<1>2. NotedItem(c, r) = {1}
  BY DEF NotedItem
<1>3. Reads(c, r) /\ ctx.asked = {m} /\ t = SentAs(c, m)
  BY <1>1, <1>2 DEF ctx
<1>4. Changed(c, r.body) <=> Aliased(c, m)
  BY DEF Changed
<1>5. ~IsBatchResults(r)
  BY DEF IsBatchResults
<1>6. CASE Aliased(c, m)
  <2>1. ctx.reverse = Over(ReverseMap(c), Only(t, m))
    BY <1>1, <1>3, <1>4, <1>6 DEF ReverseOf
  <2>2. t \in DOMAIN ctx.reverse /\ ctx.reverse[t] = m
    BY <2>1 DEF Over, Only
  <2>3. ShownAs(ctx, kind, t) = m
    BY <1>1, <1>3, <1>4, <1>6, <2>2 DEF ShownAs, Normalizes
  <2> QED BY <1>3, <2>3 DEF ctx
<1>7. CASE ~Aliased(c, m)
  <2>1. t = m /\ ~ctx.normalize
    BY <1>1, <1>3, <1>4, <1>5, <1>7 DEF SentAs
  <2>2. ShownAs(ctx, kind, t) = m
    BY <2>1 DEF ShownAs, Normalizes
  <2> QED BY <1>3, <2>2 DEF ctx
<1> QED BY <1>6, <1>7

\* A batch's results read as what was asked for under an explicit alias.
LEMMA BatchReadsBack ==
  ASSUME NEW c, Valid(c.forward), NEW r, IsBatchResults(r), NEW m \in Explicit(c),
         NEW kind, kind # "other"
  PROVE  ShownAs(ContextOf(c, r), kind, SentAs(c, m)) = m
<1> DEFINE ctx == ContextOf(c, r)
           t == c.forward[m]
<1>1. m \in DOMAIN c.forward /\ m \in Models /\ m \notin {NoModel, Star}
  BY AliasesAssumption DEF Explicit, Valid
<1>2. SentAs(c, m) = t
  <2>1. Target(c, m) = {t}
    BY <1>1 DEF Target
  <2> HIDE DEF t
  <2> QED BY <1>1, <2>1 DEF SentAs, Aliased
<1>3. ~Reads(c, r)
  BY DEF Reads, IsRewriteEndpoint, IsBatchResults
<1>4. ctx.normalize /\ ctx.reverse = ReverseMap(c)
  BY <1>1, <1>3 DEF ContextOf, ReverseOf, Enabled
<1> HIDE DEF ctx
<1>5. LogicalForProvider(c, t) = {m}
  BY <1>1 DEF LogicalForProvider, Explicit, Valid
<1>6. t \in DOMAIN ReverseMap(c) /\ ReverseMap(c)[t] = CHOOSE l \in LogicalForProvider(c, t) : TRUE
  BY DEF ReverseMap
<1>7. (CHOOSE l \in {m} : TRUE) = m
  OBVIOUS
<1> QED BY <1>2, <1>4, <1>5, <1>6, <1>7 DEF ShownAs, Normalizes, ctx

\* Claude Code reads the models' names as it asked for them.
THEOREM SpecAnswerNamesWhatWasAsked == Spec => []AnswerNamesWhatWasAsked
<1>1. RequestInv => AnswerNamesWhatWasAsked
  <2> SUFFICES ASSUME RequestInv, NEW q \in Requests, NEW i \in DOMAIN x[q].got,
                      x[q].answer # <<>>, x[q].answer.kind # "other"
               PROVE  LET e == x[q] IN
                      /\ head[q].path = "messages" /\ e.answer.chunks[i] \in e.ctx.sent =>
                           e.got[i] \in e.ctx.asked
                      /\ IsAPI(head[q]) /\ IsBatchResults(head[q]) =>
                           \A p \in Arrived : \A j \in DOMAIN head[p].body.models :
                             LET m == head[p].body.models[j] IN
                             /\ head[p].path = "batches" /\ p < q /\ x[p].ctx.rewritten
                             /\ x[p].ap.alias = e.ap.alias /\ m \in Explicit(e.ap.alias)
                             /\ e.answer.chunks[i] = SentAs(e.ap.alias, m)
                             => e.got[i] = m
    BY DEF AnswerNamesWhatWasAsked
  <2> DEFINE e == x[q]
             h == head[q]
             c == e.ap.alias
             r == AsRead(h)
  <2>1. q \in Arrived /\ h \in Heads
    BY DEF RequestInv, HandlerInv, WireInv, WireTypes, Arrived, Idle
  <2>2. /\ Valid(c.forward)
        /\ e.ctx = IF IsAPI(h) THEN ContextOf(c, r) ELSE NoContext
        /\ e.got[i] = ShownAs(e.ctx, e.answer.kind, e.answer.chunks[i])
    BY <2>1, ExchangeAssumption DEF RequestInv, HandlerInv, EntryOK, Rendered, Typed
  <2>3. r.path = h.path /\ r.method = h.method /\ r.body.models = h.body.models
    BY <2>1, ReadAsSent
  <2>4. ASSUME h.path = "messages", e.answer.chunks[i] \in e.ctx.sent  PROVE e.got[i] \in e.ctx.asked
    <3>1. e.ctx = ContextOf(c, r)
      BY <2>2, <2>4 DEF NoContext
    <3>2. DOMAIN r.body.models = {1}
      <4>1. h.body.models \in Seq(Models \union {Star, NoModel}) /\ Len(h.body.models) = 1
        BY <2>1, <2>4, RequestPathAssumption
      <4> HIDE DEF h, r
      <4>2. DOMAIN h.body.models = 1..1
        BY <4>1
      <4> QED BY <2>3, <4>2
    <3> HIDE DEF c, r, h, e
    <3> QED BY <2>2, <2>3, <2>4, <3>1, <3>2, MessageReadsBack DEF e
  <2>5. ASSUME IsAPI(h), IsBatchResults(h), NEW m \in Explicit(c), e.answer.chunks[i] = SentAs(c, m)
        PROVE  e.got[i] = m
    <3>1. IsBatchResults(r) /\ e.ctx = ContextOf(c, r)
      BY <2>2, <2>3, <2>5 DEF IsBatchResults
    <3> HIDE DEF c, r, h, e
    <3> QED BY <2>2, <2>5, <3>1, BatchReadsBack DEF e
  <2> QED BY <2>4, <2>5
<1> QED BY <1>1, RequestInvariant, PTL

-----------------------------------------------------------------------------
(* The layout of a head: places, and the occurrences of a name. *)

\* Places come one after the other, each once.
LEMMA InPlaceFacts ==
  ASSUME NEW P \in SUBSET (Nat \X Nat), IsFiniteSet(P)
  PROVE  LET at == InPlace(P)
         IN  /\ Cardinality(P) \in Nat /\ DOMAIN at = 1..Cardinality(P)
             /\ \A k \in DOMAIN at : at[k] \in P
             /\ \A p \in P : \E k \in DOMAIN at : at[k] = p
             /\ \A k, m \in DOMAIN at : at[k] = at[m] => k = m
<1> DEFINE n == Cardinality(P)
           low(p) == {r \in P : Before(r, p)}
           rank == [p \in P |-> Cardinality(low(p))]
           at == InPlace(P)
<1>1. n \in Nat /\ IsFiniteSet(0..(n - 1)) /\ Cardinality(0..(n - 1)) = n
  <2>1. n \in Nat
    BY FS_CardinalityType
  <2>2. 0 \in Int /\ n - 1 \in Int
    BY <2>1
  <2> HIDE DEF n
  <2> DEFINE m == n - 1
  <2>3. m \in Int /\ (0 > m => n = 0) /\ (~(0 > m) => m - 0 + 1 = n)
    BY <2>1
  <2> HIDE DEF m
  <2>4. IsFiniteSet(0..m) /\ Cardinality(0..m) = IF 0 > m THEN 0 ELSE m - 0 + 1
    BY <2>2, <2>3, FS_Interval
  <2>5. Cardinality(0..m) = n
    BY <2>3, <2>4
  <2> QED BY <2>1, <2>4, <2>5 DEF m
<1>2. ASSUME NEW p \in P
      PROVE  p[1] \in Nat /\ p[2] \in Nat /\ p = <<p[1], p[2]>>
  BY <1>2
<1>3. \A p, r \in P : p # r => Before(p, r) \/ Before(r, p)
  BY <1>2 DEF Before
<1>4. \A p, r, s \in P : Before(p, r) /\ Before(r, s) => Before(p, s)
  BY <1>2 DEF Before
<1>5. \A p \in P : ~Before(p, p)
  BY <1>2 DEF Before
<1>6. ASSUME NEW p \in P
      PROVE  rank[p] \in 0..(n - 1)
  <2>1. low(p) \in SUBSET (P \ {p}) /\ IsFiniteSet(P \ {p}) /\ Cardinality(P \ {p}) = n - 1
    BY <1>5, FS_RemoveElement
  <2>2. IsFiniteSet(low(p)) /\ Cardinality(low(p)) <= n - 1
    BY <2>1, FS_Subset
  <2>3. Cardinality(low(p)) \in Nat
    BY <2>2, FS_CardinalityType
  <2> HIDE DEF n, low
  <2> QED BY <1>1, <2>2, <2>3
<1>7. ASSUME NEW p \in P, NEW r \in P, Before(p, r)
      PROVE  rank[p] # rank[r]
  <2>1. low(p) \in SUBSET low(r) /\ p \in low(r) /\ p \notin low(p)
    BY <1>4, <1>5, <1>7
  <2>2. IsFiniteSet(low(r))
    BY FS_Subset
  <2> HIDE DEF low
  <2>3. Cardinality(low(p)) # Cardinality(low(r))
    BY <2>1, <2>2, FS_Subset
  <2> QED BY <2>3
<1>8. rank \in Injection(P, 0..(n - 1))
  <2> HIDE DEF n, low
  <2>1. rank \in [P -> 0..(n - 1)]
    BY <1>6
  <2> HIDE DEF rank
  <2>2. \A p, r \in P : rank[p] = rank[r] => p = r
    BY <1>3, <1>7
  <2> QED BY <2>1, <2>2 DEF Injection, IsInjective
<1>9. rank \in Surjection(P, 0..(n - 1))
  <2> HIDE DEF rank
  <2> QED BY <1>1, <1>8, FS_Injection
<1>10. \A k \in 1..n : \E p \in P : rank[p] = k - 1
  <2> HIDE DEF rank, n
  <2>1. \A i \in 0..(n - 1) : \E p \in P : rank[p] = i
    BY <1>9 DEF Surjection
  <2>2. \A k \in 1..n : k - 1 \in 0..(n - 1)
    BY <1>1
  <2> QED BY <2>1, <2>2
<1>11. DOMAIN at = 1..n /\ \A k \in 1..n : at[k] = CHOOSE p \in P : Cardinality(low(p)) = k - 1
  BY DEF InPlace
<1>12. \A p \in P : rank[p] = Cardinality(low(p))
  OBVIOUS
<1> HIDE DEF at, low, rank, n
<1>13. \A k \in 1..n : at[k] \in P /\ rank[at[k]] = k - 1
  BY <1>10, <1>11, <1>12
<1>14. \A p \in P : \E k \in 1..n : at[k] = p
  <2> TAKE p \in P
  <2>1. rank[p] + 1 \in 1..n /\ (rank[p] + 1) - 1 = rank[p]
    BY <1>1, <1>6
  <2>2. at[rank[p] + 1] \in P /\ rank[at[rank[p] + 1]] = rank[p]
    BY <1>13, <2>1
  <2>3. at[rank[p] + 1] = p
    BY <1>3, <1>7, <2>2
  <2> QED BY <2>1, <2>3
<1>15. \A k, m \in 1..n : at[k] = at[m] => k = m
  <2> TAKE k, m \in 1..n
  <2>1. at[k] = at[m] => k - 1 = m - 1
    BY <1>13
  <2> QED BY <1>1, <2>1
<1> QED BY <1>1, <1>11, <1>13, <1>14, <1>15 DEF n, at

\* Two lines of one name are different occurrences of it.
LEMMA OccurrenceOnce ==
  ASSUME NEW s, NEW n \in Nat, NEW i \in 1..n, NEW j \in 1..n, s[i].name = s[j].name,
         Occurrence(s, i) = Occurrence(s, j)
  PROVE  i = j
<1>1. ASSUME NEW a \in 1..n, NEW b \in 1..n, a < b, s[a].name = s[b].name
      PROVE  Occurrence(s, a) # Occurrence(s, b)
  <2> DEFINE same(c) == {k \in 1..c : s[k].name = s[c].name}
  <2>1. same(a) \in SUBSET same(b) /\ b \in same(b) /\ b \notin same(a)
    BY <1>1
  <2>2. IsFiniteSet(1..b) /\ same(b) \in SUBSET (1..b)
    BY FS_Interval
  <2>3. IsFiniteSet(same(b))
    BY <2>2, FS_Subset
  <2> HIDE DEF same
  <2>4. Cardinality(same(a)) # Cardinality(same(b))
    BY <2>1, <2>3, FS_Subset
  <2> QED BY <2>4 DEF Occurrence, same
<1>2. i < j \/ j < i \/ i = j
  OBVIOUS
<1> QED BY <1>1, <1>2

-----------------------------------------------------------------------------
(* The client's layout of what net/http wrote. *)

\* A head: lines in places 1 to n.
IsHead(s, n) ==
  /\ n \in Nat /\ DOMAIN s = 1..n
  /\ \A i \in 1..n : DOMAIN s[i] = {"name", "lower", "value"}

\* A head names one credential, once, and it is auth.
Gives(s, auth) ==
  \E i \in DOMAIN s : /\ s[i].name = auth.name /\ s[i].value = auth.value
                      /\ \A j \in DOMAIN s : s[j].name \in Credentials <=> j = i

\* Places are pairs of numbers.
LEMMA PairsOfNumbers ==
  ASSUME NEW A \in SUBSET Nat, NEW B \in SUBSET Nat
  PROVE  A \X B \in SUBSET (Nat \X Nat)
OBVIOUS

\* The client's layout moves a head's credential and doubles none: each line
\* net/http wrote takes the place of one of the client's, or is added.
LEMMA ReorderGives ==
  ASSUME NEW came, IsHead(came, Len(came)), NEW final, NEW n, IsHead(final, n),
         NEW auth, Gives(final, auth)
  PROVE  Gives(Reorder(came, final), auth)
<1> DEFINE N == Len(came)
           partner(i) == Partner(came, final, i)
           removed == {i \in DOMAIN came : partner(i) = {} /\ ~Restored(came, final, i)}
           staying == DOMAIN came \ removed
           added == {j \in DOMAIN final : \A i \in DOMAIN came : j \notin partner(i)}
           gap == IF removed = {} THEN Len(came) + 1
                  ELSE CHOOSE i \in removed : \A j \in removed : i <= j
           kept(i) == IF partner(i) = {} THEN came[i]
                      ELSE [came[i] EXCEPT !.value = final[CHOOSE j \in partner(i) : TRUE].value]
           new(j) == [final[j] EXCEPT !.lower = @ \/ (removed # {} /\ came[gap].lower)]
           P == (staying \X {0}) \union ({gap} \X added)
           at == InPlace(P)
           out == [k \in DOMAIN at |-> IF at[k][2] = 0 THEN kept(at[k][1]) ELSE new(at[k][2])]
<1>1. out = Reorder(came, final)
  BY DEF Reorder
<1>2. /\ N \in Nat /\ DOMAIN came = 1..N /\ n \in Nat /\ DOMAIN final = 1..n
      /\ \A i \in 1..N : DOMAIN came[i] = {"name", "lower", "value"}
      /\ \A i \in 1..n : DOMAIN final[i] = {"name", "lower", "value"}
  BY DEF IsHead
<1>3. PICK g \in 1..n : /\ final[g].name = auth.name /\ final[g].value = auth.value
                        /\ \A j \in 1..n : final[j].name \in Credentials <=> j = g
  BY <1>2 DEF Gives
<1>4. \A i \in 1..N : \A j \in partner(i) : j \in 1..n /\ final[j].name = came[i].name
  BY <1>2 DEF Partner
<1>5. ASSUME NEW i \in 1..N, NEW k \in 1..N, NEW j, j \in partner(i), j \in partner(k)
      PROVE  i = k
  <2>1. came[i].name = came[k].name /\ Occurrence(came, i) = Occurrence(came, k)
    BY <1>5 DEF Partner
  <2> HIDE DEF partner, N
  <2> QED BY <1>2, <2>1, OccurrenceOnce
<1>6. \A i \in 1..N : i \in staying /\ partner(i) = {} => came[i].name = "Connection"
  BY <1>2 DEF Restored
<1>7. staying \subseteq 1..N /\ added \subseteq 1..n /\ removed \subseteq 1..N
  BY <1>2
<1>8. gap \in 1..(N + 1)
  <2>1. CASE removed = {}
    BY <1>2, <2>1
  <2>2. CASE removed # {}
    <3> HIDE DEF removed, N
    <3>1. removed \in SUBSET Nat
      BY <1>2, <1>7
    <3>2. \E i \in removed : \A j \in removed : i <= j
      BY <3>1, <2>2, LeastOne
    <3>3. gap \in removed
      BY <2>2, <3>2
    <3> HIDE DEF gap
    <3> QED BY <1>2, <1>7, <3>3
  <2> QED BY <2>1, <2>2
<1>9. \A i \in staying : i \in DOMAIN came /\ kept(i).name = came[i].name
  BY <1>2
<1>10. \A i \in staying : partner(i) # {} =>
         \E j \in partner(i) : kept(i).value = final[j].value
  <2> TAKE i \in staying
  <2> HAVE partner(i) # {}
  <2> DEFINE j == CHOOSE j \in partner(i) : TRUE
  <2>1. j \in partner(i)
    OBVIOUS
  <2>2. kept(i) = [came[i] EXCEPT !.value = final[j].value] /\ "value" \in DOMAIN came[i]
    BY <1>2, <1>7
  <2> HIDE DEF j, kept
  <2>3. kept(i).value = final[j].value
    BY <2>2
  <2> QED BY <2>1, <2>3
<1>11. \A j \in added : new(j).name = final[j].name /\ new(j).value = final[j].value
  BY <1>2
<1>12. \A j \in added : \A i \in 1..N : j \notin partner(i)
  BY <1>2
<1>13. \A i \in 1..N : partner(i) # {} => i \in staying
  BY <1>2
<1>14. \A j \in 1..n : j \in added \/ \E i \in 1..N : j \in partner(i)
  BY <1>2
<1>15. P \in SUBSET (Nat \X Nat) /\ IsFiniteSet(P)
  <2> HIDE DEF staying, added, gap, removed, N
  <2>1. P \in SUBSET (Nat \X Nat)
    <3>1. staying \subseteq Nat /\ added \subseteq Nat /\ gap \in Nat
      BY <1>2, <1>7, <1>8
    <3>2. staying \X {0} \subseteq Nat \X Nat /\ {gap} \X added \subseteq Nat \X Nat
      <4>1. {0} \in SUBSET Nat /\ {gap} \in SUBSET Nat /\ staying \in SUBSET Nat /\ added \in SUBSET Nat
        BY <3>1
      <4> QED BY <4>1, PairsOfNumbers, Zenon
    <3> QED BY <3>2
  <2>2. IsFiniteSet(staying) /\ IsFiniteSet(added) /\ IsFiniteSet({0}) /\ IsFiniteSet({gap})
    <3>1. IsFiniteSet(1..N) /\ IsFiniteSet(1..n)
      BY <1>2, FS_Interval
    <3> QED BY <3>1, <1>7, FS_Subset, FS_Singleton
  <2>3. IsFiniteSet(staying \X {0}) /\ IsFiniteSet({gap} \X added)
    BY <2>2, FS_Product
  <2> QED BY <2>1, <2>3, FS_Union
<1> HIDE DEF P
<1>16. /\ \A k \in DOMAIN at : at[k] \in P
       /\ \A p \in P : \E k \in DOMAIN at : at[k] = p
       /\ \A k, m \in DOMAIN at : at[k] = at[m] => k = m
  BY <1>15, InPlaceFacts
<1>17. "Connection" \notin Credentials
  BY DEF Credentials
<1> HIDE DEF at, N, partner, staying, removed, added, gap, kept, new
\* A place with a credential is that of g.
<1> DEFINE Of(p) == (p[2] = 0 /\ p[1] \in staying /\ g \in partner(p[1])) \/ (p = <<gap, g>> /\ g \in added)
<1>18. ASSUME NEW p \in P
       PROVE  LET l == IF p[2] = 0 THEN kept(p[1]) ELSE new(p[2])
              IN  /\ l.name \in Credentials <=> Of(p)
                  /\ Of(p) => l.name = auth.name /\ l.value = auth.value
  <2> DEFINE l == IF p[2] = 0 THEN kept(p[1]) ELSE new(p[2])
  <2>1. CASE p \in staying \X {0}
    <3>0. p[2] = 0 /\ p[1] \in staying
      BY <2>1
    <3>1. p[2] = 0 /\ p[1] \in staying /\ p[1] \in 1..N /\ l = kept(p[1]) /\ p[2] # g
      <4>1. p[1] \in 1..N
        BY <3>0, <1>7
      <4>2. g # 0
        BY <1>3, <1>2
      <4>3. l = kept(p[1])
        BY <3>0
      <4> HIDE DEF l
      <4> QED BY <3>0, <4>1, <4>2, <4>3
    <3> DEFINE i == p[1]
    <3>2. l.name = came[i].name /\ l = kept(i) /\ i \in staying /\ i \in 1..N
      BY <3>1, <1>9
    <3>3. Of(p) <=> g \in partner(i)
      <4>1. p # <<gap, g>>
        BY <3>1
      <4> QED BY <3>1, <4>1
    <3> HIDE DEF i, l, Of
    <3>4. l.name \in Credentials => g \in partner(i)
      <4> HAVE l.name \in Credentials
      <4>1. partner(i) # {}
        BY <3>2, <1>6, <1>17
      <4>2. PICK j \in partner(i) : TRUE
        BY <4>1
      <4>3. j \in 1..n /\ final[j].name \in Credentials
        BY <4>2, <3>2, <1>4
      <4> QED BY <4>2, <4>3, <1>3
    <3>5. g \in partner(i) => l.name \in Credentials /\ l.name = auth.name /\ l.value = auth.value
      <4> HAVE g \in partner(i)
      <4>1. l.name = final[g].name
        BY <3>2, <1>4
      <4>2. PICK j \in partner(i) : l.value = final[j].value
        BY <3>2, <1>10
      <4>3. j \in 1..n /\ final[j].name = final[g].name
        BY <4>1, <4>2, <3>2, <1>4
      <4>4. j = g
        BY <4>3, <1>3
      <4> QED BY <4>1, <4>2, <4>4, <1>3
    <3> QED BY <3>3, <3>4, <3>5 DEF l
  <2>2. CASE p \in {gap} \X added
    <3>0. p[1] = gap /\ p[2] \in added /\ p = <<gap, p[2]>>
      BY <2>2
    <3>1. p[1] = gap /\ p[2] \in added /\ p[2] \in 1..n /\ p[2] # 0 /\ p = <<gap, p[2]>> /\ l = new(p[2])
      <4>1. p[2] \in 1..n
        BY <3>0, <1>7
      <4>2. p[2] # 0
        BY <4>1, <1>2
      <4>3. l = new(p[2])
        BY <4>2
      <4> HIDE DEF l
      <4> QED BY <3>0, <4>1, <4>2, <4>3
    <3>2. l.name = final[p[2]].name /\ l.value = final[p[2]].value
      BY <3>1, <1>11
    <3>3. Of(p) <=> p[2] = g
      BY <3>1
    <3> HIDE DEF l, Of
    <3> QED BY <3>1, <3>2, <3>3, <1>3 DEF l
  <2> QED BY <2>1, <2>2 DEF P
<1>19. \E p \in P : Of(p) /\ \A r \in P : Of(r) => r = p
  <2>1. CASE g \in added
    <3>1. <<gap, g>> \in P /\ Of(<<gap, g>>)
      BY <2>1 DEF P
    <3>2. ASSUME NEW r \in P, Of(r) PROVE r = <<gap, g>>
      BY <3>2, <2>1, <1>7, <1>12
    <3> QED BY <3>1, <3>2
  <2>2. CASE g \notin added
    <3>1. PICK i \in 1..N : g \in partner(i)
      BY <2>2, <1>3, <1>14
    <3>2. i \in staying
      BY <3>1, <1>13
    <3>3. <<i, 0>> \in P /\ Of(<<i, 0>>)
      BY <3>1, <3>2 DEF P
    <3>4. ASSUME NEW r \in P, Of(r) PROVE r = <<i, 0>>
      <4>1. r[2] = 0 /\ r[1] \in 1..N /\ g \in partner(r[1])
        BY <3>4, <2>2, <1>7
      <4>2. r[1] = i
        BY <4>1, <3>1, <1>5
      <4>3. r = <<r[1], r[2]>>
        BY <1>15
      <4> QED BY <4>1, <4>2, <4>3
    <3> QED BY <3>3, <3>4
  <2> QED BY <2>1, <2>2
<1>20. PICK p \in P : Of(p) /\ \A r \in P : Of(r) => r = p
  BY <1>19
<1>21. PICK k \in DOMAIN at : at[k] = p
  BY <1>16
<1>22. DOMAIN out = DOMAIN at /\ \A m \in DOMAIN at : out[m] = IF at[m][2] = 0 THEN kept(at[m][1]) ELSE new(at[m][2])
  OBVIOUS
<1> HIDE DEF out, Of
<1>23. \A m \in DOMAIN at : /\ out[m].name \in Credentials <=> Of(at[m])
                            /\ Of(at[m]) => out[m].name = auth.name /\ out[m].value = auth.value
  BY <1>16, <1>18, <1>22
<1>24. \A m \in DOMAIN at : Of(at[m]) <=> m = k
  BY <1>16, <1>20, <1>21
<1>25. Gives(out, auth)
  BY <1>21, <1>22, <1>23, <1>24 DEF Gives
<1> QED BY <1>1, <1>25

-----------------------------------------------------------------------------
(* What net/http writes of a header map. *)

\* A head that is put together of parts, and names no credential.
IsPart(s, n) == IsHead(s, n) /\ s = [i \in 1..n |-> s[i]]
NamesNone(s) == \A i \in DOMAIN s : s[i].name \notin Credentials

\* Parts of a head, one after the other.
LEMMA JoinedParts ==
  ASSUME NEW s, NEW m, IsPart(s, m), NEW t, NEW n, IsPart(t, n)
  PROVE  /\ IsPart(s \o t, m + n)
         /\ NamesNone(s) /\ NamesNone(t) => NamesNone(s \o t)
         /\ NamesNone(s) => \A auth : Gives(t, auth) => Gives(s \o t, auth)
<1> DEFINE S == {s[i] : i \in 1..m} \union {t[i] : i \in 1..n}
           u == s \o t
<1>1. /\ m \in Nat /\ DOMAIN s = 1..m /\ n \in Nat /\ DOMAIN t = 1..n
      /\ \A i \in 1..m : DOMAIN s[i] = {"name", "lower", "value"}
      /\ \A i \in 1..n : DOMAIN t[i] = {"name", "lower", "value"}
      /\ s = [i \in 1..m |-> s[i]] /\ t = [i \in 1..n |-> t[i]]
  BY DEF IsPart, IsHead
<1>2. (\A i \in 1..m : s[i] \in S) /\ (\A i \in 1..n : t[i] \in S)
  OBVIOUS
<1> HIDE DEF S
<1>3. s \in Seq(S) /\ t \in Seq(S)
  <2>1. s \in [1..m -> S] /\ t \in [1..n -> S]
    BY <1>1, <1>2
  <2> QED BY <1>1, <2>1, SeqDef
<1>4. Len(s) = m /\ Len(t) = n
  BY <1>1, <1>3, LenProperties
<1>5. /\ u \in Seq(S) /\ Len(u) = m + n
      /\ \A i \in 1..(m + n) : u[i] = IF i <= m THEN s[i] ELSE t[i - m]
  BY <1>3, <1>4, ConcatProperties
<1> HIDE DEF u
<1>6. DOMAIN u = 1..(m + n) /\ u = [i \in 1..(m + n) |-> u[i]] /\ m + n \in Nat
  <2>1. u \in [1..(m + n) -> S]
    BY <1>5, LenProperties
  <2> QED BY <2>1, <1>1
<1>7. \A i \in 1..(m + n) : (i \in 1..m /\ u[i] = s[i]) \/ (i - m \in 1..n /\ u[i] = t[i - m])
  <2> TAKE i \in 1..(m + n)
  <2>1. CASE i <= m
    <3>1. i \in 1..m
      BY <2>1, <1>1
    <3> QED BY <2>1, <3>1, <1>5
  <2>2. CASE ~(i <= m)
    <3>1. i - m \in 1..n
      BY <2>2, <1>1
    <3>2. u[i] = t[i - m]
      BY <2>2, <1>5
    <3> QED BY <3>1, <3>2
  <2> QED BY <2>1, <2>2
<1>8. \A i \in 1..n : m + i \in 1..(m + n) /\ u[m + i] = t[i]
  <2> TAKE i \in 1..n
  <2>1. m + i \in 1..(m + n) /\ ~(m + i <= m) /\ (m + i) - m = i
    BY <1>1
  <2> QED BY <2>1, <1>5
<1>9. IsPart(u, m + n)
  BY <1>1, <1>6, <1>7 DEF IsPart, IsHead
<1>10. NamesNone(s) /\ NamesNone(t) => NamesNone(u)
  BY <1>1, <1>6, <1>7 DEF NamesNone
<1>11. ASSUME NamesNone(s), NEW auth, Gives(t, auth) PROVE Gives(u, auth)
  <2>1. PICK i \in 1..n : /\ t[i].name = auth.name /\ t[i].value = auth.value
                          /\ \A j \in 1..n : t[j].name \in Credentials <=> j = i
    BY <1>1, <1>11 DEF Gives
  <2>2. m + i \in 1..(m + n) /\ u[m + i].name = auth.name /\ u[m + i].value = auth.value
    BY <1>8, <2>1
  <2>3. ASSUME NEW j \in 1..(m + n) PROVE u[j].name \in Credentials <=> j = m + i
    <3>1. CASE j \in 1..m /\ u[j] = s[j]
      BY <1>1, <1>11, <3>1, <2>1 DEF NamesNone
    <3>2. CASE j - m \in 1..n /\ u[j] = t[j - m]
      <4>1. u[j].name \in Credentials <=> j - m = i
        BY <3>2, <2>1
      <4> QED BY <4>1, <1>1
    <3> QED BY <1>7, <3>1, <3>2
  <2> QED BY <1>6, <2>2, <2>3 DEF Gives
<1> QED BY <1>9, <1>10, <1>11 DEF u

\* Each of a header map's names has its values in places 1 to m.
Lists(h) == \A n \in DOMAIN h : \E m \in Nat : DOMAIN h[n] = 1..m

\* A header map whose one credential is auth.
OnlyOwn(h, auth) ==
  /\ Lists(h)
  /\ auth.name \in {"Authorization", "X-Api-Key"}
  /\ auth.name \in DOMAIN h /\ h[auth.name] = <<auth.value>>
  /\ \A n \in DOMAIN h \intersect Credentials : n = auth.name

\* The lines of a name.
LEMMA LinesOfOne ==
  ASSUME NEW h, Lists(h), NEW n \in DOMAIN h
  PROVE  /\ \E m : IsPart(LinesOf(h, n), m)
         /\ DOMAIN LinesOf(h, n) = DOMAIN h[n]
         /\ \A i \in DOMAIN h[n] : /\ LinesOf(h, n)[i].name = n /\ LinesOf(h, n)[i].value = h[n][i]
                                   /\ DOMAIN LinesOf(h, n)[i] = {"name", "lower", "value"}
<1>1. PICK m \in Nat : DOMAIN h[n] = 1..m
  BY DEF Lists
<1> DEFINE s == LinesOf(h, n)
<1>2. DOMAIN s = 1..m /\ s = [i \in 1..m |-> Line(n, h[n][i])]
  BY <1>1 DEF LinesOf
<1> HIDE DEF s
<1>3. \A i \in 1..m : /\ s[i].name = n /\ s[i].value = h[n][i]
                      /\ DOMAIN s[i] = {"name", "lower", "value"}
  BY <1>2 DEF Line
<1>4. s = [i \in 1..m |-> s[i]]
  BY <1>2
<1> QED BY <1>1, <1>2, <1>3, <1>4 DEF IsPart, IsHead, s

\* A line by itself.
LEMMA OneLine ==
  ASSUME NEW name, NEW value
  PROVE  /\ IsPart(<<Line(name, value)>>, 1)
         /\ name \notin Credentials => NamesNone(<<Line(name, value)>>)
<1> DEFINE s == <<Line(name, value)>>
<1>1. DOMAIN s = 1..1 /\ s[1] = Line(name, value) /\ s = [i \in 1..1 |-> s[i]]
  OBVIOUS
<1> HIDE DEF s
<1>2. \A i \in 1..1 : s[i].name = name /\ DOMAIN s[i] = {"name", "lower", "value"}
  BY <1>1 DEF Line
<1> QED BY <1>1, <1>2 DEF IsPart, IsHead, NamesNone, s

\* The head net/http writes of such a map names that credential and no other: each
\* value of each name is written once.
LEMMA GoHeadGives ==
  ASSUME NEW h, NEW auth, OnlyOwn(h, auth), NEW framed
  PROVE  /\ \E n : IsHead(GoHead(h, framed), n)
         /\ Gives(GoHead(h, framed), auth)
<1> DEFINE first == <<Line("Host", "upstream")>>
           agent == IF "User-Agent" \in DOMAIN h THEN LinesOf(h, "User-Agent") ELSE <<>>
           body == <<IF framed THEN Line("Content-Length", "n")
                     ELSE Line("Transfer-Encoding", "chunked")>>
           others == {i \in DOMAIN GoOrder : GoOrder[i] \in DOMAIN h \ {"User-Agent", "Content-Length"}}
           P == UNION {{i} \X DOMAIN h[GoOrder[i]] : i \in others}
           at == InPlace(P)
           rest == [k \in DOMAIN at |-> LinesOf(h, GoOrder[at[k][1]])[at[k][2]]]
           N == Len(GoOrder)
<1>0. GoHead(h, framed) = ((first \o agent) \o body) \o rest
  BY DEF GoHead
<1>1. /\ N \in Nat /\ DOMAIN GoOrder = 1..N /\ IsInjective(GoOrder)
      /\ {"Authorization", "X-Api-Key"} \subseteq ToSet(GoOrder)
  BY HeadersAssumption, LenProperties DEF HeadersAssumption
<1>2. others \subseteq 1..N /\ IsFiniteSet(others)
  <2>1. others \in SUBSET (1..N)
    BY <1>1
  <2> HIDE DEF others, N
  <2>2. IsFiniteSet(1..N)
    BY <1>1, FS_Interval
  <2> QED BY <2>1, <2>2, FS_Subset
<1>3. \A i \in others : GoOrder[i] \in DOMAIN h /\ \E m \in Nat : DOMAIN h[GoOrder[i]] = 1..m
  BY DEF OnlyOwn, Lists
<1>4. P \in SUBSET (Nat \X Nat) /\ IsFiniteSet(P)
  <2> DEFINE f == [i \in others |-> {i} \X DOMAIN h[GoOrder[i]]]
             Q == {{i} \X DOMAIN h[GoOrder[i]] : i \in others}
  <2>1. f \in Surjection(others, Q)
    BY DEF Surjection
  <2> HIDE DEF f
  <2>2. IsFiniteSet(Q)
    <3> HIDE DEF others, Q
    <3> QED BY <1>2, <2>1, FS_Surjection
  <2>3. ASSUME NEW i \in others
        PROVE  IsFiniteSet({i} \X DOMAIN h[GoOrder[i]]) /\ {i} \X DOMAIN h[GoOrder[i]] \in SUBSET (Nat \X Nat)
    <3>1. PICK m \in Nat : DOMAIN h[GoOrder[i]] = 1..m
      BY <1>3
    <3>2. IsFiniteSet({i}) /\ IsFiniteSet(1..m) /\ 1..m \in SUBSET Nat
      <4>1. IsFiniteSet({i})
        BY FS_Singleton
      <4>2. IsFiniteSet(1..m)
        BY FS_Interval
      <4> QED BY <4>1, <4>2
    <3>3. i \in Nat
      BY <1>1, <1>2
    <3> QED BY <3>1, <3>2, <3>3, FS_Product, PairsOfNumbers
  <2>4. \A T \in Q : IsFiniteSet(T) /\ T \in SUBSET (Nat \X Nat)
    BY <2>3
  <2>5. P = UNION Q
    OBVIOUS
  <2> HIDE DEF Q, P
  <2> QED BY <2>2, <2>4, <2>5, FS_UNION
<1>5. /\ \A i \in others : \A k \in DOMAIN h[GoOrder[i]] : <<i, k>> \in P
      /\ \A p \in P : p[1] \in others /\ p[2] \in DOMAIN h[GoOrder[p[1]]]
  OBVIOUS
<1> HIDE DEF P
<1>6. /\ Cardinality(P) \in Nat /\ DOMAIN at = 1..Cardinality(P)
      /\ \A k \in DOMAIN at : at[k] \in P
      /\ \A p \in P : \E k \in DOMAIN at : at[k] = p
      /\ \A k, m \in DOMAIN at : at[k] = at[m] => k = m
  BY <1>4, InPlaceFacts
<1> HIDE DEF at
<1>7. /\ DOMAIN rest = DOMAIN at
      /\ \A k \in DOMAIN at :
           /\ rest[k].name = GoOrder[at[k][1]] /\ rest[k].value = h[GoOrder[at[k][1]]][at[k][2]]
           /\ DOMAIN rest[k] = {"name", "lower", "value"}
  <2>1. DOMAIN rest = DOMAIN at
    OBVIOUS
  <2>2. ASSUME NEW k \in DOMAIN at
        PROVE  /\ rest[k].name = GoOrder[at[k][1]] /\ rest[k].value = h[GoOrder[at[k][1]]][at[k][2]]
               /\ DOMAIN rest[k] = {"name", "lower", "value"}
    <3>1. /\ at[k][1] \in others /\ at[k][2] \in DOMAIN h[GoOrder[at[k][1]]]
          /\ GoOrder[at[k][1]] \in DOMAIN h /\ Lists(h)
      BY <1>3, <1>5, <1>6 DEF OnlyOwn
    <3>2. rest[k] = LinesOf(h, GoOrder[at[k][1]])[at[k][2]]
      OBVIOUS
    <3> HIDE DEF rest, others
    <3> QED BY <3>1, <3>2, LinesOfOne
  <2> QED BY <2>1, <2>2
<1>8. rest = [k \in 1..Cardinality(P) |-> rest[k]]
  BY <1>6
<1> HIDE DEF rest
<1>9. IsPart(rest, Cardinality(P))
  BY <1>6, <1>7, <1>8 DEF IsPart, IsHead
<1>10. Gives(rest, auth)
  <2>1. PICK i \in 1..N : GoOrder[i] = auth.name
    BY <1>1 DEF OnlyOwn, ToSet
  <2>2. /\ i \in others /\ DOMAIN h[GoOrder[i]] = {1} /\ h[GoOrder[i]][1] = auth.value
    BY <1>1, <2>1 DEF OnlyOwn
  <2>3. PICK k \in DOMAIN at : at[k] = <<i, 1>>
    BY <1>5, <1>6, <2>2
  <2>4. rest[k].name = auth.name /\ rest[k].value = auth.value
    BY <1>7, <2>1, <2>2, <2>3
  <2>5. auth.name \in Credentials
    BY DEF OnlyOwn, Credentials
  <2>6. ASSUME NEW m \in DOMAIN at, rest[m].name \in Credentials PROVE m = k
    <3>1. at[m] \in P /\ at[m][1] \in others /\ at[m][2] \in DOMAIN h[GoOrder[at[m][1]]]
      BY <1>5, <1>6
    <3>2. GoOrder[at[m][1]] = auth.name
      BY <3>1, <2>6, <1>3, <1>7 DEF OnlyOwn
    <3>3. at[m][1] = i
      BY <3>1, <3>2, <2>1, <1>1, <1>2 DEF IsInjective
    <3>4. at[m][2] = 1
      BY <3>1, <3>3, <2>2
    <3>5. at[m] = <<at[m][1], at[m][2]>>
      BY <3>1, <1>4
    <3>6. at[m] = at[k]
      BY <2>3, <3>3, <3>4, <3>5
    <3> QED BY <3>6, <1>6
  <2> QED BY <1>7, <2>4, <2>5, <2>6 DEF Gives
<1>11. IsPart(first, 1) /\ NamesNone(first)
  BY OneLine DEF Credentials
<1>12. IsPart(body, 1) /\ NamesNone(body)
  <2>1. body = <<Line("Content-Length", "n")>> \/ body = <<Line("Transfer-Encoding", "chunked")>>
    OBVIOUS
  <2> HIDE DEF body
  <2>2. "Content-Length" \notin Credentials /\ "Transfer-Encoding" \notin Credentials
    BY DEF Credentials
  <2> QED BY <2>1, <2>2, OneLine
<1>13. PICK a : IsPart(agent, a) /\ NamesNone(agent)
  <2>1. CASE "User-Agent" \in DOMAIN h
    <3>1. Lists(h)
      BY DEF OnlyOwn
    <3>2. /\ \E m : IsPart(LinesOf(h, "User-Agent"), m)
          /\ DOMAIN LinesOf(h, "User-Agent") = DOMAIN h["User-Agent"]
          /\ \A i \in DOMAIN h["User-Agent"] : LinesOf(h, "User-Agent")[i].name = "User-Agent"
      BY <2>1, <3>1, LinesOfOne
    <3>3. NamesNone(LinesOf(h, "User-Agent"))
      BY <3>2 DEF NamesNone, Credentials
    <3> QED BY <2>1, <3>2, <3>3
  <2>2. CASE "User-Agent" \notin DOMAIN h
    <3>1. agent = <<>>
      BY <2>2
    <3> HIDE DEF agent
    <3>2. IsPart(<<>>, 0) /\ NamesNone(<<>>)
      BY DEF IsPart, IsHead, NamesNone
    <3> QED BY <3>1, <3>2
  <2> QED BY <2>1, <2>2
<1> HIDE DEF first, agent, body
<1>14. IsPart(first \o agent, 1 + a) /\ NamesNone(first \o agent)
  BY <1>11, <1>13, JoinedParts
<1>15. IsPart((first \o agent) \o body, 1 + a + 1) /\ NamesNone((first \o agent) \o body)
  BY <1>12, <1>14, JoinedParts
<1>16. /\ IsPart(((first \o agent) \o body) \o rest, 1 + a + 1 + Cardinality(P))
       /\ Gives(((first \o agent) \o body) \o rest, auth)
  BY <1>9, <1>10, <1>15, JoinedParts
<1> QED BY <1>0, <1>16 DEF IsPart

-----------------------------------------------------------------------------
(* What goes out carries the credential of the posture, and no other. *)

\* The headers of a request to the API that a handler has sent, or is about to,
\* are those the Rewrite hook made of what came and of the posture it captured.
ForAPI(h, normalize, own, auth) == Outgoing(h, TRUE, normalize, own, auth)
OutOf(r, e) == \E normalize : e.out = ForAPI(Read(r.lines), normalize, e.ap.own, e.ap.auth)
Leaving == {"ready", "sent", "answering", "answered"}
OutInv ==
  \A q \in Arrived : IsAPI(head[q]) /\ (x[q].pc \in Leaving \/ laid[q] # {}) => OutOf(head[q], x[q])

\* A handler at work on a request that has left, or is about to, keeps its headers.
LEMMA KeepsOut ==
  ASSUME HandlerInv, NEW q \in Requests, DOMAIN x[q] = Fields,
         \/ Send(q) \/ NoAnswer(q, head[q]) \/ ClientLeaves(q, head[q]) \/ AnswerBegins(q, head[q])
         \/ Chunk(q) \/ AnswerEnds(q, head[q]) \/ AnswerBreaks(q, head[q]) \/ Record(q)
  PROVE  /\ x[q].pc \in Leaving
         /\ x'[q].out = x[q].out /\ x'[q].ap = x[q].ap
         /\ \A p \in Requests \ {q} : x'[p] = x[p]
<1> DEFINE r == head[q]
           Same(f, e) == DOMAIN f = Fields /\ f.out = e.out /\ f.ap = e.ap
<1>1. ASSUME NEW f, Step(q, f), Same(f, x[q])
      PROVE  /\ x'[q].out = x[q].out /\ x'[q].ap = x[q].ap
             /\ \A p \in Requests \ {q} : x'[p] = x[p]
  BY <1>1 DEF Step, HandlerInv
<1>2. ASSUME NEW e, DOMAIN e = Fields
      PROVE  Same(Failed(r, e), e)
  BY <1>2 DEF Failed, Fields
<1>3. ASSUME NEW e, DOMAIN e = Fields, NEW eof
      PROVE  Same(Closed(r, e, eof), e)
  BY <1>3 DEF Closed, Fields
<1>4. ASSUME NEW e, DOMAIN e = Fields
      PROVE  Same([e EXCEPT !.left = TRUE], e)
  BY <1>4 DEF Fields
<1>5. x[q].pc \in Leaving
  BY DEF Leaving, Send, NoAnswer, ClientLeaves, AnswerBegins, Chunk, AnswerEnds, AnswerBreaks, Record
<1>6. \E f : Step(q, f) /\ Same(f, x[q])
  <2>1. CASE Send(q)
    <3> DEFINE f == [x[q] EXCEPT !.pc = "sent"]
    <3>1. Same(f, x[q])
      BY DEF Fields
    <3> QED BY <2>1, <3>1 DEF Send
  <2>2. CASE NoAnswer(q, r)
    BY <2>2, <1>2 DEF NoAnswer
  <2>3. CASE ClientLeaves(q, r)
    <3> DEFINE g == Failed(r, x[q])
               f == [g EXCEPT !.left = TRUE]
    <3>1. Step(q, f)
      BY <2>3 DEF ClientLeaves
    <3>2. Same(g, x[q])
      BY <1>2
    <3> HIDE DEF g
    <3>3. Same(f, g)
      BY <1>4, <3>2
    <3> HIDE DEF f
    <3> QED BY <3>1, <3>2, <3>3
  <2>4. CASE AnswerBegins(q, r)
    <3>1. PICK a \in Answers :
            LET g == [x[q] EXCEPT !.answer = a]
            IN IF Rejected(g.ctx, a)
               THEN Step(q, Failed(r, g))
               ELSE Step(q, [g EXCEPT !.pc = "answering", !.status = a.status,
                               !.refs.resp = IF IsTelemetry(r) THEN TapTelemetry(a) ELSE {},
                               !.failure = IF IsTelemetry(r) THEN NoFailure
                                           ELSE Upstream(a, g.ctx, g.ap, "none")])
      BY <2>4 DEF AnswerBegins
    <3> DEFINE g == [x[q] EXCEPT !.answer = a]
               resp == IF IsTelemetry(r) THEN TapTelemetry(a) ELSE {}
               failure == IF IsTelemetry(r) THEN NoFailure ELSE Upstream(a, g.ctx, g.ap, "none")
               f == [g EXCEPT !.pc = "answering", !.status = a.status, !.refs.resp = resp,
                              !.failure = failure]
    <3>2. Step(q, Failed(r, g)) \/ Step(q, f)
      BY <3>1
    <3>3. Same(g, x[q])
      BY DEF Fields
    <3> HIDE DEF g, resp, failure
    <3>4. Same(f, g) /\ Same(Failed(r, g), g)
      BY <3>3, <1>2 DEF Fields
    <3> HIDE DEF f
    <3> QED BY <3>2, <3>3, <3>4
  <2>5. CASE Chunk(q)
    <3> DEFINE e == x[q]
               m == e.answer.chunks[Len(e.got) + 1]
               got == Append(e.got, ShownAs(e.ctx, e.answer.kind, m))
               tee == IF Len(e.tee) < Cap THEN Append(e.tee, m) ELSE e.tee
               f == [e EXCEPT !.got = got, !.tee = tee]
    <3>1. Step(q, f)
      BY <2>5 DEF Chunk
    <3> HIDE DEF got, tee
    <3>2. Same(f, e)
      BY DEF Fields
    <3> HIDE DEF f
    <3> QED BY <3>1, <3>2
  <2>6. CASE AnswerEnds(q, r)
    BY <2>6, <1>3 DEF AnswerEnds
  <2>7. CASE AnswerBreaks(q, r)
    <3> DEFINE g == Closed(r, x[q], FALSE)
               f == [g EXCEPT !.left = TRUE]
    <3>1. Step(q, g) \/ Step(q, f)
      BY <2>7 DEF AnswerBreaks
    <3>2. Same(g, x[q])
      BY <1>3
    <3> HIDE DEF g
    <3>3. Same(f, g)
      BY <1>4, <3>2
    <3> HIDE DEF f
    <3> QED BY <3>1, <3>2, <3>3
  <2>8. CASE Record(q)
    <3> DEFINE f == [x[q] EXCEPT !.pc = "over", !.record = "forwarded"]
    <3>1. Same(f, x[q])
      BY DEF Fields
    <3> QED BY <2>8, <3>1 DEF Record
  <2> QED BY <2>1, <2>2, <2>3, <2>4, <2>5, <2>6, <2>7, <2>8
<1> HIDE DEF Same
<1> QED BY <1>1, <1>5, <1>6

\* Only the Rewrite hook makes headers, of the posture the handler captured.
LEMMA OutInductive ==
  ASSUME RequestInv, RequestInv', OutInv, [Next]_vars
  PROVE  OutInv'
<1>1. /\ HandlerInv /\ Arrived \subseteq Requests /\ laid \in [Requests -> SUBSET Orders]
      /\ \A q \in Requests : LaidInv(q)
  BY DEF RequestInv, WireInv, WireTypes, Arrived
<1>2. \A q \in Arrived : DOMAIN x[q] = Fields
  BY <1>1 DEF HandlerInv, EntryOK, Shaped
\* One request moves, and the others stay.
<1>3. ASSUME NEW q \in Arrived, UNCHANGED head,
             \A p \in Requests \ {q} : x'[p] = x[p] /\ laid'[p] = laid[p],
             IsAPI(head[q]) /\ (x'[q].pc \in Leaving \/ laid'[q] # {}) => OutOf(head[q], x'[q])
      PROVE  OutInv'
  <2> SUFFICES ASSUME NEW p \in Arrived, IsAPI(head[p]), x'[p].pc \in Leaving \/ laid'[p] # {}
      PROVE  OutOf(head[p], x'[p])
    BY <1>3 DEF OutInv, Arrived, OutOf
  <2>1. CASE p = q
    BY <1>3, <2>1
  <2>2. CASE p # q
    <3>1. x'[p] = x[p] /\ laid'[p] = laid[p]
      BY <1>1, <1>3, <2>2
    <3> QED BY <3>1 DEF OutInv
  <2> QED BY <2>1, <2>2
\* It keeps what goes out.
<1>4. ASSUME NEW q \in Arrived, UNCHANGED head, x[q].pc \in Leaving,
             x'[q].out = x[q].out, x'[q].ap = x[q].ap,
             \A p \in Requests \ {q} : x'[p] = x[p] /\ laid'[p] = laid[p]
      PROVE  OutInv'
  <2>1. IsAPI(head[q]) => OutOf(head[q], x[q])
    BY <1>4 DEF OutInv
  <2>2. IsAPI(head[q]) => OutOf(head[q], x'[q])
    BY <1>4, <2>1 DEF OutOf
  <2> QED BY <1>3, <1>4, <2>2
\* It has nothing to send yet, or any more.
<1>5. ASSUME NEW q \in Arrived, UNCHANGED <<head, laid>>, x[q].pc \in {"idle", "captured"},
             x'[q].pc \notin Leaving,
             \A p \in Requests \ {q} : x'[p] = x[p]
      PROVE  OutInv'
  <2>1. laid'[q] = {}
    BY <1>1, <1>5 DEF LaidInv
  <2> QED BY <1>1, <1>3, <1>5, <2>1
<1>6. ASSUME NEW q \in Requests, Arrives(q) PROVE OutInv'
  <2>1. PICK h \in Heads : Arrive(q, h)
    BY <1>6 DEF Arrives
  <2>2. UNCHANGED <<x, laid>> /\ q \notin Arrived
    BY <1>6, <2>1 DEF Arrives, Arrive, exchangeVars, Upcoming
  <2>3. head' = [p \in Arrived \union {q} |-> IF p = q THEN h ELSE head[p]]
    BY <2>1 DEF Arrive, Arrived
  <2>4. x[q].pc = "idle" /\ laid[q] = {}
    BY <1>1, <2>2 DEF HandlerInv, Idle, LaidInv
  <2>5. ASSUME NEW p \in Arrived \union {q}, IsAPI(head'[p]), x[p].pc \in Leaving \/ laid[p] # {}
        PROVE  OutOf(head'[p], x[p])
    <3>1. p # q
      BY <2>4, <2>5 DEF Leaving
    <3>2. p \in Arrived /\ head'[p] = head[p]
      BY <3>1, <2>3
    <3> QED BY <2>5, <3>2 DEF OutInv
  <2>6. DOMAIN head' = Arrived \union {q}
    BY <2>3
  <2> QED BY <2>2, <2>5, <2>6 DEF OutInv, Arrived, OutOf
<1>7. ASSUME NEW q \in Requests, ServerAnswers(q) PROVE OutInv'
  <2> DEFINE f == [x[q] EXCEPT !.pc = "over", !.status = 200]
  <2>1. q \in Arrived /\ x[q].pc = "idle" /\ Step(q, f) /\ UNCHANGED <<head, laid>>
    BY <1>7 DEF ServerAnswers, Next1, orderVars
  <2>2. f.pc = "over"
    BY <1>2, <2>1 DEF Fields
  <2> HIDE DEF f
  <2>3. x'[q] = f /\ \A p \in Requests \ {q} : x'[p] = x[p]
    BY <1>1, <2>1 DEF Step, HandlerInv
  <2> QED BY <1>5, <2>1, <2>2, <2>3 DEF Leaving
<1>8. ASSUME NEW q \in Requests, Begin(q) PROVE OutInv'
  <2>1. q \in Arrived /\ x[q].pc = "idle" /\ Capture(q) /\ UNCHANGED <<head, laid>>
    BY <1>8 DEF Begin, Next1, Capture, Pop, orderVars
  <2>2. HandlerInv' /\ Became(q, {"captured", "over"})
    BY <1>1, <2>1, BeginsFine
  <2> QED BY <1>5, <2>1, <2>2 DEF Became, Leaving
<1>9. ASSUME NEW q \in Requests, Decide(q) PROVE OutInv'
  <2>1. q \in Arrived /\ x[q].pc = "captured" /\ UNCHANGED <<head, laid>>
    BY <1>9 DEF Decide, Synthesize, RefuseUnroutable, RefuseAuthMissing, RefuseRewrite,
                Forward, ForwardTelemetry, Routed, orderVars
  <2>2. CASE \/ Synthesize(q, head[q]) \/ RefuseUnroutable(q, head[q])
             \/ RefuseAuthMissing(q, head[q]) \/ RefuseRewrite(q, head[q])
    <3>1. Became(q, {"over"})
      BY <1>1, <2>1, <2>2, DecidesItself, RefusesRewrite
    <3> QED BY <1>5, <2>1, <3>1 DEF Became, Leaving
  <2>3. CASE Forward(q, head[q])
    <3> DEFINE r == head[q]
               p == x[q].ap
               ctx == IF IsAPI(r) THEN ContextOf(p.alias, AsRead(r)) ELSE NoContext
               body == IF IsAPI(r) THEN RewriteRequest(p.alias, AsRead(r), Keep) ELSE BodyRead(r)
               in == Read(r.lines)
               out == Outgoing(in, IsAPI(r), ctx.normalize, p.own, p.auth)
               diff == Changes(in, out)
                 taken == IF p.capture THEN TeeRequest(r, r.body) ELSE {}
               sent == IF p.capture /\ ctx.rewritten THEN TeeRequest(r, body) ELSE {}
               f == [x[q] EXCEPT !.pc = "ready", !.ctx = ctx, !.body = body,
                                 !.out = out, !.diff = diff, !.refs.body = taken, !.refs.up = sent]
    <3>1. Step(q, f)
      BY <2>3 DEF Forward
    <3> HIDE DEF ctx, body, diff, taken, sent
    <3>2. f.out = out /\ f.ap = x[q].ap
      <4> HIDE DEF out
      <4> QED BY <1>2, <2>1 DEF Fields
    <3> HIDE DEF f
    <3>3. IsAPI(r) => OutOf(r, f)
      BY <3>2 DEF OutOf, ForAPI
    <3>4. x'[q] = f /\ \A o \in Requests \ {q} : x'[o] = x[o]
      BY <1>1, <2>1, <3>1 DEF Step, HandlerInv
    <3> QED BY <1>3, <2>1, <3>3, <3>4
  <2>4. CASE ForwardTelemetry(q, head[q])
    <3>1. ~IsAPI(head[q])
      BY <2>4 DEF ForwardTelemetry, IsAPI, IsTelemetry
    <3>2. Became(q, {"ready"})
      BY <1>1, <2>1, <2>4, ForwardsFine
    <3> QED BY <1>3, <2>1, <3>1, <3>2 DEF Became
  <2> QED BY <1>9, <2>2, <2>3, <2>4 DEF Decide
<1>10. ASSUME UNCHANGED <<x, head, laid>> PROVE OutInv'
  BY <1>10 DEF OutInv, Arrived, OutOf
<1>11. ASSUME NEW q \in Requests, GetConn(q) \/ Retry(q) PROVE OutInv'
  <2>1. UNCHANGED <<x, head, laid>>
    BY <1>11 DEF GetConn, Retry, GotConn, Release, exchangeVars
  <2> QED BY <1>10, <2>1
<1>12. ASSUME NEW q \in Requests, x[q].pc # "idle" PROVE q \in Arrived
  BY <1>1, <1>12 DEF HandlerInv, Idle
<1>13. ASSUME NEW q \in Requests, WriteHead(q) PROVE OutInv'
  <2>1. Send(q) /\ q \in Arrived /\ UNCHANGED head
    BY <1>12, <1>13 DEF WriteHead, Send, Relay
  <2>2. \A p \in Requests \ {q} : laid'[p] = laid[p]
    BY <1>1, <1>13 DEF WriteHead, Relay
  <2> QED BY <1>1, <1>2, <1>4, <2>1, <2>2, KeepsOut
<1>14. ASSUME NEW q \in Requests, Answer(q) PROVE OutInv'
  <2>1. q \in Arrived /\ UNCHANGED <<head, laid>>
    BY <1>14 DEF Answer, Release, orderVars
  <2>2. \/ NoAnswer(q, head[q]) \/ ClientLeaves(q, head[q]) \/ AnswerBegins(q, head[q])
        \/ Chunk(q) \/ AnswerEnds(q, head[q]) \/ AnswerBreaks(q, head[q])
    BY <1>14 DEF Answer
  <2> QED BY <1>1, <1>2, <1>4, <2>1, <2>2, KeepsOut
<1>15. ASSUME NEW q \in Requests, Records(q) PROVE OutInv'
  <2>1. Record(q) /\ q \in Arrived /\ UNCHANGED <<head, laid>>
    BY <1>12, <1>15 DEF Records, Record, orderVars
  <2> QED BY <1>1, <1>2, <1>4, <2>1, KeepsOut
<1>16. CASE ((SwitchPosture \/ EndSession) /\ UNCHANGED orderVars) \/ UNCHANGED vars
  <2>1. UNCHANGED <<x, head, laid>>
    BY <1>16 DEF SwitchPosture, EndSession, vars, exchangeVars, orderVars
  <2> QED BY <1>10, <2>1
<1> QED BY <1>6, <1>7, <1>8, <1>9, <1>11, <1>13, <1>14, <1>15, <1>16 DEF Next

\* A head goes out in the order of one request at most.
OneLaid == \A q \in Requests : \A a, b \in laid[q] : a = b

\* Only the writing of a head sets the order it is laid out in.
LEMMA OneLaidInductive ==
  ASSUME RequestInv, OneLaid, [Next]_vars
  PROVE  OneLaid'
<1>1. laid \in [Requests -> SUBSET Orders]
  BY DEF RequestInv, WireInv, WireTypes
<1>2. ASSUME NEW q \in Requests, WriteHead(q) PROVE OneLaid'
  <2>1. \E o : laid' = [laid EXCEPT ![q] = {o}]
    BY <1>2 DEF WriteHead, Relay
  <2> QED BY <1>1, <2>1 DEF OneLaid
<1>3. ASSUME NEW q \in Requests, Arrives(q) \/ ServerAnswers(q) \/ Begin(q) PROVE UNCHANGED laid
  BY <1>3 DEF Arrives, Arrive, ServerAnswers, Begin, Pop, orderVars
<1>4. ASSUME NEW q \in Requests, Decide(q) \/ Records(q) PROVE UNCHANGED laid
  BY <1>4 DEF Decide, Records, orderVars
<1>5. ASSUME NEW q \in Requests, GetConn(q) \/ Retry(q) \/ Answer(q) PROVE UNCHANGED laid
  <2>1. ASSUME NEW keep, Release(q, keep) PROVE UNCHANGED laid
    BY <2>1 DEF Release, orderVars
  <2>2. \A fresh : GotConn(q, fresh) => UNCHANGED laid
    BY DEF GotConn
  <2> QED BY <1>5, <2>1, <2>2 DEF GetConn, Retry, Answer, orderVars
<1>6. CASE ((SwitchPosture \/ EndSession) /\ UNCHANGED orderVars) \/ UNCHANGED vars
  BY <1>6 DEF orderVars, vars, OneLaid
<1> QED BY <1>2, <1>3, <1>4, <1>5, <1>6 DEF OneLaid, Next

\* The map net/http reads has its values in places.
LEMMA ReadLists ==
  ASSUME NEW s, IsHead(s, Len(s))
  PROVE  Lists(Read(s))
<1>1. ASSUME NEW n \in DOMAIN Read(s) PROVE \E m \in Nat : DOMAIN Read(s)[n] = 1..m
  <2> DEFINE lines == {i \in DOMAIN s : s[i].name = n}
  <2>1. DOMAIN Read(s)[n] = 1..Cardinality(lines)
    BY <1>1 DEF Read
  <2>2. IsFiniteSet(1..Len(s)) /\ lines \in SUBSET (1..Len(s))
    BY FS_Interval DEF IsHead
  <2> HIDE DEF lines
  <2>3. Cardinality(lines) \in Nat
    BY <2>2, FS_Subset, FS_CardinalityType
  <2> QED BY <2>1, <2>3
<1> QED BY <1>1 DEF Lists

\* With sets one name.
LEMMA WithDomain == ASSUME NEW h, NEW n, NEW v PROVE DOMAIN With(h, n, v) = DOMAIN h \union {n}
BY DEF With

\* Its value is the one given.
LEMMA WithAt == ASSUME NEW h, NEW n, NEW v PROVE With(h, n, v)[n] = <<v>>
BY DEF With

\* The other names keep theirs.
LEMMA WithElse ==
  ASSUME NEW h, NEW n, NEW v, NEW k \in DOMAIN h, k # n
  PROVE  With(h, n, v)[k] = h[k]
BY DEF With

\* What the Rewrite hook sends a gateway has the gateway's credential, and none
\* of the client's.
LEMMA OutgoingOwn ==
  ASSUME NEW h, Lists(h), NEW normalize, NEW own, NEW auth,
         auth.name \in {"Authorization", "X-Api-Key"},
         NEW out, out = ForAPI(h, normalize, own, auth)
  PROVE  OnlyOwn(out, auth)
<1>1. ASSUME NEW g, Lists(g), NEW names PROVE Lists(Without(g, names))
  BY <1>1 DEF Lists, Without
<1>2. ASSUME NEW g, Lists(g), NEW n, NEW v PROVE Lists(With(g, n, v))
  <2>1. DOMAIN <<v>> = 1..1 /\ 1 \in Nat
    OBVIOUS
  <2> QED BY <1>2, <2>1 DEF Lists, With
<1>3. ASSUME NEW g, Lists(g) PROVE Lists(Apply(g, own))
  <2>1. \A v : DOMAIN <<v>> = 1..1 /\ 1 \in Nat
    OBVIOUS
  <2>2. ASSUME NEW n \in DOMAIN Apply(g, own) PROVE \E m \in Nat : DOMAIN Apply(g, own)[n] = 1..m
    <3>1. n \in DOMAIN g \union DOMAIN own /\ Apply(g, own)[n] = IF n \in DOMAIN own THEN <<own[n]>> ELSE g[n]
      BY <2>2 DEF Apply
    <3> QED BY <1>3, <2>1, <3>1 DEF Lists
  <2> QED BY <2>2 DEF Lists
<1> DEFINE kept == Without(h, HopByHop)
           read == IF normalize THEN With(kept, "Accept-Encoding", "identity") ELSE kept
           base == Apply(read, own)
           bare == Without(base, Credentials)
           set == With(bare, auth.name, auth.value)
<1>4. Lists(bare)
  <2>1. Lists(kept)
    BY <1>1
  <2> HIDE DEF kept
  <2>2. Lists(read)
    BY <1>2, <2>1
  <2> HIDE DEF read
  <2>3. Lists(base)
    BY <1>3, <2>2
  <2> HIDE DEF base
  <2> QED BY <1>1, <2>3
<1>5. DOMAIN bare \intersect Credentials = {}
  BY DEF Without
<1>6. out = IF auth.oauth THEN MergeBeta(set) ELSE set
  BY DEF ForAPI, Outgoing, Override
<1> HIDE DEF bare
<1>7. OnlyOwn(set, auth)
  <2>1. auth.name \in Credentials
    BY DEF Credentials
  <2>2. Lists(set)
    BY <1>2, <1>4
  <2>3. DOMAIN set = DOMAIN bare \union {auth.name}
    BY WithDomain
  <2>4. set[auth.name] = <<auth.value>>
    BY WithAt
  <2> HIDE DEF set
  <2> QED BY <1>5, <2>1, <2>2, <2>3, <2>4 DEF OnlyOwn
<1> HIDE DEF set
<1>8. ASSUME NEW v PROVE OnlyOwn(With(set, "Anthropic-Beta", v), auth)
  <2>1. "Anthropic-Beta" \notin Credentials /\ auth.name # "Anthropic-Beta"
    BY DEF Credentials
  <2>2. Lists(set) /\ auth.name \in DOMAIN set /\ set[auth.name] = <<auth.value>>
        /\ \A n \in DOMAIN set \intersect Credentials : n = auth.name
    BY <1>7 DEF OnlyOwn
  <2> DEFINE m == With(set, "Anthropic-Beta", v)
  <2>3. Lists(m)
    BY <1>2, <2>2
  <2>4. DOMAIN m = DOMAIN set \union {"Anthropic-Beta"}
    BY WithDomain
  <2>5. m[auth.name] = set[auth.name]
    BY <2>1, <2>2, WithElse
  <2> HIDE DEF m
  <2>6. OnlyOwn(m, auth)
    BY <1>7, <2>1, <2>2, <2>3, <2>4, <2>5 DEF OnlyOwn
  <2> QED BY <2>6 DEF m
<1>9. OnlyOwn(MergeBeta(set), auth)
  BY <1>7, <1>8 DEF MergeBeta
<1> QED BY <1>6, <1>7, <1>9

\* A gateway whose credential ccwrap holds gets that credential once and none of
\* Claude Code's, whatever headers and layout its client uses.
THEOREM SpecGatewayGetsItsOwn == Spec => []GatewayGetsItsOwn
<1>1. Init => OutInv
  BY DEF Init, WireOrderInit, OutInv, Arrived
<1>2. RequestInv /\ RequestInv' /\ OutInv /\ [Next]_vars => OutInv'
  BY OutInductive
<1>3. Init => OneLaid
  BY DEF Init, WireOrderInit, OneLaid
<1>4. RequestInv /\ OneLaid /\ [Next]_vars => OneLaid'
  BY OneLaidInductive
<1>5. RequestInv /\ OutInv /\ OneLaid => GatewayGetsItsOwn
  <2> SUFFICES ASSUME RequestInv, OutInv, OneLaid, NEW q \in Requests,
                      WasSent(q), IsAPI(head[q]), x[q].ap.auth.name # "none"
      PROVE  LET auth == x[q].ap.auth
                 wire == Wire(q)
                 given == {i \in DOMAIN wire : wire[i].name \in Credentials}
             IN \E i \in given : given = {i} /\ wire[i].name = auth.name /\ wire[i].value = auth.value
    BY DEF GatewayGetsItsOwn
  <2> DEFINE auth == x[q].ap.auth
             go == GoHead(x[q].out, Framed(q))
  <2>1. /\ HandlerInv /\ Arrived \subseteq Requests /\ LaidInv(q) /\ OrderInv(q)
        /\ \A p \in Arrived : head[p] \in Heads
    BY DEF RequestInv, WireInv, WireTypes, Arrived
  <2>2. q \in Arrived
    BY <2>1 DEF WasSent, LaidInv, HandlerInv, Idle
  <2>3. auth.name \in {"Authorization", "X-Api-Key"}
    BY <2>1, <2>2, ExchangeAssumption DEF HandlerInv, EntryOK, Typed, ExchangeAssumption
  <2>4. \A p \in Arrived : IsHead(head[p].lines, Len(head[p].lines))
    BY <2>1, RequestPathAssumption DEF RequestPathAssumption, IsHead
  <2>5. OnlyOwn(x[q].out, auth)
    <3>1. PICK normalize : x[q].out = ForAPI(Read(head[q].lines), normalize, x[q].ap.own, auth)
      BY <2>2 DEF OutInv, OutOf, WasSent
    <3>2. Lists(Read(head[q].lines))
      BY <2>2, <2>4, ReadLists
    <3> HIDE DEF auth
    <3> QED BY <3>1, <3>2, <2>3, OutgoingOwn
  <2>6. Gives(go, auth) /\ \E n : IsHead(go, n)
    BY <2>5, GoHeadGives
  <2>7. Gives(Wire(q), auth)
    <3> HIDE DEF auth, go
    <3>1. CASE laid[q] \subseteq {NoOne}
      BY <3>1, <2>6 DEF Wire, go
    <3>2. CASE ~(laid[q] \subseteq {NoOne})
      <4> DEFINE o == CHOOSE o \in laid[q] : TRUE
      <4>1. o \in Arrived
        <5>1. order[q] # NoOne /\ laid[q] = {order[q]}
          BY <2>1, <3>2 DEF LaidInv, OneLaid
        <5>2. o = order[q]
          BY <5>1
        <5> QED BY <5>1, <5>2, <2>1 DEF OrderInv
      <4>2. Wire(q) = Reorder(head[o].lines, go)
        BY <3>2 DEF Wire, go
      <4> HIDE DEF o
      <4> QED BY <4>1, <4>2, <2>4, <2>6, ReorderGives
    <3> QED BY <3>1, <3>2
  <2> QED BY <2>7 DEF Gives
<1> QED BY <1>1, <1>2, <1>3, <1>4, <1>5, RequestInvariant, PTL DEF Spec
=============================================================================
