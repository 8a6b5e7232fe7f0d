------------------------------ MODULE Exchange ------------------------------
(***************************************************************************)
(* One request through the proxy's handlers: captured posture, body taps,  *)
(* model aliases, headers, the reverse proxy and the record.               *)
(*                                                                         *)
(* Sources: internal/supervisor/{forward,proxy,pathaware,auth_missing,     *)
(* failure,responsetee,decoderesp,bodyredact}.go.  A request is [host,     *)
(* path, method, encoded, json, cut, secret, body, lines, ...]; a response *)
(* is [status, kind, encoding, chunks, secret, ends], a chunk the model it *)
(* names.  A spill is what the body store keeps: [view, secret, whole,     *)
(* truncated].                                                             *)
(***************************************************************************)
EXTENDS Aliases, Headers

CONSTANTS
  Senders,    \* requests
  Postures,   \* [profile, thirdParty, missing, auth, own, alias, capture, native]
  Answers,    \* what upstreams answer
  Cap,        \* the chunks a body tap keeps (responseBodyCapBytes)
  Unmask,     \* CCWRAP_UNMASK_CREDENTIALS
  Keep        \* CCWRAP_KEEP_CLAUDE_METADATA

ASSUME ExchangeAssumption ==
  /\ Cap \in Nat /\ Unmask \in BOOLEAN /\ Keep \in BOOLEAN
  /\ \A p \in Postures : /\ Valid(p.alias.forward)
                          /\ p.auth.name \in {"none", "Authorization", "X-Api-Key"}
  /\ <<>> \notin Answers
  /\ \A a \in Answers : /\ a.ends \in {"eof", "broken"} /\ a.status \in Nat
                        /\ a.chunks \in Seq(Models \union {Star, NoModel})

VARIABLES
  active,   \* sess.active
  ended,    \* sess.public.State is ended
  x         \* each request's handler

exchangeVars == <<active, ended, x>>

NoContext == [rewritten |-> FALSE, normalize |-> FALSE, asked |-> {}, sent |-> {},
              unmapped |-> FALSE, reverse |-> NoAliases]
NoDiff == [injected |-> {}, rewritten |-> {}, stripped |-> {}]
NoFailure == [source |-> "none", issue |-> "none", body |-> "none"]
NoRefs == [body |-> {}, up |-> {}, resp |-> {}]

Idle(p) ==
  [pc |-> "idle", ap |-> p, body |-> <<>>, out |-> <<>>, diff |-> NoDiff,
   ctx |-> NoContext, refs |-> NoRefs, answer |-> <<>>, tee |-> <<>>, got |-> <<>>,
   status |-> 0, failure |-> NoFailure, left |-> FALSE, record |-> "none"]

ExchangeTypeOK ==
  /\ active \in Postures /\ ended \in BOOLEAN
  /\ DOMAIN x = Senders
  /\ \A q \in Senders :
       /\ x[q].pc \in {"idle", "captured", "ready", "sent", "answering", "answered", "over"}
       /\ x[q].ap \in Postures
       /\ x[q].record \in {"none", "forwarded", "synthetic", "refused"}
       /\ x[q].status \in {0, 200, 204, 404, 502} \union {a.status : a \in Answers}
       /\ \A k \in DOMAIN NoRefs : \A s \in x[q].refs[k] :
            s.view \in {"raw", "masked", "withheld", "undecoded"}

ExchangeInit ==
  /\ active \in Postures
  /\ ended = FALSE
  /\ x = [q \in Senders |-> Idle(active)]

Step(q, e) == x' = [x EXCEPT ![q] = e] /\ UNCHANGED <<active, ended>>

\* SwitchProfile publishes another posture; the session ends.
SwitchPosture == active' \in Postures \ {active} /\ UNCHANGED <<ended, x>>
EndSession == ~ended /\ ended' = TRUE /\ UNCHANGED <<active, x>>

IsAPI(r) == r.host = "api"
IsTelemetry(r) == r.host = "telemetry"
\* shouldRedactBody: a host or a path where credentials are exchanged.
Redacts(r) == r.host = "oauth" \/ r.path = "token"

-----------------------------------------------------------------------------
(* Body taps. *)

Spill(view, secret, whole, truncated) ==
  {[view |-> view, secret |-> secret, whole |-> whole, truncated |-> truncated]}

\* Mutant: what is no JSON is spilled as it is.
MaskedOpen(r, parses) ==
  IF Unmask \/ ~Redacts(r) \/ ~parses THEN "raw" ELSE "masked"

\* redactJSONBody, where shouldRedactBody says so: fails closed on what is no
\* JSON (any more).
Masked(r, parses) ==
  IF Unmask \/ ~Redacts(r) THEN "raw" ELSE IF parses THEN "masked" ELSE "withheld"

Cut(a) == Len(a.chunks) > Cap

\* The taps of requests and of telemetry read a body as it comes: a compressed
\* one is no JSON to them.
ReadsAsJSON(r, body) == body.parses /\ ~r.encoded
AnswerReadsAsJSON(a) == a.kind = "json" /\ a.encoding = "identity" /\ ~Cut(a)

\* redactTelemetryBody fails open.
MaskedTelemetry(parses) == IF Unmask \/ ~parses THEN "raw" ELSE "masked"

\* teeRequestBody: only a body read to its end is spilled.
TeeRequest(r, body) ==
  IF r.cut THEN {} ELSE Spill(Masked(r, ReadsAsJSON(r, body)), r.secret, TRUE, FALSE)

\* decodeCapturedBody: a compressed body that was cut cannot be read.
Decodes(a) == a.encoding = "identity" \/ (a.encoding = "gzip" /\ ~Cut(a))

\* Mutant: the tee spills whatever it has when it is closed.
TeeResponseAlways(r, a, buf, eof) ==
  IF buf = <<>> THEN {}
  ELSE IF ~Decodes(a) THEN Spill("undecoded", FALSE, FALSE, TRUE)
  ELSE Spill(Masked(r, a.kind = "json" /\ ~Cut(a)), a.secret, eof /\ ~Cut(a), Cut(a))

\* The tap of a response, when it is closed: a body that was not read to its
\* end is not spilled, one that cannot be decoded is withheld.
TeeResponse(r, a, buf, eof) ==
  IF ~eof \/ buf = <<>> THEN {}
  ELSE IF ~Decodes(a) THEN Spill("undecoded", FALSE, FALSE, TRUE)
  ELSE Spill(Masked(r, a.kind = "json" /\ ~Cut(a)), a.secret, ~Cut(a), Cut(a))

\* Telemetry is read ahead up to the cap before the client gets any of it.
TapTelemetry(a) ==
  IF a.chunks = <<>> \/ (a.ends = "broken" /\ ~Cut(a)) THEN {}
  ELSE Spill(MaskedTelemetry(AnswerReadsAsJSON(a)), a.secret, ~Cut(a), Cut(a))

-----------------------------------------------------------------------------
(* The handler until the request goes out. *)

\* mitmHandler captures the posture once, at its entry.
Capture(q) ==
  /\ x[q].pc = "idle"
  /\ Step(q, [Idle(active) EXCEPT !.pc = "captured"])

Auxiliary(r) == r.path \in {"models", "bootstrap", "sync", "other"}

\* A third party is spared what only Anthropic serves: the models list is made
\* of the aliases, the rest gets an answer that does no harm.
Synthesized(r, p) ==
  /\ IsAPI(r) /\ p.thirdParty /\ Auxiliary(r)
  /\ ~(r.path = "models" /\ p.alias.passthrough)

SyntheticStatus(r) ==
  CASE r.path \in {"models", "bootstrap"} -> 200 [] r.path = "sync" -> 404 [] OTHER -> 204

Synthesize(q, r) ==
  /\ x[q].pc = "captured" /\ Synthesized(r, x[q].ap)
  /\ Step(q, [x[q] EXCEPT !.pc = "over", !.status = SyntheticStatus(r),
                          !.got = IF r.path = "models" THEN SetToSeq(Explicit(x[q].ap.alias)) ELSE @,
                          !.record = "synthetic"])

\* refuseUnroutable leaves an error and no record.
RefuseUnroutable(q, r) ==
  /\ x[q].pc = "captured" /\ ~Synthesized(r, x[q].ap) /\ ~IsTelemetry(r)
  /\ ended
  /\ Step(q, [x[q] EXCEPT !.pc = "over", !.status = 502])

AuthMissing(r, p) == IsAPI(r) /\ p.missing /\ p.auth.name = "none"

Routed(q, r) ==
  /\ x[q].pc = "captured" /\ ~Synthesized(r, x[q].ap) /\ ~IsTelemetry(r)
  /\ ~ended

RefuseAuthMissing(q, r) ==
  /\ Routed(q, r) /\ AuthMissing(r, x[q].ap)
  /\ Step(q, [x[q] EXCEPT !.pc = "over", !.status = 502, !.record = "synthetic"])

\* A client that breaks off leaves a body that no longer parses.
BodyRead(r) == IF r.cut THEN [r.body EXCEPT !.parses = FALSE] ELSE r.body
AsRead(r) == [r EXCEPT !.body = BodyRead(r)]

\* Without a tap before it, the rewrite meets the broken stream itself.
AliasRefuses(r, p) ==
  IsAPI(r) /\ (Refused(p.alias, AsRead(r)) \/
               (r.cut /\ ~p.capture /\ IsRewriteEndpoint(r) /\ (Enabled(p.alias) \/ p.alias.strict)))

RefuseRewrite(q, r) ==
  LET p == x[q].ap
  IN /\ Routed(q, r) /\ ~AuthMissing(r, p) /\ AliasRefuses(r, p)
     /\ Step(q, [x[q] EXCEPT !.pc = "over", !.status = 502, !.record = "refused",
                   !.refs.body = IF p.capture THEN TeeRequest(r, r.body) ELSE {}])

\* forwardToUpstream up to the transport: taps, rewrite, Rewrite hook.
Forward(q, r) ==
  LET p == x[q].ap
      ctx == IF IsAPI(r) THEN ContextOf(p.alias, AsRead(r)) ELSE NoContext
      body == IF IsAPI(r) THEN RewriteRequest(p.alias, AsRead(r), Keep) ELSE BodyRead(r)
      in == Read(r.lines)
      out == Outgoing(in, IsAPI(r), ctx.normalize, p.own, p.auth)
  IN /\ Routed(q, r) /\ ~AuthMissing(r, p) /\ ~AliasRefuses(r, p)
     /\ Step(q, [x[q] EXCEPT !.pc = "ready", !.ctx = ctx, !.body = body,
                   !.out = out, !.diff = Changes(in, out),
                   !.refs.body = IF p.capture THEN TeeRequest(r, r.body) ELSE {},
                   !.refs.up = IF p.capture /\ ctx.rewritten
                               THEN TeeRequest(r, body) ELSE {}])

\* telemetryMITMHandler: the same taps and nothing else changed.
ForwardTelemetry(q, r) ==
  /\ x[q].pc = "captured" /\ IsTelemetry(r)
  /\ LET out == Without(Read(r.lines), HopByHop)
     IN Step(q, [x[q] EXCEPT !.pc = "ready", !.body = BodyRead(r), !.out = out,
                   !.refs.body = IF r.cut THEN {}
                                 ELSE Spill(MaskedTelemetry(ReadsAsJSON(r, r.body)), r.secret,
                                            ~r.big, r.big)])

-----------------------------------------------------------------------------
(* The reverse proxy. *)

Send(q) == x[q].pc = "ready" /\ Step(q, [x[q] EXCEPT !.pc = "sent"])

\* ErrorHandler.  Telemetry has no failure of its own.
Failed(r, e) ==
  [e EXCEPT !.pc = "answered", !.status = 502,
            !.failure = IF IsTelemetry(r) THEN NoFailure
                        ELSE [source |-> "ccwrap", issue |-> "upstream_unreachable",
                              body |-> "none"]]

\* No response: the upstream cannot be reached or breaks off.
NoAnswer(q, r) == x[q].pc \in {"ready", "sent"} /\ Step(q, Failed(r, x[q]))

\* The client leaves before the response begins.
ClientLeaves(q, r) ==
  x[q].pc \in {"ready", "sent"} /\ Step(q, [Failed(r, x[q]) EXCEPT !.left = TRUE])

\* failureIssue, as far as the request tells it.
IssueOf(a, ctx, p) ==
  CASE p.thirdParty /\ ctx.unmapped /\ a.status \in {400, 404, 422} -> "unaliased_model"
    [] a.status \in {401, 403} -> "credentials_rejected"
    [] a.status = 429 -> "rate_limited"
    [] OTHER -> "requests_failing"

Upstream(a, ctx, p, body) ==
  IF a.status < 400 THEN NoFailure
  ELSE [source |-> "upstream", issue |-> IssueOf(a, ctx, p), body |-> body]

\* A JSON response is read whole before it is written back.
Buffered(ctx, a) == Normalizes(ctx) /\ a.kind \in {"json", "jsonl"}

Rejected(ctx, a) == ResponseRefused(ctx, a) \/ (Buffered(ctx, a) /\ a.ends = "broken")

\* ModifyResponse; a response whose models cannot be written back is an error.
AnswerBegins(q, r) ==
  /\ x[q].pc = "sent"
  /\ \E a \in Answers :
       LET e == [x[q] EXCEPT !.answer = a]
       IN IF Rejected(e.ctx, a)
          THEN Step(q, Failed(r, e))
          ELSE Step(q, [e EXCEPT !.pc = "answering", !.status = a.status,
                          !.refs.resp = IF IsTelemetry(r) THEN TapTelemetry(a) ELSE {},
                          !.failure = IF IsTelemetry(r) THEN NoFailure
                                      ELSE Upstream(a, e.ctx, e.ap, "none")])

\* A chunk is copied aside and goes on to the client.
Chunk(q) ==
  LET e == x[q]
      m == e.answer.chunks[Len(e.got) + 1]
  IN /\ e.pc = "answering" /\ Len(e.got) < Len(e.answer.chunks)
     /\ Step(q, [e EXCEPT !.got = Append(@, ShownAs(e.ctx, e.answer.kind, m)),
                          !.tee = IF Len(@) < Cap THEN Append(@, m) ELSE @])

AllRead(e) == Len(e.got) = Len(e.answer.chunks)

\* What the taps make of the response when the reverse proxy closes it.
Closed(r, e, eof) ==
  LET a == e.answer
  IN [e EXCEPT !.pc = "answered",
        !.refs.resp = IF IsTelemetry(r) THEN @
                      ELSE IF e.ap.capture THEN TeeResponse(r, a, e.tee, eof) ELSE {},
        !.failure = IF eof /\ @.source = "upstream" /\ e.tee # <<>> /\ Decodes(a)
                    THEN Upstream(a, e.ctx, e.ap, IF Cut(a) THEN "cut" ELSE "whole")
                    ELSE @]

AnswerEnds(q, r) ==
  /\ x[q].pc = "answering" /\ AllRead(x[q]) /\ x[q].answer.ends = "eof"
  /\ Step(q, Closed(r, x[q], TRUE))

\* The upstream breaks off, or the client leaves: the handler is aborted, and
\* serveAbortable lets it make its record first.
AnswerBreaks(q, r) ==
  /\ x[q].pc = "answering"
  /\ \/ AllRead(x[q]) /\ x[q].answer.ends = "broken" /\ Step(q, Closed(r, x[q], FALSE))
     \/ Step(q, [Closed(r, x[q], FALSE) EXCEPT !.left = TRUE])

Record(q) ==
  /\ x[q].pc = "answered"
  /\ Step(q, [x[q] EXCEPT !.pc = "over", !.record = "forwarded"])
=============================================================================
