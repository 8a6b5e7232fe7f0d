-------------------------------- MODULE Issues --------------------------------
(***************************************************************************)
(* A session's issues and its health.  Requests file what happens to them, *)
(* native-TLS dials report whether they mirror Claude Code, a switch       *)
(* settles what the new route changes, and every critical section that     *)
(* touches the issues projects them onto the session: the list, and Health *)
(* as the worst open one.                                                  *)
(*                                                                         *)
(* Sources: internal/supervisor issues.go, failure.go, nativetls.go, and   *)
(* recordRequest and recordError of server.go.  Wording, counts, evidence  *)
(* and times of an issue are left out.  The model starts at the launch     *)
(* publish of createSession; Session models what comes before.             *)
(***************************************************************************)
EXTENDS Naturals, FiniteSets

CONSTANTS
  Models,       \* Claude's model names
  Routes,       \* the routes a launch or a switch can resolve
  Handlers,     \* goroutines that serve requests
  Statuses,     \* HTTP statuses an upstream answers with
  MaxUnmapped   \* maxUnmappedModels

\* A route: its profile, upstream (base URL and egress) and credentials,
\* whether it lacks a key, whether its base URL is one Claude Code cannot use
\* (it ends in /v1, or is an OpenAI-compatible endpoint), and the models it
\* leaves unaliased.  A first-party route has no bad base URL and leaves no
\* model unaliased.
ASSUME IssuesAssumption ==
  /\ \A r \in Routes : /\ DOMAIN r = {"profile", "upstream", "auth", "missing", "badBase", "unmaps"}
                       /\ r.missing \in BOOLEAN /\ r.badBase \in {"no", "v1", "openai"}
                       /\ r.unmaps \subseteq Models
  /\ Statuses \subseteq Nat
  /\ MaxUnmapped \in Nat \ {0}

Ids == {"unaliased_model", "credentials_rejected", "base_url", "rate_limited",
        "auth_missing", "native_tls_blocked", "upstream_unreachable", "requests_failing"}

\* "turn" is POST /v1/messages, "api" another call of the Anthropic API, "plain"
\* a request to any other host: no credentials and no aliases apply to it.
Kinds == {"turn", "api", "plain"}

VARIABLES
  active,    \* sess.active: the route in force
  issues,    \* sess.issues: the severity of each open issue, or "closed"
  named,     \* the models the unaliased_model issue names
  unmapped,  \* sess.public.UnmappedModels
  health,    \* sess.public.Health
  tls,       \* sess.public.NativeTLS: "active" or "blocked"
  ended,     \* sess.public.State is Ended
  reqs       \* each handler's request: its step, captured route, kind and model

vars == <<active, issues, named, unmapped, health, tls, ended, reqs>>

Idle == [pc |-> "idle"]

Requests == [pc : {"sending", "answering", "blocked", "refused", "failed"},
             route : Routes, kind : Kinds, model : Models]

IssueMap == [Ids -> {"closed", "warn", "error"}]

Opened(id) == issues[id] # "closed"

\* openIssueLocked: an open issue keeps its severity.
Open(is, id, severity) == IF is[id] = "closed" THEN [is EXCEPT ![id] = severity] ELSE is

\* resolveIssueLocked.
Resolve(is, ids) == [id \in Ids |-> IF id \in ids THEN "closed" ELSE is[id]]

\* projectIssuesLocked: Health is the worst open issue's severity.
Worst(is) ==
  IF \E id \in Ids : is[id] = "error" THEN "error"
  ELSE IF \E id \in Ids : is[id] = "warn" THEN "warn" ELSE "ok"

Project == health' = Worst(issues')

TypeOK ==
  /\ active \in Routes
  /\ issues \in IssueMap
  /\ named \subseteq Models
  /\ unmapped \subseteq Models /\ IsFiniteSet(unmapped) /\ Cardinality(unmapped) <= MaxUnmapped
  /\ health \in {"ok", "warn", "error"}
  /\ tls \in {"active", "blocked"}
  /\ ended \in BOOLEAN
  /\ reqs \in [Handlers -> Requests \union {Idle}]

\* createSession's launch publish: the route's missing key is the one issue.
Init ==
  /\ active \in Routes
  /\ issues = [id \in Ids |-> IF id = "auth_missing" /\ active.missing THEN "warn" ELSE "closed"]
  /\ named = {}
  /\ unmapped = {}
  /\ health = Worst(issues)
  /\ tls = "active"
  /\ ended = FALSE
  /\ reqs = [q \in Handlers |-> Idle]

-----------------------------------------------------------------------------
\* A request captures the route in force; maybeRefuseAuthMissing refuses it
\* when credentials apply and the captured route has none.
RequestArrive(q, kind, m) ==
  /\ reqs[q] = Idle
  /\ reqs' = [reqs EXCEPT ![q] =
       [pc |-> IF active.missing /\ kind # "plain" THEN "refused" ELSE "sending",
        route |-> active, kind |-> kind, model |-> m]]
  /\ UNCHANGED <<active, issues, named, unmapped, health, tls, ended>>

\* The refusal is a synthetic record and an error: neither opens an issue,
\* since the route itself does (noteErrorLocked).
RecordRefusal(q) ==
  /\ reqs[q].pc = "refused"
  /\ reqs' = [reqs EXCEPT ![q] = Idle]
  /\ UNCHANGED <<active, issues, named, unmapped, health, tls, ended>>

\* recordNativeTLS: a dial that mirrors Claude Code's hello resolves the issue,
\* one that cannot opens it and blocks its request.
NativeDial(q, mirrored) ==
  /\ reqs[q].pc = "sending"
  /\ reqs' = [reqs EXCEPT ![q].pc = IF mirrored THEN "answering" ELSE "blocked"]
  /\ tls' = IF mirrored THEN "active" ELSE "blocked"
  /\ issues' =
       IF ended THEN issues
       ELSE IF mirrored THEN Resolve(issues, {"native_tls_blocked"})
       ELSE Open(issues, "native_tls_blocked", "error")
  /\ IF ended THEN UNCHANGED health ELSE Project
  /\ UNCHANGED <<active, named, unmapped, ended>>

\* RewriteRequest refuses a body its route's strict aliases do not map.  Its
\* record names no model and files nothing.
RewriteFails(q) ==
  /\ reqs[q].pc = "sending" /\ reqs[q].kind # "plain"
  /\ issues' = IF ended THEN issues ELSE [issues EXCEPT !["requests_failing"] = "error"]
  /\ IF ended THEN UNCHANGED health ELSE Project
  /\ reqs' = [reqs EXCEPT ![q] = Idle]
  /\ UNCHANGED <<active, named, unmapped, tls, ended>>

\* issueForError: what the error of a request that got no response counts
\* toward.  A telemetry host's outage is one of the failures no other issue
\* covers.
IssueForError(q) ==
  CASE reqs[q].pc = "blocked" -> {"native_tls_blocked"}
    [] reqs[q].pc \in {"sending", "answering"} ->
         {"upstream_unreachable"} \union (IF reqs[q].kind = "plain" THEN {"requests_failing"} ELSE {})
    [] OTHER -> {}

\* noteErrorLocked: a blocked request only counts toward the issue its dial
\* opened; requests_failing takes the worst severity since it opened.
NoteError(is, id) ==
  CASE id = "native_tls_blocked" -> is
    [] id = "requests_failing" -> [is EXCEPT ![id] = "error"]
    [] OTHER -> Open(is, id, "error")

\* Mutants of RecordError: no projection; no test of Ended.
RecordErrorUnprojected(q) ==
  \E id \in IssueForError(q) :
    /\ issues' = IF ended THEN issues ELSE NoteError(issues, id)
    /\ reqs' = [reqs EXCEPT ![q].pc = "failed"]
    /\ UNCHANGED <<active, named, unmapped, health, tls, ended>>

RecordErrorAlways(q) ==
  \E id \in IssueForError(q) :
    /\ issues' = NoteError(issues, id)
    /\ Project
    /\ reqs' = [reqs EXCEPT ![q].pc = "failed"]
    /\ UNCHANGED <<active, named, unmapped, tls, ended>>

\* recordError, from the reverse proxy's error handler.
RecordError(q) ==
  \E id \in IssueForError(q) :
    /\ issues' = IF ended THEN issues ELSE NoteError(issues, id)
    /\ IF ended THEN UNCHANGED health ELSE Project
    /\ reqs' = [reqs EXCEPT ![q].pc = "failed"]
    /\ UNCHANGED <<active, named, unmapped, tls, ended>>

-----------------------------------------------------------------------------
Unaliased(rq) == rq.kind # "plain" /\ rq.model \in rq.route.unmaps

\* failureIssue: the issue an upstream's error status counts toward.
FailureIssue(rq, status) ==
  CASE rq.route.badBase # "no" /\ status = 404 -> "base_url"
    [] rq.route.badBase = "openai" /\ status = 405 -> "base_url"
    [] Unaliased(rq) /\ status \in {400, 404, 422} -> "unaliased_model"
    [] status \in {401, 403} -> "credentials_rejected"
    [] status = 429 -> "rate_limited"
    [] OTHER -> "requests_failing"

\* Mutant of Disproved: any success disproves every issue a request files.
DisprovedAll == Ids \ {"unaliased_model", "auth_missing"}

\* The issues a turn that succeeds disproves.
Disproved == {"credentials_rejected", "base_url", "rate_limited", "upstream_unreachable", "requests_failing"}

\* noteRequestLocked: a model sent unaliased opens its issue whatever the
\* answer; a turn's error status opens one more, its success resolves some.
\* A failure of ccwrap's own was filed by its error.
NoteRequest(is, rq, status) ==
  LET noted == IF Unaliased(rq) THEN Open(is, "unaliased_model", "warn") ELSE is
  IN  CASE rq.kind # "turn" \/ rq.pc = "failed" -> noted
        [] status < 400 -> Resolve(noted, Disproved)
        [] OTHER -> Open(noted, FailureIssue(rq, status), "warn")

\* recordRequest: an ended session still lists the model, and files nothing.
RecordRequest(q) ==
  LET rq == reqs[q]
      room == Cardinality(unmapped) < MaxUnmapped
  IN
  /\ rq.pc \in {"sending", "answering", "failed"}
  /\ unmapped' = IF Unaliased(rq) /\ room THEN unmapped \union {rq.model} ELSE unmapped
  /\ \E status \in IF rq.pc = "failed" THEN {502} ELSE Statuses :
       issues' = IF ended THEN issues ELSE NoteRequest(issues, rq, status)
  /\ named' = IF Unaliased(rq) /\ ~ended THEN unmapped' ELSE named
  /\ IF ended THEN UNCHANGED health ELSE Project
  /\ reqs' = [reqs EXCEPT ![q] = Idle]
  /\ UNCHANGED <<active, tls, ended>>

-----------------------------------------------------------------------------
\* notePostureLocked: the issues a route change settles.
SettledBy(old, cur) ==
  LET switched == old.profile # cur.profile
      upstreamChanged == switched \/ old.upstream # cur.upstream
      authChanged == upstreamChanged \/ old.auth # cur.auth
  IN  {id \in Ids :
         \/ id = "auth_missing" /\ ~cur.missing
         \/ id = "credentials_rejected" /\ authChanged
         \/ id = "base_url" /\ (switched \/ cur.badBase = "no")
         \/ id \in {"rate_limited", "upstream_unreachable", "requests_failing"} /\ upstreamChanged
         \/ id = "unaliased_model" /\ unmapped \intersect cur.unmaps = {}}

\* SwitchProfile's publish: whatever the session's state.
Switch(r) ==
  LET settled == Resolve(issues, SettledBy(active, r))
  IN
  /\ active' = r
  /\ issues' = IF r.missing THEN Open(settled, "auth_missing", "warn") ELSE settled
  /\ unmapped' = unmapped \intersect r.unmaps
  /\ named' = IF issues'["unaliased_model"] # "closed" THEN unmapped' ELSE named
  /\ Project
  /\ UNCHANGED <<tls, ended, reqs>>

\* closeSession.
End ==
  /\ ~ended
  /\ ended' = TRUE
  /\ UNCHANGED <<active, issues, named, unmapped, health, tls, reqs>>

-----------------------------------------------------------------------------
RequestStep(q) ==
  \/ \E kind \in Kinds, m \in Models : RequestArrive(q, kind, m)
  \/ RecordRefusal(q)
  \/ \E mirrored \in BOOLEAN : NativeDial(q, mirrored)
  \/ RewriteFails(q)
  \/ RecordError(q)
  \/ RecordRequest(q)

Next ==
  \/ \E q \in Handlers : RequestStep(q)
  \/ \E r \in Routes : Switch(r)
  \/ End

Spec == Init /\ [][Next]_vars

-----------------------------------------------------------------------------
(* Properties. *)

\* Health is the severity of the worst open issue at every moment, also for a
\* session that ended ("Health is the worst open one's severity",
\* model.Session): every path that touches an issue projects it in the same
\* critical section.
HealthIsWorst == health = Worst(issues)

\* The session says a key is missing exactly while the route in force has none,
\* whatever requests the routes before it refused (notePostureLocked,
\* noteErrorLocked).
AuthMissingTracksRoute == Opened("auth_missing") <=> active.missing

\* The NATIVE TLS cell and the native_tls_blocked issue of a live session agree,
\* across switches and requests that succeed over pooled connections
\* (recordNativeTLS).
NativeTLSAgrees == ~ended => (Opened("native_tls_blocked") <=> tls = "blocked")

\* A live session has an unaliased_model issue open exactly while it lists
\* unaliased models, and the issue names those, through the list's cap and
\* through route changes (recordRequest, notePostureLocked).
UnaliasedNamesModels ==
  ~ended => /\ Opened("unaliased_model") <=> unmapped # {}
            /\ Opened("unaliased_model") => named = unmapped

\* Each issue about the route, the dials or the aliases agrees with the state it is
\* about, whatever was recorded late.
IssuesAgree == AuthMissingTracksRoute /\ NativeTLSAgrees /\ UnaliasedNamesModels

\* While an issue stays open its severity never drops: a warning filed after an
\* error leaves requests_failing an error (openIssueLocked, worseHealth).
SeverityHolds ==
  [][\A id \in Ids : issues[id] = "error" => issues'[id] # "warn"]_vars

\* Requests, errors and dials that finish after the session ended leave its
\* issues and health alone; only a switch may still settle them (recordRequest,
\* recordError, recordNativeTLS).
EndedIgnoresRequests ==
  [][ended /\ reqs' # reqs => UNCHANGED <<issues, health, named>>]_vars

=============================================================================
