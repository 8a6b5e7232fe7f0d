# TLA+ models of ccwrap

ccwrap starts Claude Code behind a local proxy and routes what it sends: to
Anthropic with Claude's own login, or to a third-party gateway with a key of its
own. This directory holds TLA+ models of its concurrent core, the TLC
configurations that check them on small instances, and TLAPS proofs of the
properties that matter most for every instance. Sources are quoted as
`src/<path>`, relative to the repository.

To run a check: `tlc -workers 2 -config <cfg> <MC module>`. To check a proof:
`tlapm <Proofs module>`. `PROJECT.json` lists components, runs, mutants, the map
from definitions to source lines, findings, hazards and theorems.

| modules | model | runs | proved in |
|---|---|---|---|
| `Session`, `RouteRegister` | one session: launch, posture and switches, requests, close | `session`, `session_placeholder` | `SessionProofs` |
| `BodyStore` | captured bodies on disk | `bodies` | `FileProofs` |
| `Issues` | a session's issues and Health | `issues` | `IssuesProofs` |
| `Events` | how changes reach watchers | `events` | `EventsProofs` |
| `ProfilesFile`, `ProfilesRegister`, `ProfilesWriters` | profiles.json between processes | `profiles` | `ProfilesProofs` |
| `LocalPeer`, `Tunnels`, `Upstreams`, `Proxy` | a session proxy's connections from its port to its upstreams, and Close | `proxy` | `ProxyProofs` |
| `UiInstance`, `UiHub` | the `ccwrap ui` service, its hub and a page | `ui` | `FileProofs` |
| `Aliases`, `Headers`, `WireOrder`, `Exchange`, `RequestPath` | a request from its head to its record | `request`, `request_unreachable` | `RequestProofs` |
| `Settings`, `Preflight`, `CertAuthority`, `Launcher`, `Launch` | a launch: what it resolves, opens and lets go of | `launch`, `launch_keyless` | `LaunchProofs` |

Each MC module (`MCSession`, `MCProxy`, ...) holds the small instance of its
run. Where the product of everything is out of TLC's reach the instance names
situations, and each behaviour is of one of them; they are listed below.

## Inventory

A ccwrap launch is one process (`src/cmd/ccwrap`): the launcher, a supervisor
with a control socket, one session, and the session's proxy. Other processes are
Claude Code, other launches, and the one `ccwrap ui` service.

| component | state | operations | what is hard |
|---|---|---|---|
| launcher (`launcher.go`, `main.go`) | rollback stack, child process | CreateSession, SpawnChild, Attach, Wait, rollback | any step fails; Claude exits before Attach; the monitor sees the exit as well |
| session (`internal/supervisor/server.go`) | `sess.public`, state, request ring, timers | create, attach, mark active, record, close | every goroutine writes it; two closers |
| posture and switch (`switch.go`, `posture.go`, `internal/preflight`) | `sess.active` (atomic), its projection on `sess.public`, `switchMu` | SwitchProfile, SetCapture* | check and publish are far apart; a toggle in between |
| proxy handlers (`proxy.go`, `forward.go`, `routeresolve.go`, `pathaware.go`, `auth_missing.go`) | captured posture, cached transports, tracked connections | capture, refuse, answer locally, route, send, record, Close | a switch while a request is on its way; Close while requests run |
| body store (`bodystore.go`) | files, `closed`, WaitGroup | put, delete, load, budget, removeAll | asynchronous writers against eviction and the shred |
| issues (`issues.go`, `failure.go`, `nativetls.go`) | `sess.issues`, Health, unaliased models | open, resolve, settle by a route change, project | results that arrive after a switch or after the end |
| events (`server.go`, `api_v1.go`, `sse.go`) | event numbers, subscriber channels, `updateQueued` | broadcast, queueSessionUpdate, subscribe, stream | snapshot and broadcast are two critical sections; slow and dead readers; the stop |
| native TLS and hello stacks (`nativetls.go`, `hellostack.go`) | captured hellos, per-shape transports | capture, dial, fail closed | more shapes than the bound; capture racing dials |
| proxy connections (`proxy.go`, `proxynet.go`, `internal/localpeer`) | the guarded listener, tracked sockets, inner servers, WaitGroup | screen, dispatch, hijack, terminate, Close | what is dialled or hijacked while Close runs; clients that never finish |
| wire order (`wireorder.go`) | queue of request heads, heads due on upstream connections | record, match, lay out | pipelining, requests no handler sees, shared connections and retries |
| aliases, headers, redaction (`internal/modelalias`, `upstreamheaders`, `bodyredact.go`) | none; a context per request | rewrite, write back, strip, mask | an answer that arrives after a switch; bodies that are encoded, cut or broken |
| profiles file (`internal/profiles`, `profileapi`, `model_default.go`) | `profiles.json`, lock file | load, validate, replace, seed | several processes; a crash between two steps; a default model racing a switch |
| ui service (`internal/uiservice`) | single-instance lock, `ui.json`, known sessions, page queues | Ensure, Serve, Stop, refresh, follow, publish | Stop probes a lock by taking it; a slow page loses events |
| discovery and manifests (`internal/discovery`, `internal/manifest`) | manifest files, runtime directories | write, list, gc, orphan sweep | a supervisor that died |
| preflight, egress, settings, environment policy | none; file snapshots of a launch | pure resolution of a route | precedence of many sources; a switch that resolves again long after the launch |
| certificate authority (`internal/certs`) | key, certificate, bundle, lock | EnsureCA | two first launches; three files that must agree |
| update, projects, dashboard, capture and test tools, command line | files or none | see `PROJECT.json` | mostly input and output |

Interactions. Control API handlers, the launcher and the lifecycle monitor call
the supervisor, which holds `sess.mu` for each change of a session and `s.mu` for
each broadcast, never both. Proxy handlers load `sess.active` once and use what
they captured. Records, errors and dials report back under `sess.mu`. Watchers
(`ccwrap ui`) follow `/api/v1/events`.

What makes each component correct is listed with its module below; what is
planned has its properties in the plan.

## The modules

One action is a stretch of code between lock operations, channel operations or
calls that may block. Everything the stretch changes is part of the action.

### Session and RouteRegister

`state`, `public`, `active` and `switchMu` are the fields of `sessionState`. A
route is a record of what the properties tell apart: its profile, its transport
(egress) key, whether it is a third party, and whether ccwrap has a key for it.
`launcher` is the last launch step that completed, `launch` the posture resolved
before it; `sw[s]`, `req[q]` and `closer[c]` are program counters and locals of
the goroutines in SwitchProfile, in a proxy handler and in closeSession.

- Launch: `CreateSession` installs the session, `LaunchPublish` is the second
  critical section of createSession, then `SpawnChild`, `Attach`;
  `LauncherFails` is the rollback after any step from there.
- SwitchProfile: `SwitchCall`, `SwitchLock` (mutex and capture of the posture in
  force), `SwitchReject` and `SwitchRefuse` (all returns that change nothing),
  `SwitchResolve`, `SwitchPublish` (one section of `sess.mu`), `SwitchDrain`,
  `SwitchReport` (trace and unlock). `SetCapture` is both toggles.
- Requests: `RequestArrive` (markSessionActive), `RequestCapture`, then
  `RequestAnswerLocally` (synthetic answer, refusal, ended session) or
  `RequestRoute`, `RequestSend`, `RequestRecord`.
- Close: `CloseMark`, `CloseProxy`, `CloseBodies`, `CloseAnnounce`, for the
  launcher and the monitor.

`RouteRegister` is the abstract specification: one register with a route half
and a toggle half, shown whole, which the launch sets once, a switch changes in
one half and a toggle in the other. `RegisterSpec` is its instance with `active.r`,
`active.l` and `public` for the register's variables.

`session` checks, over a gateway with a key, one without and Anthropic, on two
egresses, with two callers, one toggle, one handler and every launch failure:

- NoTornRequest: a request uses one route throughout, and a gateway never gets
  Claude's login.
- SwitchesInOrder: RelaunchGate, TimelineIsChain and DrainSparesLiveRoute, so
  that switches that interleave come to the same as one after the other.
- EndsOnce: one closer announces the end, after everything is gone, and nothing
  brings the session back.
- RegisterSpec: the posture implements RouteRegister, for callers that may call
  before the launch is published as well.
- SwitchReturns and EndedAfterExit, under FairSpec.

MCSession's `Fits` splits the behaviours: with the toggles, two callers switch
between two routes and the session ends meanwhile; without them, two callers
switch between all three routes, or one does while a request is served, or a
request is served while the session ends. A caller that knows the session before
its launch is published only toggles.

Three routes are one per authentication contract, which is all that preflight
tells apart; two callers are enough for a check and a publish with another switch
in between, and a third would only queue on the mutex. One handler is enough
because handlers share only `caches`.

Fairness in `FairSpec`: goroutines that can go on do; a waiting switch gets the
mutex if it is free again and again (strong fairness), since Go's `sync.Mutex`
hands itself to a waiter that has starved for a millisecond. Nothing obliges a
caller to call, a request to arrive, an upstream to answer, or Claude to exit.

Abstractions: a profile read from `profiles.json` is any route or a rejection; a
posture before the launch publish is `ZeroRoute`, whose public defaults are not
told apart from it; the idle reaper (off in the launcher) is left out; the path
on which the supervisor returns before Claude exits is in `Launcher`.

### BodyStore

`spilled`, `ring` and `evicted` follow a body from `put` through its record to
eviction. `writers` and `removers` are goroutines waiting for `bodyStore.mu`,
`files` the directory in order of modification, `whole` the bodies whose bytes
are all on disk. `WriteBegin` and `WriteEnd` (or `WriteFail`) are the temporary
file and the rename with the budget pass in the same critical section. `files`
are the bodies' own files, which the budget counts: the temporary file that a
failed write may leave (`bodystore.go:69`) is not among them and goes with the
directory. The
removal is `DeleteFile`; `ShredBegin`, `ShredWaited` and `ShredEnd` are the three
parts of removeAll.

`bodies` has four bodies of sizes around a budget of three, two handlers and a
ring of one, so that ring eviction, budget eviction and the shred all meet. It
shows that no file outlives the last record that refers to it, nor the shred
(NoOrphanFile), that readers see whole bodies within the budget (DiskHolds) and,
with goroutines that run and a lock that is released, ShredReturns.

`InOrder` is an assumption of the run: a put that was started before the delete of the
same body gets the lock first. A record is evicted a full ring of requests (250)
after its put started; Go does not promise the order, and without it
NoOrphanFile fails.

### Issues

`issues[id]` is the severity of an open issue or "closed", `health` and
`unmapped` the projections on `sess.public`, `tls` the NATIVE TLS cell. Each
request carries the route it captured. `RequestArrive` and `RecordRefusal` are
maybeRefuseAuthMissing; `NativeDial` is recordNativeTLS; `RewriteFails`,
`RecordError` and `RecordRequest` file what happened; `Switch` is the publish's
notePostureLocked and projection; `End` is closeSession. Wording, counts, times
and evidence are left out. The model starts at the launch publish. A dial that
outlives its request is not modelled.

`issues` has three routes (a gateway with a bad base URL and no aliases, the same
profile after an edit, and a gateway without a key), two models over a
list capped at one, and two handlers, so that the answer of an old route arrives
after a switch. It shows HealthIsWorst, IssuesAgree (AuthMissingTracksRoute,
NativeTLSAgrees and UnaliasedNamesModels) and EndedIgnoresRequests. The handlers
are interchangeable, and no property names one: they are a symmetry set. There is
no fairness: nothing here has to happen.

### Events

`version` counts the changes of `sess.public` and stands for its content.
`pubs[p]` is a goroutine's way from a change ("changed") over its snapshot to its
broadcast; timers are the goroutines of `time.AfterFunc`. `streams[s]` is one
`/api/v1/events` request with its channel. `Change`, `Record`, `SendRecord`,
`SendRecordAndQueue`, `Fire`, `Snapshot`, `Broadcast`, `Close` and `Stop` are the
publishers; `Subscribe`, `Deliver`, `LoseClient` and `EndStream` the stream.
recordTrace announces no version and the older `/v1/events` stream, which ends
at once at the stop, is not modelled.

`Close` is closeSession for either closer, the launcher's call or the monitor, in
any order and with the announcement as late as it likes. `Stop` is Shutdown. The
launcher waits two seconds for its call and drops the error, so `Stop` may come
wherever the close is, and `stopped` says what the launcher knew: "told" when the end
has been sent, "second" when its call returned because the monitor had been first,
"late" otherwise.

`events` has one handler, two timers, both closers and a channel of two events: the
stream falls behind, one timer is armed while another has yet to broadcast, and the
stop falls before, between and after the steps of the close. A second handler
would do what the first does before or after it; the timers and the closers are
what its broadcasts interleave with. It shows Gapless,
NoChangeForgotten, EndBeforeStop (a stream that was open at the end's broadcast
has it before the stop ends the stream, and the stop overtakes the end only for one of the two
reasons) and StreamsAreServed: every change reaches an event unless the
supervisor is stopped first, and a stream of a stopped supervisor ends. Fairness:
goroutines run, and a frame is either written or fails at its write deadline
(`sseWriteTimeout`), so that a client that does not read cannot hold a stream that
has something to write. What the launcher's comment says of it
is more than the code does (see the findings).

### ProfilesFile, ProfilesRegister and ProfilesWriters

`ProfilesFile` has the data: a file is its default and a map from names to
profiles, a profile is its base URL and its "*" alias, `BadUrl` stands for
whatever Validate refuses, and `Result`, `Refuses` and `PeekStops` are the edits
as functions of a loaded file. The command line and the API differ where the
code does: what a first `add` starts with, which default a removal leaves, what
inherit-env means.

`ProfilesWriters` has the processes. `lock` is the flock of profiles.Lock, `mu`
the mutex that the handlers of one process share, `temp[a]` each writer's
temporary file, `pc[a]` where it is. An edit goes `Ask`, (`PeekStop` or
`PeekPass`, for `profile rm` and the migration, and `PromptAnswered` for the
latter), `LockStore`, `LockFile`, a load (`LoadRefused`, `LoadUnchanged`,
`LoadAndChange`), `CreateTemp`, `FillTemp`, `Rename` or `Link` and `RemoveTemp`,
`UnlockFile`, `LeaveStore`. A command in `KeysOnStdin` reads its key between the
load and the change (`AwaitKey`, `KeyRead`, `KeyRefused`). `WriteFails` and
`LockFails` are the I/O errors, `Crash` a death between any two steps: the kernel
drops the flock, the temporary file stays. `ResolveProfile` is the launch's
unlocked read.

`ProfilesRegister` is what this is for: one file, and an edit is one step on the
file as it then is, whole or not at all, refused only for what the file then
holds. `AtomicFile` is its instance; an edit happens at its rename or link.

`profiles` has a launch (two edits), a command and two handlers of one process,
of which any two edit, one edit each, and one process dies; the file is absent,
of an earlier release (default inherit-env), or has a default of its own. Two
editors are enough for a lost update, and the third party to a lock only waits.
The edits cover each kind, a profile that Validate refuses, and the ones that
move the default. It shows CrashSafe (no launch fails to read its profile, no lock
or temporary file is left behind except by a death), AtomicFile and EditsAnswered. Fairness: a process that runs
goes on; no failure, no answer to a prompt, no input and no request is
required. EditsAnswered says so: the migration's prompt may stay unanswered for
ever, since the lock is taken after it, but `profile add --auth-key-stdin` reads
its key with the lock held, and while that input stays open every other ccwrap
waits. Without the condition on `KeysOnStdin` the property fails.

Not modelled: files that a user edits by hand into something Validate refuses,
a launch with --profile or a provider group, and the switch that follows the save
of applyModelDefault.

### LocalPeer, Tunnels, Upstreams and Proxy

A connection's way through a session proxy, in three modules that extend one
another, and `Proxy`, which composes their actions.

- `LocalPeer` is the guarded listener. `stage[c]` leads from "backlog" over
  "screening" and "offered" to "yielded" or "dropped"; `loop` is the accept loop
  with its slots, `acceptor` http.Server's Accept, `port` the three steps of the
  listener's Close. `Lookup` is what a read of the socket table tells (owner,
  orphan, unknown), `Screened` the decision.
- `Tunnels` has `kind[c]` and `pc[c]`, the handler of a connection: `Dispatch`,
  `DialAndHijack`, `TrackClient`, `Establish`, `CheckClosed` and `StartCopies` of
  a blind tunnel, `PeekSucceeds`, `HandshakeSucceeds`, `Register`, `Serve` of a
  terminated one. `open` and `tracked` are sockets, `inner` registered servers,
  `wg` the WaitGroup. `CloseSnapshot` is what Close does under `sp.mu`, followed
  by its steps in order; `late` says that its context has expired.
- `Upstreams` has the hellos (`stacks`, bounded by `MaxHelloStacks`, `default`,
  `shapeOf[c]`), the `transports` with their egress key, shape and pooled
  connection, and `request[c]`: `RequestBegins` captures egress and shape,
  `PickTransport`, then `ReuseIdle` or `DialUpstream`, then its end. `SwitchEgress`,
  `DrainTakes` and `DrainCloses` are a switch's drain.

`proxy` has two connections in four situations: at the port (the second client is
anybody's), at the handlers (one connection of any kind from its CONNECT on,
beside a tunnel that serves), at the request, and at the switch (a plain request
and a tunnel's, of a tracked shape or not, while the egress is switched and Close,
out of time, comes to the pooled connections). Close comes in each. It shows
OwnWayOut (egress, hello and transport of a request are its own), CloseIsFinal
(no tunnel that serves or copies survives, nothing is accepted afterwards),
CloseReturns and AllIsFreed (every socket and every pooled connection goes in the
end, also of a transport made after the snapshot). One bound on shapes of one, two
shapes and two egresses are the least with which a shape is not tracked and a
transport is superseded.

Fairness: goroutines run; dials, the CONNECT answer, peek, handshake, Close's
context and the idle timeout of pooled connections are bounded by deadlines in
the code. No client connects or ends, no upstream answers and nobody calls Close of
necessity. The idle timeout of `net/http` is why AllIsFreed holds for late
transports; it is external to the code.

### UiInstance and UiHub

`UiInstance`: `dir` is the lock, the socket and `ui.json`; `svc[s]` a service in
the order of Serve (`TakeLock`, `Bind`, `StartServing`, `WriteInfo`, watchIdle's
`NoteAlone` and `NoteActivity`, `Touch`, `HearShutdown`, `CloseServers`,
`ClearFiles`, `Unlock`); `call[c]` a command in Ensure or Stop (`ReadInfo` and
`Ask` are Running, `AskShutdown`, `ProbeTakes`, `ProbeLets`, `Start`,
`WaitTimesOut`). A service may be killed or fail at any step (`mishaps`).

`UiHub`: `refresh[r]` is a poll or a page's GET under `refreshMu` (`Scan`,
`Summarize` one session at a time, `Commit` under `h.mu`, `Tell`), `follower[s][f]`
the goroutines that relay a session's stream (`Opens`, `Relay`, `StreamEnds`,
`FollowEnds`), `page` the page with its bounded queue and its own read.

The two meet in whether a session is listed and a page connected, which
`UiInstance` lets come and go freely, so `ui` moves one side per behaviour. On the
service's, two commands that want different versions find no service, while pages and
sessions come and go, or an older one that serves, which both replace, so that the second
of them may replace what the first has started; or a command that replaces the older
one runs beside `ccwrap ui stop`. There are three services and one mishap, and a start
meets a lock that another command holds for its probe. This shows EnsureFindsOne (commands that
replace services at once do not leave each other without one), FilesStay (no
service undoes another's files) and IdleExits. On the hub's there are one session that runs, a queue of one
event, and a page that reads the list itself, or one thing that goes wrong (a missed
probe, a cut stream or a broken connection). This shows SessionsAreFollowed (with one relay
at a time) and ListConverges (an ended session does not come back, and a page
that lost no event in the end shows the list).

The wait for a new service is taken to be long against everybody's steps: it
runs out only when no sound service is there or on its way (strong fairness of
`WaitTimesOut` in a model where it cannot come early). What goes wrong need not;
time passes for an idle service and an ended session, and the browser reconnects.

### Aliases, Headers, WireOrder, Exchange and RequestPath

`Aliases` and `Headers` are the pure parts: merging and validation of an alias
configuration, what a request's models are sent as, what of its system blocks is
stripped, and `ReverseOf`, what of an answer is written back (`ShownAs`); which
headers are overridden, merged and restored (`Override`, `MergeBeta`, `Reorder`).
A body is the models it names and the blocks it carries; a head is a sequence
of lines. What net/http writes and what `Reorder` makes of it are functions on places
(`InPlace` lists a set of places, pairs of numbers, in their order) and not folds or
selections, since the provers know nothing of those: the n-th line of a name is the
one that has n of them up to it (`Occurrence`).

`WireOrder` has the recorder of each client connection with its bounded queue,
`Pop` by a handler, and the upstream connections that `GotConn` sets for a request
and whose `Relay` lays the head out. `Exchange` has one handler per request, `x[q]`,
from `Capture` over the refusals (`RefuseAuthMissing`, `RefuseUnroutable`,
`RefuseRewrite`), synthetic answers, `Forward` and `AnswerBegins`/`AnswerEnds`/
`AnswerBreaks` to `Record`, with the body taps and what they spill masked or not.
`RequestPath` composes both: requests of one client connection are served in turn
while the server reads ahead. A client connection is to one host, and a telemetry
host's has no recorder.

`request` has five situations: pipelined heads (chunked, oversized and `OPTIONS *`
ones among them) of a client that sends three over a queue of two, of one that
sends two, within it, and of two clients at once, of two kinds at most; credentials and
layouts; every kind of model name, body and encoding, with a switch of aliases;
a batch and its results; and bodies with secrets, cut, broken or encoded, of each kind of
host. It shows
LaidAsSent, GatewayGetsItsOwn, AnswerNamesWhatWasAsked, NoSecretAtRest and
RecordsTellTheEnd. An upstream's error is recorded as the upstream's, but for an
answer that ccwrap rejects because it cannot write its models back. `LaidAsSent` says
what happens to a client that sends more ahead than the queue holds; one within it has
each head in its own layout. `NoSecretAtRest` excepts what the code excepts: a body of
telemetry that is cut, compressed or not JSON is kept as it is, since telemetry is
masked as it came and never decoded (`ReadsAsJSON`, `proxy.go:666` and `:699`), while the bodies of a credential
exchange are. There is no fairness.

Names: two Claude models, two others and one that looks provider-specific, with
aliases of one name, of a name and the default to one target, strict with
keep-names, and passthrough. Two chunks over a tap of one are a cut body.

### Settings, Preflight, CertAuthority, Launcher and Launch

`Settings` and `Preflight` are operators: which sources of Claude Code's settings
count and how they are layered for each use, the rejections of an inspection, and
what a launch or a switch resolves from options, inspection and profile
(`ResolveProfile` is the set of its results, empty for an error), down to the
child's environment. A few keys stand for each class of environment keys.
`ClaudeTarget` is where Claude Code would send its requests, external, from the
order of precedence that `claude_settings_route.go` and its tests describe.

`CertAuthority` is EnsureCA with its lock and three files, each launch dying
anywhere. `Launcher` has the steps of `sessionLauncher`, each with the error returns
that it has (ForwardSignals has none), `stack` the rollback, `relay` the signal relay
with its grace, `stop` ccwrap stop,
`dir` and `found` the directories and the sweeps that remove them; the other
launches are seen by what they leave on disk.

The calls to the supervisor may go unanswered. CreateSession may have made the session
and fail all the same (`past.missed`), and then nothing closes it. The
rollback's call to close waits for the announcement, returns at once to the second closer, or is given up after
two seconds (`ClosesSession`), while the handler goes its own way: `HandlesClose`
marks the session, `Announces` comes when proxy and bodies have gone, and until then a
request may still write its body, and with it the directory the rollback removed (`WritesBody`).

A sweep's `Scan` finds the directories with a manifest whose process ended, and may take a
live one for dead (`past.misread`, at most `MaxMisreads`): an error of
procmeta.Matches counts as a mismatch, `ps` gives another token than `/proc`, and a
status may name another session. `ccwrap stop` may conclude from a probe without
an answer that the session has gone (`stop.said` = "guessed"). `Launch` composes them with
runClaude's steps before them (profile, inspection, snapshots, resolution), with
UserEdits and with SwitchProfile afterwards.

`launch` has one launch beside another and a sweep; one with two signals and a
stop; and launches from situations of five kinds (credentials, ways past ccwrap, files
edited during the session, refusals, models and time zones) that run to Claude
Code. It shows CredentialFromItsOwner, BackAsLaunched, NoWayAround,
LeavesNothing, LiveDirStays, RootsAgree and LaunchEnds. What these except is what the
code lets happen. LeavesNothing: a session whose end is not announced when the
supervisor returned by itself or a call went unanswered, a directory while the
end is still to come, and, in ClosedThenStopped, a stop whose probe told nothing.
LiveDirStays: a launch that a scan took for dead; without that exception one misread
refutes it. Two signals are a
stop and its repetition; one edit and one switch back are what BackAsLaunched needs.
`Pdeathsig` is TRUE (Linux): elsewhere Claude Code may outlive a launcher that is
killed, and `ccwrap stop` may say it stopped; LeavesNothing excepts that. The edits
leave the SDK profile stores alone: what a launch checked there it does not look at
again, and NoWayAround is about what it checked. Fairness: the launcher's goroutine, the relay's with its timers, and
handleShutdown; Claude Code need not mind a signal that can be ignored.

## Findings

Each is a run that TLC must find violated.

- `session_placeholder` (code): ClassifyTransition judges a switch by the posture
  in force. A launch under a gateway with a key gives Claude a placeholder. A
  switch to a gateway whose key is missing is live, the next switch to Anthropic
  is judged by that gateway and is live too, and Claude's placeholder goes to
  Anthropic, although the comment ties needs_relaunch to how Claude was started.
- `launch_keyless` (code against comment): a profile with `key_env` owns the
  credential "anyway", but the settings files are kept from contributing one only
  when the variable is set. With it unset, a trusted settings file's token is sent
  to the profile's gateway instead of the request being refused.
- `request_unreachable` (comment): a failure is recorded as ccwrap's, "no upstream
  response", also for a client that left and for an answer ccwrap rejected.

Further disagreements that came up, which no run checks:

- SwitchProfile does not test for Ended: a switch after the end changes issues and
  Health that `server.go:1145` calls final. `Issues` contains the step, and
  EndedIgnoresRequests is about requests only.
- A request recorded after a switch lists a model that the new route maps
  (`types.go:288`). `Issues` contains it.
- The coalescing timer takes its snapshot and broadcasts in two critical sections,
  so its event may be older than one already sent (`server.go:160`). `Events`
  contains it.
- `profile rm` tests for the default before it scans sessions and not again under
  the lock; a profile made the default meanwhile is removed without --force
  (`profile_crud.go:476`).
- A native-TLS client that says nothing is held for two deadlines, the peek's and
  the handshake's (`proxy.go:913` says one).
- A page whose queue was full is not told, although `sessions.go:366` says it
  resyncs; `UiHub` marks it `page.lost`.
- The results of a batch whose model went as the default's target come back under
  an alias that shares the target (`modelalias.go:91`).
- gc skips a directory without a readable manifest, so a launch killed before its
  manifest leaves one for ever (`discovery.go:57`, `sessions.go:176`).
- The comment on redactJSONBody says that a body that does not parse is returned
  unchanged (`bodyredact.go:81`); the code replaces it, as `Exchange` does.
- "Whoever watches the session hears it end" (`launcher.go:155`). Where the
  monitor is the first closer the launcher's call returns before the announcement, and
  where the announcement takes longer than two seconds the call is given up; either
  way the supervisor is stopped, and streams end without session.ended. `Events` and
  `Launcher` contain both.
- The sweep reaps the directories of sessions whose supervisor is no longer live
  (`sessions.go:174`). A start token that cannot be read, or is read another way,
  counts as a mismatch and so as a dead process (`discovery.go:203`), and the directory of a
  running launch is removed. `Launcher` contains it.

Hazards known and covered by no property: put and delete of one body in the other
lock order (`bodystore.go:97`), the WaitGroup reused while waited on
(`bodystore.go:46`), the launch publish over an early switch (`server.go:716`;
the proofs assume `~EarlyCalls`), a late success resolving the new route's issues
(`issues.go:162`), and the composition of applyModelDefault's save with a switch
in between (`model_default.go:21`).

## What is proved

For every value of the constants that the ASSUMEs in the modules admit.

`SessionProofs`:
- TypeCorrect.
- ImplementsRegister: `Spec => RegisterSpec`. The step that needs an invariant is
  SwitchPublish: it publishes the route its caller resolved, which is a route
  only because the caller holds it (`SwitchInv`: `public` is the projection of
  `active`, and the holder of `switchMu` is exactly the caller inside the
  section).
- SwitchesInOrderHolds, from RelaunchGateHolds, TimelineIsChainHolds and
  DrainSparesLiveRouteHolds. None is inductive: what a caller read several steps ago must still be true. `GateInv`
  says it is: the route a caller captured is the one in force until it publishes,
  its own afterwards, and the trace lags it by exactly the switch in progress.
  They assume `~EarlyCalls`: callers learn the session from the manifest, which
  the launcher writes after CreateSession returned. With early calls the launch
  publish overwrites a switch.

- NoTornRequestHolds from `ReqInv`: what a request carries is made of the one posture
  it captured, and a route that lacks its key gets no further than its capture.
- EndsOnceHolds from `EndInv`: which closer found the session open, how far each is,
  and that the monitor starts only on a session that was attached, so that Attach
  cannot revive one.

`FileProofs`, for `BodyStore`: lemmas on the sequences of files (what is left when the
oldest go, after an append, after a removal); TypeCorrect and ReaderSeesWhole from
`Placed`, which says that a body is to be written, being written or a whole file, and
never two of them; NoOrphanFileHolds from `OwnedInv`: before the shred each such body
is in use or has a remover that is still to run. It assumes `InOrder`: a remover that
could run before its body's writer would leave the file. SpecDiskHolds adds
`BudgetInv`, that the files together are within the budget: a writer enforces it in the
section in which it adds its file, deletes and the shred only take away. The total is a
sum over the set of files, and that a subset of the files has no greater total
(TotalSizeGrows) is shown without an induction theorem, by a least set of files that
would refute it (WFMin on sets ordered by inclusion).

`FileProofs`, for `UiInstance`, from EnsureInvariant: `LockInv` (the lock is a
service's from its taking to its exit, a command's while it probes) gives
SpecFilesStay, for whoever touches the socket or `ui.json` of a service that answers
would need its lock. SpecEnsureFindsOne needs two more parts. `AskedInv`: without a
mishap a service that stops was asked to. `WaitInv`: while nothing excuses an Ensure
that waits in vain, some command still probes for the lock of a service that was
asked, and whoever waits has a service that is sound or a command that will start
one. The step that needs all three is a service that finds the lock taken and exits:
the holder is a probing command, a service whose stop somebody waits for, or a sound
one. The theorems are about `UiInstanceSpec`, the service without the hub, whose
sessions come and go as they like.

`FileProofs`, for `UiHub` (`UiHubSpec`, the hub from its start, for any finite set of
sessions): HubTypeCorrect; SpecOneRelay, since only a refresh that finds no entry makes
a follower, one whose session vanished is cancelled in the same section, and a follower
that ends takes away no entry but its own; and SpecListGoesForward from `ListInv`:
refreshes have their turns, and, unless a refresh missed the session, what is listed as
ended is over, and so is what a refresh at work did not find or heard was over, while
what it heard was running is not yet listed as ended. Two followers of a session at a
time are a bound of the model.

`ProxyProofs`, from ProxyInvariant about `ProxySpec`, a proxy from its start, while the
run begins in its situations: `TrackedInv` (past the CONNECT answer a handler's open sockets
are tracked, so Close's snapshot has them, and no tunnel begins to run after it),
`WgInv` (the WaitGroup counts the copies and inner servers that run, a sum over sets
of connections) and `WayInv` (a request's transport has its own key and shape, a
pooled connection its transport's hello, and a tracked shape stays tracked).
SpecOwnWayOut and SpecCloseIsFinal follow; the latter's action part is that a closed
port yields nothing.

`RequestProofs`, from RequestInvariant, which has two halves. `HandlerInv` says of each
handler what its place in the code implies (`EntryOK`): its types, what it captured,
what its taps may have spilled, what its record says and what of the answer went
through `ShownAs`. SpecNoSecretAtRest, SpecRecordsTellTheEnd and
SpecAnswerNamesWhatWasAsked follow, the last with lemmas about `ReverseOf` and the ways
back. `WireInv` is about the order: a queue holds, sorted, the heads
not yet handled and those the server answered itself (`QueuedInv`), a client that
keeps within the queue has all of them there up to where the recorder stopped
(`NoGap`, by counting: a full queue of distinct requests leaves no room for one more), so
a pop gives the request's own order (`OrderInv`), and an upstream connection has an
order only for the request that holds it (`ConnInv`). SpecLaidAsSent follows.

SpecGatewayGetsItsOwn says what is on the wire for every list of headers a client may
send. Its invariant, `OutInv`, is that the headers of a request that has left are those
the Rewrite hook makes of what came and of the captured posture; `OneLaid`, that a head
is laid out in one request's order. The rest is about the operators. OutgoingOwn: among
the headers the hook makes, the posture's credential is the only one, with one value.
GoHeadGives: net/http then writes it as one line, for its name has one place in
`GoOrder`. ReorderGives: the client's layout neither doubles nor drops it, because each
line net/http wrote is the partner of at most one of the client's (OccurrenceOnce) or
else is added, and places are listed each once (InPlaceFacts, where the place of a pair
is how many pairs come before it). Of its constants it assumes that `GoOrder` has every
name once and the two credentials' among them (`HeadersAssumption`), that a posture's
credential is in one of those two headers or in none, as preflight makes it
(`ExchangeAssumption`), and that a head's lines have a name, a casing and a value.

`LaunchProofs`, from LaunchInvariant: `CAInv` (whoever is inside EnsureCA has the lock
and finds the files as it left them) gives SpecRootsAgree; `OrderInv` and `HeightInv`
(the rollback stack is the first cleanups in their order, as many as the step says),
`DirInv`, `StaleInv` (what a sweep found stale stays so or was misread, since a process that
ended does not come back), `OthersInv`, `SupInv` (a session that is not yet announced has
its cleanup still on the stack, or a call that went unanswered), `EndInv` and `QueueInv`
(no more signals wait than were sent, nor is a SIGTERM due that nobody asked for)
give SpecLiveDirStays and SpecLeavesNothing, for any number of misreads and with
any call unanswered. `PostureInv`
(PostureInvariant) says that every posture is what the snapshots make of a profile;
with lemmas on the overlay of environments SpecCredentialFromItsOwner and
SpecBackAsLaunched follow for every environment, settings file and profile.
SpecNoWayAround needs `WayInv` as well: the resolution was accepted only without a
bypass, and the child's environment and settings are made of it. The lemmas say which
keys each part of the child's environment can set, and that the source Claude Code
reads first for its target is the one the check looked at. It assumes `StoresStay`: nobody
edits the SDK profiles between the check and Claude Code's reading them.

What the attempts found. Each was a place where a property or a model said more
than the code does: an answer ccwrap rejects is recorded as ccwrap's
(`forward.go:195`); a response's status may be 404 of a synthetic answer, which the
type lacked; heads of two hosts could come over one client connection, and telemetry
through a recorder; AnswerNamesWhatWasAsked claimed the results of a batch off the
Anthropic path; NoWayAround does not survive an edit of the SDK profiles; and a killed
launcher outside Linux leaves Claude Code running under a stop that succeeded. Later reading
gave three more: a launch that another's scan takes for dead loses its directory, a call
to close that is given up leaves its session unannounced, and the store of such a
session makes the directory anew.
`CertAuthority`, `Headers`, `Exchange`, `WireOrder`, `RequestPath`, `UiInstance`,
`UiHub` and `Launch` state what they assume of their constants.

`IssuesProofs`: TypeCorrect, HealthIsWorstHolds, AuthMissingTracksRouteHolds,
NativeTLSAgreesHolds and UnaliasedNamesModelsHolds from one inductive invariant,
`IInv`, their conjunction, and IssuesAgreeHolds from the last three: the list of models and its issue agree only because
the type bounds the list, whose cap is positive, so the issue never opens over an empty
list. SeverityHoldsAlways and EndedIgnoresRequestsHolds are action properties;
the first uses `IInv`.

`EventsProofs`: TypeCorrect; GaplessHolds, inductive together with the type;
OneTimerArmedHolds from `QueueInv` (`updateQueued` is set exactly while a timer is
armed, and only one is); NoChangeForgottenHolds, inductive relative to
`QueueInv`: a request that finds `updateQueued` set leaves its change to a timer
that must really be there. EndBeforeStopHolds is about both closers and a stop at any
time; its invariant says that one closer was the first and is done when the end has been
sent, and which one when the stop came "second" (`EndInv`), and that every open stream
has session_closed in its channel or was opened later (`HearInv`).

`ProfilesProofs`: lemmas that each edit makes a file (ResultIsFile) and, unless
refused, one that passes Validate (ResultIsValid); then TypeCorrect,
LaunchResolvesHolds and NothingLeftBehindHolds, together CrashSafeHolds, from `IInv`: the lock's holder is
exactly the actor between load and unlock, so what it loaded is the file as it
still is, and what it writes is what its edit makes of that file. AtomicFileHolds
is the refinement `Spec => AtomicFile`: the rename (or link) maps to Perform, a
peek or a load that refuses to Refuse, errors to Fail, a death to Die, all else to
a stutter.

Model-checked only: liveness, since the prover has no ENABLED: SwitchReturns,
EndedAfterExit, ShredReturns, StreamsAreServed, EditsAnswered, CloseReturns,
AllIsFreed, IdleExits and LaunchEnds, and of SessionsAreFollowed and ListConverges
what is not OneRelay, UiHubTypeOK or ListGoesForward. Every invariant and every action
property of the passing runs is proved, some under the hypotheses named above
(`~EarlyCalls`, `InOrder`, `StoresStay`).

## Plan

The modules of the first plan are done; the order was Session, Issues, BodyStore,
Events, profiles, proxy connections with hello stacks, the ui service, requests,
launches. What is left:

1. A composition of Session's close with Events: the order of announcement and
   stop, for either first closer.
2. A composition of applyModelDefault's save with Session's switch.
3. The leaf cache of the certificate authority, and files edited by hand in
   `ProfilesWriters`.

## Not modelled

Rendering (dashboard, pages, doctor), the TLS handshake and fingerprints, network
and operating-system input and output (egress dialling, the parsers of socket
tables, update download, terminal launch), one-shot tools (profile test, capture
export), pure readers (projects) and the best-effort memory of unaliased models.
They keep no protocol state of their own; `PROJECT.json` gives the reason for each.
