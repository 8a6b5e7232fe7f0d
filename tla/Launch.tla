------------------------------- MODULE Launch -------------------------------
(***************************************************************************)
(* ccwrap's launch of Claude Code as a whole: the profile is selected, the *)
(* settings are inspected, the alias and header files are read once, and   *)
(* what they come to is kept for the session's switches; then the steps of *)
(* Launcher.  The user edits any of the files meanwhile.                   *)
(*                                                                         *)
(* Source: cmd/ccwrap/main.go (runClaude, composeLaunch), timezone.go,     *)
(* launcher.go, supervisor/switch.go.                                      *)
(* disk is [settings, aliases, envAliases, headers, envHeaders, profiles,  *)
(* stores, timezone]; of the four files each has at most one content.      *)
(***************************************************************************)
EXTENDS Launcher, Preflight

CONSTANTS
  Situations,  \* [opts, disk, requested, tz, asks, answer] launches start from
  Edits(_),    \* what the user may make of a disk
  MaxEdits

FileOptions == {"aliasFile", "aliasEnvFile", "headerFile", "headerEnvFile"}

IsOptions(o) ==
  /\ o = [f \in {"upstream", "egress", "env", "args", "aliasJSON", "aliasPairs", "headerPairs",
                 "modelPassthrough", "authPassthrough", "profile"} \union FileOptions |-> o[f]]
  /\ \A f \in FileOptions :
       o[f] = [named |-> o[f].named, snapshot |-> o[f].snapshot, disk |-> o[f].disk]
  /\ o.args.settings # <<>> => IsDoc(o.args.settings[1])

\* profiles.json is a map of names, each to a profile with at most one auth; the
\* settings of the flag are no file of the disk's.
IsDisk(d) ==
  /\ d = [f \in {"settings", "aliases", "envAliases", "headers", "envHeaders", "profiles",
                 "stores", "timezone"} |-> d[f]]
  /\ \A p, q \in d.profiles : p.name = q.name => p = q /\ \A a, b \in p.auth : a = b
  /\ "flag" \notin DOMAIN d.settings

ASSUME LaunchAssumption == \A s \in Situations : IsOptions(s.opts) /\ IsDisk(s.disk)

VARIABLES
  disk,       \* the user's files
  wish,       \* the situation's command line: [requested, tz, asks, answer]
  opts,       \* Options, the snapshots in it once they are taken
  docs,       \* the inspection
  pre,        \* the launch's resolution, at most one
  current,    \* the posture's
  tz,         \* the child's time zone
  child,      \* its environment
  generated,  \* its settings
  edits

launchVars == <<disk, wish, opts, docs, pre, current, tz, child, generated, edits>>
vars == <<launcherVars, caVars, launchVars>>

Init ==
  /\ LauncherInit /\ CAInit
  /\ \E s \in Situations :
       /\ disk = s.disk /\ opts = s.opts
       /\ wish = [requested |-> s.requested, tz |-> s.tz, asks |-> s.asks, answer |-> s.answer]
  /\ docs = NoEnv /\ pre = {} /\ current = {} /\ tz = "" /\ child = NoEnv /\ generated = NoDoc
  /\ edits = 0

Unopened == UNCHANGED <<stack, dir, found, sup, session, reason, argFile, claude, relay, stop, past>>

\* An error before the first step returns at once.
Returns == Goes("done") /\ up' = [up EXCEPT ![This] = FALSE] /\ Gone(This)
Continues(s) == Goes(s) /\ UNCHANGED <<up, caVars>>

(* Options at a moment: a file without a snapshot is read then.               *)

Read(files) ==
  IF files = {} THEN [bad |-> TRUE, map |-> NoAliases] ELSE CHOOSE f \in files : TRUE

AtDisk(o) ==
  [o EXCEPT !.aliasFile.disk = Read(disk.aliases), !.aliasEnvFile.disk = Read(disk.envAliases),
            !.headerFile.disk = Read(disk.headers), !.headerEnvFile.disk = Read(disk.envHeaders)]

Named(name) == {p \in disk.profiles : p.name = name}
Known(name) == name = "inherit-env" \/ Named(name) # {}

\* The first of the flag's or the environment's, the decision on the disk and
\* the answer to the question of a first run.
ResolveEffectiveTimezone(flag, persisted, answer) ==
  LET zone == FirstSet(<<flag, persisted, answer>>)
  IN IF zone \in {"", "skip", "nowhere"} THEN "" ELSE zone

AsksTimezone == wish.tz = "" /\ disk.timezone = "" /\ wish.asks

ResolveLaunchProfile ==
  /\ step = "compose"
  /\ disk' = (IF AsksTimezone THEN [disk EXCEPT !.timezone = wish.answer] ELSE disk)
  /\ tz' = ResolveEffectiveTimezone(wish.tz, disk.timezone, IF AsksTimezone THEN wish.answer ELSE "")
  /\ IF Known(wish.requested)
     THEN opts' = [opts EXCEPT !.profile = Named(wish.requested)] /\ Continues("inspect")
     ELSE UNCHANGED opts /\ Returns
  /\ UNCHANGED <<wish, docs, pre, current, child, generated, edits>> /\ Unopened

InspectLaunch ==
  /\ step = "inspect"
  /\ IF Inspectable(disk.settings, opts.args)
     THEN docs' = Docs(disk.settings, opts.args) /\ Continues("snapshot")
     ELSE UNCHANGED docs /\ Returns
  /\ UNCHANGED <<disk, wish, opts, pre, current, tz, child, generated, edits>> /\ Unopened

Readable ==
  /\ opts.aliasFile.named => disk.aliases # {}
  /\ opts.aliasEnvFile.named => disk.envAliases # {}
  /\ opts.headerFile.named => disk.headers # {}
  /\ opts.headerEnvFile.named => disk.envHeaders # {}

Snapshot(file, files) == IF file.named THEN [file EXCEPT !.snapshot = files] ELSE file

Snapshots ==
  /\ step = "snapshot"
  /\ IF Readable
     THEN /\ opts' = [opts EXCEPT !.aliasFile = Snapshot(@, disk.aliases),
                                  !.aliasEnvFile = Snapshot(@, disk.envAliases),
                                  !.headerFile = Snapshot(@, disk.headers),
                                  !.headerEnvFile = Snapshot(@, disk.envHeaders)]
          /\ Continues("resolve")
     ELSE UNCHANGED opts /\ Returns
  /\ UNCHANGED <<disk, wish, docs, pre, current, tz, child, generated, edits>> /\ Unopened

Accepted == {r \in ResolveProfile(AtDisk(opts), docs) : ~LaunchBypass(r, opts, docs, disk.stores)}

RunWithInspection ==
  /\ step = "resolve"
  /\ IF Accepted = {} THEN UNCHANGED pre /\ Returns
     ELSE pre' = Accepted /\ Continues("ResolveClaudeBin")
  /\ UNCHANGED <<disk, wish, opts, docs, current, tz, child, generated, edits>> /\ Unopened

\* The session is created with the launch's posture.
PublishesPosture ==
  /\ current' = IF session' = "open" THEN pre ELSE current
  /\ UNCHANGED <<disk, wish, opts, docs, pre, tz, child, generated, edits>>

\* The settings, and the child's environment.
WritesSessionSettings ==
  /\ WriteSessionSettings(opts.args.settings # <<>>)
  /\ generated' = MergeUserSettings(FlagDoc(docs), InjectedEnv)
  /\ child' = BuildChildEnv(opts, CHOOSE r \in pre : TRUE, tz)
  /\ UNCHANGED <<disk, wish, opts, docs, pre, current, tz, edits>>

\* Mutant: the inputs are read again.
SwitchFromDisk(name) ==
  /\ up[This] /\ sup = "serving" /\ session = "open" /\ current # {} /\ Known(name)
  /\ \E r \in ResolveProfile(AtDisk([opts EXCEPT !.profile = Named(name), !.aliasFile.snapshot = {},
                                                  !.headerFile.snapshot = {}]), docs) :
       /\ \A c \in current : ClassifyTransition(c, r) = "live"
       /\ current' = {r}
  /\ UNCHANGED <<launcherVars, caVars, disk, wish, opts, docs, pre, tz, child, generated, edits>>

\* A switch has the launch's inputs, and the profiles there are now.
SwitchProfile(name) ==
  /\ up[This] /\ sup = "serving" /\ session = "open" /\ current # {} /\ Known(name)
  /\ \E r \in ResolveProfile(AtDisk([opts EXCEPT !.profile = Named(name)]), docs) :
       /\ \A c \in current : ClassifyTransition(c, r) = "live"
       /\ current' = {r}
  /\ UNCHANGED <<launcherVars, caVars, disk, wish, opts, docs, pre, tz, child, generated, edits>>

UserEdits ==
  /\ edits < MaxEdits /\ edits' = edits + 1
  /\ disk' \in {d \in Edits(disk) : IsDisk(d)}
  /\ UNCHANGED <<launcherVars, caVars, wish, opts, docs, pre, current, tz, child, generated>>

LaunchStep ==
  \/ ResolveLaunchProfile \/ InspectLaunch \/ Snapshots \/ RunWithInspection
  \/ CreateSession /\ PublishesPosture
  \/ WritesSessionSettings
  \/ SpawnChild /\ UNCHANGED launchVars
  \/ PlainSteps /\ UNCHANGED launchVars

Next ==
  \/ LaunchStep
  \/ Environment /\ UNCHANGED launchVars
  \/ UserEdits
  \/ \E p \in disk.profiles : SwitchProfile(p.name)
  \/ SwitchProfile("inherit-env")

\* The launcher is one goroutine, the relay another with timers of its own, and
\* handleShutdown signals after a sleep.
Fairness ==
  /\ WF_vars(PlainSteps /\ UNCHANGED launchVars)
  /\ WF_vars((RelaySignal \/ GapPasses \/ GraceOver \/ HandleShutdown) /\ UNCHANGED launchVars)

Spec == Init /\ [][Next]_vars /\ Fairness

-----------------------------------------------------------------------------
(* The credential. *)

Posture == pre \union current
OwnSecrets(r) == Secret([opts EXCEPT !.profile = r.profile])

\* A profile that names a secret is sent to its upstream with that secret and
\* no other, whatever the environment and Claude Code's settings hold, at the
\* launch and after every switch (profile.go:313); and the settings of the
\* folder itself say nothing of the upstream or its credential (settings.go:222).
CredentialFromItsOwner ==
  \A r \in Posture :
    LET o == [opts EXCEPT !.profile = r.profile]
        trusted == Provider(o, Without(docs, {"project", "local"}))
    IN /\ OwnSecrets(r) # {} => {c.value : c \in r.credential} = OwnSecrets(r)
       /\ r.base = APIBase(o, trusted)
       /\ r.credential = Credential(OverlaidEnv(o), trusted)

\* A profile whose auth names a variable that is not set has no credential:
\* the session refuses requests (profile.go:199).
MissingSecretFailsClosed ==
  \A r \in Posture :
    (\E p \in r.profile : p.auth # {}) /\ OwnSecrets(r) = {} => r.credential = {}

\* A switch back to the launch's profile, while the profile is the same, is
\* back at the launch's posture: nothing else that the user edited counts, and
\* what Claude Code was given at its start still fits (main.go:217).
BackAsLaunched == \A r \in current, l \in pre : r.profile = l.profile => r = l

\* What Claude Code finds of credentials and routing in its environment and in
\* the generated settings is ccwrap's placeholder, with the flag that makes it
\* use no other, or nothing: then its own credentials are what it has.
OnlyThePlaceholder ==
  LET seen == Atop(generated.env, child)
      keys == DOMAIN seen \intersect (ControlKeys \union InternalKeys)
  IN IF \E r \in pre : r.bootstrap = "placeholder"
     THEN /\ keys = {"ANTHROPIC_AUTH_TOKEN", "CLAUDE_CODE_PROVIDER_MANAGED_BY_HOST"}
          /\ seen["ANTHROPIC_AUTH_TOKEN"] = "placeholder"
     ELSE keys = {}

\* Claude Code sends its requests to the Anthropic API's name, which ccwrap
\* answers: no settings file, SDK profile or variable of those the launch
\* looked at takes it elsewhere (claude_settings_route.go:64), and of secrets
\* it has the placeholder at most (preflight.go:308).
NoWayAround ==
  claude = "running" =>
    /\ ClaudeTarget(child, Atop([s \in {"flag"} |-> generated], docs), disk.stores) = {"anthropic"}
    /\ OnlyThePlaceholder

(* What is opened and let go of. *)

\* The supervisor is stopped after its session has been closed, for whoever
\* watches it, or the monitor is at it, unless a call got no answer in its time
\* (launcher.go:157); and when ccwrap stop has seen that a session is gone,
\* Claude Code has ended, unless the supervisor returned by itself, the launcher
\* died where nothing kills Claude Code with it, or a sweep was wrong
\* (sessions.go:142).
ClosedThenStopped ==
  /\ sup = "stopped" => session \notin {"open", "closed"} \/ past.missed # {}
  /\ stop.said = "stopped" =>
       \/ claude # "running" \/ sup = "returned" \/ This \in past.misread
       \/ step = "died" /\ ~Pdeathsig

\* A launch that ends by itself leaves nothing (launcher.go:155): no settings
\* file, no Claude Code; no directory, unless the session's end was still to
\* come; and no session that has not been announced to end, if the supervisor
\* was there to take the call and answered it in its time.  What it opens it lets
\* go of in the order that allows that.
LeavesNothing ==
  /\ LauncherTypeOK /\ ClosedThenStopped
  /\ step = "done" =>
       /\ ~argFile /\ claude # "running"
       /\ dir[This] = "none" \/ Lingers
       /\ session \in {"open", "closed"} => sup = "returned" \/ past.missed # {}

\* Nobody removes the directory of a launch that uses it, however many sweeps
\* and launches run (discovery.go:178), but for a scan that took the launch for
\* dead.  A directory without a manifest is never taken, and that of an ended
\* process always, also when another process has its id.
LiveDirStays ==
  /\ up[This] /\ Contains(stack, "dir") => dir[This] # "none" \/ This \in past.misread
  /\ \A p \in Others : up[p] /\ at[p] # "outside" => dir[p] # "none" \/ p \in past.misread

\* Launches that make the first root at the same time come to one: what each
\* signs with is what the disk and the bundle have (ca.go:66).
RootsAgree ==
  /\ CATypeOK
  /\ \A p \in Launches :
       at[p] = "ready" => key = root[p] /\ cert = root[p] /\ bundle = root[p]

\* When Claude Code or the supervisor is gone the launch ends (launcher.go:520);
\* and Claude Code ends after ccwrap stop, whether it minds the signal or not
\* (launcher.go:640).
LaunchEnds ==
  /\ step = "Wait" /\ (claude = "exited" \/ sup = "returned") ~> step \in {"done", "died"}
  /\ stop.due ~> claude # "running"
=============================================================================
