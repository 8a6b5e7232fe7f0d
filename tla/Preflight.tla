----------------------------- MODULE Preflight -----------------------------
(***************************************************************************)
(* What a launch, and a switch of its session later, makes of the command  *)
(* line, the environment, Claude Code's settings and a profile: the route, *)
(* the credential, the aliases and headers, the way out, and the           *)
(* environment of the child.                                               *)
(*                                                                         *)
(* Source: internal/preflight, internal/egress/egress.go (Resolve),        *)
(* internal/upstreamheaders (Resolve).  A URL is "anthropic", "bad" or the *)
(* name of another host; "" is a value that is not set.                    *)
(* Options are [upstream, egress, env, args, aliasFile, aliasEnvFile,      *)
(* aliasJSON, aliasPairs, headerFile, headerEnvFile, headerPairs,          *)
(* modelPassthrough, authPassthrough, profile]; a profile is               *)
(* [name, base, auth, aliases, headers, egress] with at most one auth      *)
(* [mode, key, keyEnv].                                                    *)
(***************************************************************************)
EXTENDS Settings, Aliases

AmbientAuthKeys == CredentialKeys \union UpstreamKeys

FirstSet(values) ==
  LET set == SelectSeq(values, LAMBDA v : v # "") IN IF set = <<>> THEN "" ELSE Head(set)

(* The overlay of a profile. *)

Auth(o) == UNION {p.auth : p \in o.profile}

Secret(o) ==
  {IF a.key # "" THEN a.key ELSE At(o.env, a.keyEnv) : a \in Auth(o)} \ {""}

MissingAuthEnv(o) == IF Secret(o) = {} THEN {a.keyEnv : a \in Auth(o)} ELSE {}

ProfileAuthEnvKey(mode) ==
  IF mode = "ccwrap_bearer" THEN "ANTHROPIC_AUTH_TOKEN" ELSE "ANTHROPIC_API_KEY"

\* The key the profile's secret goes under, if it has one.
ProfileAuthKey(o) ==
  IF Secret(o) = {} THEN {} ELSE {ProfileAuthEnvKey(a.mode) : a \in Auth(o)}

InjectedSecret(o) == [k \in ProfileAuthKey(o) |-> CHOOSE v \in Secret(o) : TRUE]

\* Mutant: a profile's secret is a fallback.
EnvFirst(o) == Atop(o.env, InjectedSecret(o))

\* A profile with an auth owns the credential, even if its secret is missing.
OverlaidEnv(o) ==
  IF Auth(o) = {} THEN o.env ELSE Atop(InjectedSecret(o), Without(o.env, AmbientAuthKeys))

Upstream(o) == FirstSet(<<o.upstream>> \o [i \in 1..Cardinality(o.profile) |->
                           (CHOOSE p \in o.profile : TRUE).base])

OverlaidPairs(o, file, pairs, own) ==
  IF file.named \/ DOMAIN pairs.map # {} \/ pairs.bad \/ o.profile = {} THEN pairs
  ELSE [bad |-> FALSE, map |-> own]

EgressFlag(o) ==
  IF o.egress = "auto" /\ \E p \in o.profile : p.egress # "inherit"
  THEN (CHOOSE p \in o.profile : TRUE).egress ELSE o.egress

(* The route and the credential. *)

ClassifyRoute(base) == IF base = "anthropic" THEN "first_party" ELSE "third_party"

\* The environment under the settings; the profile's secret, once it is there,
\* is the only one.
Provider(o, docs) ==
  LET layered == EffectiveProviderEnv(OverlaidEnv(o), docs)
  IN IF ProfileAuthKey(o) = {} THEN layered
     ELSE Atop(InjectedSecret(o), Without(layered, CredentialKeys))

APIBase(o, provider) ==
  FirstSet(<<Upstream(o), At(o.env, "CCWRAP_UPSTREAM"), At(provider, "ANTHROPIC_BASE_URL"),
             "anthropic">>)

\* The keys whose value would be the credential, env's upstream keys first;
\* more than one is a conflict.
Found(env, provider) ==
  LET set == {k \in UpstreamKeys : At(env, k) # ""}
  IN IF "CCWRAP_UPSTREAM_API_KEY" \in set THEN {"CCWRAP_UPSTREAM_API_KEY"}
     ELSE IF set # {} THEN set
     ELSE {k \in CredentialKeys : At(provider, k) # ""}

Credential(env, provider) ==
  {[key |-> k, value |-> At(IF k \in UpstreamKeys THEN env ELSE provider, k)] :
     k \in Found(env, provider)}

HiddenAuthContract(class, passthrough, credential) ==
  IF credential # {}
  THEN IF class = "first_party" THEN [policy |-> "override", bootstrap |-> "not_needed"]
       ELSE [policy |-> "fail_closed", bootstrap |-> "placeholder"]
  ELSE IF class = "first_party" THEN [policy |-> "passthrough", bootstrap |-> "not_needed"]
  ELSE IF passthrough THEN [policy |-> "unsafe_passthrough", bootstrap |-> "not_needed"]
  ELSE [policy |-> "fail_closed", bootstrap |-> "missing"]

(* Aliases, headers, the way out. *)

None == [bad |-> FALSE, map |-> NoAliases]

AliasOptions(o, docs, third) ==
  [settings |-> [None EXCEPT !.map = FlagDoc(docs).aliases],
   overrides |-> [None EXCEPT !.map = FlagDoc(docs).overrides], json |-> o.aliasJSON,
   file |-> o.aliasFile, envFile |-> o.aliasEnvFile,
   pairs |-> OverlaidPairs(o, o.aliasFile, o.aliasPairs,
                           IF o.profile = {} THEN NoAliases ELSE (CHOOSE p \in o.profile : TRUE).aliases),
   strict |-> third, passthrough |-> o.modelPassthrough]

HeaderSources(o, docs) ==
  <<[None EXCEPT !.map = FlagDoc(docs).headers],
    IF o.headerFile.named THEN Content(o.headerFile) ELSE Content(o.headerEnvFile),
    OverlaidPairs(o, o.headerFile, o.headerPairs,
                  IF o.profile = {} THEN NoAliases ELSE (CHOOSE p \in o.profile : TRUE).headers)>>

\* Only the environment's ALL_PROXY may be odd.
ResolveEgress(o, docs) ==
  LET env == EffectiveProxyEnv(OverlaidEnv(o), docs)
      all == IF At(env, "ALL_PROXY") = "bad" THEN "" ELSE At(env, "ALL_PROXY")
  IN IF EgressFlag(o) # "auto" THEN EgressFlag(o)
     ELSE FirstSet(<<At(env, "HTTPS_PROXY"), all, "direct">>)

(* The model Claude Code starts with. *)

ModelArg(o, alias, strict) ==
  IF strict /\ o.args.model # "" THEN NormalizeModelID(alias, o.args.model)
  ELSE [model |-> o.args.model, unresolved |-> FALSE]

ModelEnv(o, docs, alias, strict) ==
  LET env == EffectiveModelEnv(OverlaidEnv(o), docs)
  IN [k \in DOMAIN env |->
        IF strict /\ env[k] # "" THEN NormalizeModelID(alias, env[k])
        ELSE [model |-> env[k], unresolved |-> FALSE]]

ClaudeMainModel(arg, env, docs) ==
  FirstSet(<<arg, At(env, "ANTHROPIC_MODEL"), ClaudeModelSetting(docs)>>)

(* The resolution.  class is that of the base, strict a third party's without *)
(* model passthrough.                                                         *)

\* What every launch refuses of the environment and the settings.
UnsupportedLaunch(env, docs) ==
  \/ \E k \in UnsupportedKeys : At(env, k) # ""
  \/ Unsupported(docs) # {} \/ Malformed(docs) # {} \/ PolicyNetwork(docs) # {}

UnsupportedAliases(options, docs, class) ==
  \/ options.strict /\ VisibleOverrides(docs) # {}
  \/ ~Resolves(options)
  \/ class = "first_party" /\ \E m \in DOMAIN Resolve(options).forward :
                                Resolve(options).forward[m] \in Specific

\* Another way for a credential to reach a gateway.
OtherCredential(o, docs, class) ==
  /\ class = "third_party" /\ ~o.authPassthrough
  /\ \/ Helpers(docs) # {} \/ ShellSettings(docs) # {} \/ CustomAuth(docs) # {}
     \/ AuthHeaders(OverlaidEnv(o))

Uncovered(class, alias, arg, env, docs) ==
  LET main == ClaudeMainModel(arg, env, docs)
  IN class # "first_party" /\ Enabled(alias) /\ main # "" /\ ~Covers(alias, main)

\* At most one result: a rejected profile has none.
ResolveProfile(o, docs) ==
  LET env == OverlaidEnv(o)
      provider == Provider(o, docs)
      base == APIBase(o, provider)
      class == ClassifyRoute(base)
      strict == class = "third_party" /\ ~o.modelPassthrough
      options == AliasOptions(o, docs, strict)
      alias == Resolve(options)
      arg == ModelArg(o, alias, strict)
      modelEnv == ModelEnv(o, docs, alias, strict)
      models == [k \in DOMAIN modelEnv |-> modelEnv[k].model]
      headers == HeaderSources(o, docs)
      credential == Credential(env, provider)
      contract == HiddenAuthContract(class, o.authPassthrough, credential)
      egress == ResolveEgress(o, docs)
      rejected ==
        \/ UnsupportedLaunch(env, docs) \/ base = "bad"
        \/ UnsupportedAliases(options, docs, class)
        \/ \E i \in DOMAIN headers : headers[i].bad
        \/ arg.unresolved \/ \E k \in DOMAIN modelEnv : modelEnv[k].unresolved
        \/ Cardinality(credential) > 1
        \/ OtherCredential(o, docs, class) \/ egress = "bad"
      compatible ==
        class = "third_party" /\ (o.modelPassthrough \/ (o.authPassthrough /\ credential = {}))
      final == IF compatible THEN "compatible" ELSE class
  IN IF rejected THEN {}
     ELSE {[profile |-> o.profile, base |-> base, class |-> final, credential |-> credential,
            policy |-> contract.policy, bootstrap |-> contract.bootstrap,
            missing |-> MissingAuthEnv(o), alias |-> alias, headers |-> Merged(headers),
            egress |-> egress, model |-> arg.model, modelEnv |-> models,
            uncovered |-> Uncovered(final, alias, arg.model, models, docs)]}

ClassifyTransition(current, candidate) ==
  IF current.bootstrap = "placeholder" /\ candidate.policy = "passthrough"
  THEN "needs_relaunch" ELSE "live"

(* Claude Code's own ways past the proxy.  A store of SDK profiles is         *)
(* [active, profiles], a profile of it [counts, base]: whether Claude Code    *)
(* can sign in with it, and its base_url.                                     *)

SelectorKeys == {"ANTHROPIC_PROFILE", "ANTHROPIC_CONFIG_DIR", "ANTHROPIC_FEDERATION_RULE_ID"}

\* ANTHROPIC_FEDERATION_RULE_ID stands for what makes a federated identity.
ActiveAnthropicProfile(env, stores) ==
  LET dir == FirstSet(<<At(env, "ANTHROPIC_CONFIG_DIR"), "home">>)
      named == At(env, "ANTHROPIC_PROFILE")
      federated == named = "" /\ At(env, "ANTHROPIC_FEDERATION_RULE_ID") # ""
      name == FirstSet(<<named, stores[dir].active, "default">>)
  IN IF federated \/ dir \notin DOMAIN stores \/ name \notin DOMAIN stores[dir].profiles THEN {}
     ELSE {p \in {stores[dir].profiles[name]} : p.counts}

LaunchAnthropicProfile(o, docs, stores) ==
  ActiveAnthropicProfile(TrustedEnv(o.env, docs, SelectorKeys), stores)

LeavesAnthropicAPI(base) == base # "" /\ ClassifyRoute(base) # "first_party"

MovesClaudeOffAnthropic(k, v) ==
  IF k = "ANTHROPIC_BASE_URL" THEN LeavesAnthropicAPI(v) ELSE v \notin {"", "0"}

ClaudeSettingsBypasses(docs) ==
  LET applied == ClaudeAppliedEnv(docs, SelectionKeys \union {"ANTHROPIC_BASE_URL"})
  IN {k \in DOMAIN applied : MovesClaudeOffAnthropic(k, applied[k])}

\* Mutant: only the settings are looked at.
SettingsBypass(pre, o, docs, stores) ==
  pre.bootstrap # "placeholder" /\ ClaudeSettingsBypasses(docs) # {}

LaunchBypass(pre, o, docs, stores) ==
  /\ pre.bootstrap # "placeholder"
  /\ \/ ClaudeSettingsBypasses(docs) # {}
     \/ \E p \in LaunchAnthropicProfile(o, docs, stores) : LeavesAnthropicAPI(p.base)

(* The child. *)

InjectedEnv ==
  [k \in {"HTTPS_PROXY", "NODE_EXTRA_CA_CERTS", "CLAUDE_CODE_GZIP_REQUEST_BODIES"} |->
     IF k \in NetworkKeys THEN "ccwrap" ELSE "0"]

ReminderKey == "CLAUDE_CODE_TOASTY_THIMBLE"

\* Claude Code's reminders are off where no Claude model reads them.
ClaudeReminderOffEnv(alias, env) ==
  [k \in IF StripsClaudeCodeExtras(alias, FALSE) /\ ReminderKey \notin DOMAIN env
         THEN {ReminderKey} ELSE {} |-> "0"]

Bootstrap(pre) ==
  [k \in IF pre.bootstrap = "placeholder"
         THEN {"ANTHROPIC_AUTH_TOKEN", "CLAUDE_CODE_PROVIDER_MANAGED_BY_HOST"} ELSE {} |->
     IF k = "ANTHROPIC_AUTH_TOKEN" THEN "placeholder" ELSE "1"]

TimezoneEnv(tz) == [k \in IF tz = "" THEN {} ELSE {"TZ"} |-> tz]

BuildChildEnv(o, pre, tz) ==
  Atop(TimezoneEnv(tz), Atop(InjectedEnv, Atop(Bootstrap(pre),
    Atop(ClaudeReminderOffEnv(pre.alias, o.env), Atop(pre.modelEnv, Without(o.env, ScrubKeys))))))

(* Claude Code itself: where its environment, its settings and its SDK        *)
(* profile send its requests.  docs are its settings, the generated ones      *)
(* among them.                                                                *)

ClaudeOrder == <<"global", "user", "project", "local", "flag", "remote", "managed">>

ClaudeTarget(child, docs, stores) ==
  LET env == Layered(child, docs, ClaudeOrder, SelectionKeys \union {"ANTHROPIC_BASE_URL"})
      signedIn == ActiveAnthropicProfile(TrustedEnv(child, docs, SelectorKeys), stores)
      base == At(env, "ANTHROPIC_BASE_URL")
  IN IF At(child, "CLAUDE_CODE_PROVIDER_MANAGED_BY_HOST") = "1" THEN {"anthropic"}
     ELSE IF \E k \in SelectionKeys : At(env, k) \notin {"", "0"} THEN {"another provider"}
     ELSE IF base # "" THEN {base}
     ELSE {IF p.base = "" THEN "anthropic" ELSE p.base : p \in signedIn}
          \union {u \in {"anthropic"} : signedIn = {}}
=============================================================================
