------------------------------ MODULE Settings ------------------------------
(***************************************************************************)
(* Claude Code's settings files as ccwrap reads them at a launch: which of *)
(* them count, what each says of the environment, and how the ones that    *)
(* say it of the same key are layered.                                     *)
(*                                                                         *)
(* Source: internal/settings/settings.go, internal/envpolicy/policy.go.    *)
(* Of each class of environment keys a few stand for the rest.  An         *)
(* environment is a function of the keys that are set; the files are a     *)
(* function of the sources that exist to                                   *)
(* [broken, bad, env, helper, shell, overrides, aliases, headers, model].  *)
(***************************************************************************)
EXTENDS Naturals, Sequences, FiniteSets, FiniteSetsExt, TLC

ProxyKeys == {"HTTPS_PROXY", "ALL_PROXY"}
TrustKeys == {"NODE_EXTRA_CA_CERTS"}
NetworkKeys == ProxyKeys \union TrustKeys
CredentialKeys ==
  {"ANTHROPIC_API_KEY", "ANTHROPIC_AUTH_TOKEN", "CLAUDE_CODE_OAUTH_TOKEN"}
RoutingAuthKeys == CredentialKeys \union {"ANTHROPIC_BASE_URL"}
SelectionKeys == {"CLAUDE_CODE_USE_BEDROCK"}
ControlKeys ==
  RoutingAuthKeys \union SelectionKeys \union {"CLAUDE_CODE_PROVIDER_MANAGED_BY_HOST"}
ModelKeys == {"ANTHROPIC_MODEL"}
UnsupportedKeys == {"ANTHROPIC_UNIX_SOCKET"}
UpstreamKeys == {"CCWRAP_UPSTREAM_API_KEY", "CCWRAP_UPSTREAM_AUTH_TOKEN"}
InternalKeys == UpstreamKeys \union {"CCWRAP_UPSTREAM"}

\* What a child does not inherit, and what generated settings leave out.
ScrubKeys == ControlKeys \union UnsupportedKeys \union NetworkKeys \union InternalKeys
StripKeys == ScrubKeys \union ModelKeys

Selectable == {"user", "project", "local"}
Policies == {"remote", "managed"}
TrustedOrder == <<"global", "user", "flag", "remote", "managed">>
AppliedOrder == <<"global", "user", "project", "local", "remote", "managed">>
ProxyOrder == <<"global", "user", "project", "local", "flag">>
ModelOrder == <<"user", "project", "local", "flag", "remote", "managed">>

NoEnv == [k \in {} |-> ""]
Picked(env, keys) == [k \in DOMAIN env \intersect keys |-> env[k]]
Without(env, keys) == [k \in DOMAIN env \ keys |-> env[k]]
At(env, k) == IF k \in DOMAIN env THEN env[k] ELSE ""

\* What upper says, and of the other keys what lower says.
Atop(upper, lower) ==
  [k \in DOMAIN upper \union DOMAIN lower |-> IF k \in DOMAIN upper THEN upper[k] ELSE lower[k]]

(* The command line: [settings, sources, model], the --settings documents    *)
(* and the --setting-sources lists in their order, and the --model, if any.   *)

Allowed(args) == IF args.sources = <<>> THEN Selectable ELSE Head(args.sources)

\* flag settings are the one --settings document.
ActiveSources(files, args) ==
  (DOMAIN files \ (Selectable \ Allowed(args)))
  \union (IF args.settings = <<>> THEN {} ELSE {"flag"})

Docs(files, args) ==
  [s \in ActiveSources(files, args) |->
     IF s = "flag" THEN args.settings[1] ELSE files[s]]

\* ParseClaudeSettingsFlags and InspectLaunch answer no error.
Inspectable(files, args) ==
  /\ Len(args.settings) <= 1
  /\ Allowed(args) \subseteq Selectable
  /\ \A s \in ActiveSources(files, args) : ~Docs(files, args)[s].broken

(* What an inspection finds.  A document whose env is malformed says nothing  *)
(* else: every launch refuses it.                                             *)

Naming(docs, keys) == {s \in DOMAIN docs : DOMAIN docs[s].env \intersect keys # {}}

Malformed(docs) == {s \in DOMAIN docs : docs[s].bad}
PolicyNetwork(docs) == Naming(docs, NetworkKeys) \intersect Policies
Unsupported(docs) == Naming(docs, UnsupportedKeys)
Helpers(docs) == {s \in DOMAIN docs : docs[s].helper}
ShellSettings(docs) == {s \in DOMAIN docs : docs[s].shell}
AuthHeaders(env) == At(env, "ANTHROPIC_CUSTOM_HEADERS") = "auth-like"
CustomAuth(docs) == {s \in DOMAIN docs : AuthHeaders(docs[s].env)}
VisibleOverrides(docs) == {s \in DOMAIN docs \ {"flag"} : docs[s].overrides # NoEnv \/ docs[s].aliases # NoEnv}

(* Layers. *)

Setting(docs, order, k) ==
  {i \in DOMAIN order : order[i] \in DOMAIN docs /\ k \in DOMAIN docs[order[i]].env}

\* env under what the sources of order say of keys, a later source winning.
Layered(env, docs, order, keys) ==
  LET named == {k \in keys : Setting(docs, order, k) # {}}
  IN Atop([k \in named |-> docs[order[Max(Setting(docs, order, k))]].env[k]], env)

EffectiveProxyEnv(env, docs) == Layered(env, docs, ProxyOrder, ProxyKeys)

\* Project and local settings are not trusted with the provider.
EffectiveProviderEnv(env, docs) == Layered(env, docs, TrustedOrder, RoutingAuthKeys)

EffectiveModelEnv(env, docs) ==
  Layered(Picked(env, ModelKeys), docs, TrustedOrder, ModelKeys)

\* What Claude Code sees of keys before it trusts the folder.
TrustedEnv(env, docs, keys) == Layered(Picked(env, keys), docs, TrustedOrder, keys)

\* What Claude Code takes of keys from its own files; the generated settings
\* stand in the place of the flag's.
ClaudeAppliedEnv(docs, keys) == Layered(NoEnv, docs, AppliedOrder, keys)

\* The "model" setting that wins, if any.
ClaudeModelSetting(docs) ==
  LET named == {i \in DOMAIN ModelOrder :
                  ModelOrder[i] \in DOMAIN docs /\ docs[ModelOrder[i]].model # ""}
  IN IF named = {} THEN "" ELSE docs[ModelOrder[Max(named)]].model

(* The settings ccwrap generates for Claude Code from the flag's.             *)

NoDoc == [broken |-> FALSE, bad |-> FALSE, env |-> NoEnv, helper |-> FALSE,
          shell |-> FALSE, overrides |-> NoEnv, aliases |-> NoEnv, headers |-> NoEnv,
          model |-> ""]

\* What every settings file has a say on.
IsDoc(d) == d = [f \in DOMAIN NoDoc |-> d[f]]

FlagDoc(docs) == IF "flag" \in DOMAIN docs THEN docs["flag"] ELSE NoDoc

MergeUserSettings(doc, injected) ==
  [doc EXCEPT !.overrides = NoEnv, !.aliases = NoEnv, !.headers = NoEnv,
              !.env = Atop(injected, Without(@, StripKeys))]
=============================================================================
