------------------------------ MODULE MCLaunch ------------------------------
(* Instances of Launch for TLC: one launch among others with every way to end, *)
(* and launches in many situations that run to Claude Code and are switched.   *)
EXTENDS Launch

MCModels == {"claude-a", "claude-b", "gpt", "us.anthropic.x"}
MCClaude == {"claude-a", "claude-b"}
MCSpecific == {"us.anthropic.x"}
MCKin == {<<"a", "claude-a">>, <<"b", "claude-b">>}

File(named) == [named |-> named, snapshot |-> {}, disk |-> None]
MCOpts ==
  [upstream |-> "", egress |-> "auto", env |-> NoEnv,
   args |-> [settings |-> <<>>, sources |-> <<>>, model |-> ""],
   aliasFile |-> File(FALSE), aliasEnvFile |-> File(FALSE), aliasJSON |-> None,
   aliasPairs |-> None, headerFile |-> File(FALSE), headerEnvFile |-> File(FALSE),
   headerPairs |-> None, modelPassthrough |-> FALSE, authPassthrough |-> FALSE, profile |-> {}]

Profile(name, base, auth) ==
  [name |-> name, base |-> base, auth |-> auth, aliases |-> NoAliases, headers |-> NoAliases,
   egress |-> "inherit"]
Keyed == [mode |-> "ccwrap_bearer", key |-> "own", keyEnv |-> ""]
ByEnv == [mode |-> "ccwrap_x_api_key", key |-> "", keyEnv |-> "MY_KEY"]

Gateway == Profile("gateway", "gateway", {Keyed})
EnvGateway == Profile("env gateway", "gateway", {ByEnv})
Official == Profile("official", "anthropic", {})
Bare == Profile("bare", "gateway", {})
Aliased1 == [Gateway EXCEPT !.name = "aliased", !.aliases = "claude-a" :> "gpt",
                            !.headers = "x-team" :> "ours", !.egress = "proxy"]

NoStores == [d \in {} |-> NoEnv]
MCDisk ==
  [settings |-> [s \in {"user"} |-> NoDoc], aliases |-> {}, envAliases |-> {}, headers |-> {},
   envHeaders |-> {}, profiles |-> {Gateway, EnvGateway, Official, Bare}, stores |-> NoStores,
   timezone |-> ""]

Situation(case, o, d, requested) ==
  [case |-> case, opts |-> o, disk |-> d, requested |-> requested, tz |-> "", asks |-> FALSE,
   answer |-> "skip"]
Says(source, env) == [MCDisk EXCEPT !.settings = source :> [NoDoc EXCEPT !.env = env]]
Doc(source, doc) == [MCDisk EXCEPT !.settings = source :> doc]
WithEnv(env) == [MCOpts EXCEPT !.env = env]
WithFlag(doc) == [MCOpts EXCEPT !.args.settings = <<doc>>]
FlagEnv(env) == WithFlag([NoDoc EXCEPT !.env = env])

\* One plain launch, among others or with signals to its Claude Code.
Lifecycles ==
  {Situation("others", MCOpts, [MCDisk EXCEPT !.profiles = {Gateway}], "gateway"),
   Situation("signals", WithFlag(NoDoc), [MCDisk EXCEPT !.profiles = {Gateway}], "gateway")}

Token == "ANTHROPIC_AUTH_TOKEN" :> "ambient"
Envs == {NoEnv, Token, "MY_KEY" :> "mine", Token @@ ("ANTHROPIC_API_KEY" :> "other"),
         "CCWRAP_UPSTREAM_API_KEY" :> "upstream", "CCWRAP_UPSTREAM_AUTH_TOKEN" :> "upstream"}

\* Where a credential may come from.
Credentials ==
  {Situation("auth", WithEnv(e), MCDisk, n) :
     e \in Envs, n \in {"gateway", "env gateway", "official", "bare", "inherit-env"}}
  \union {Situation("auth", WithEnv(e), Says(s, Token), n) :
            e \in {NoEnv, "MY_KEY" :> "mine"}, s \in {"user", "project", "managed"},
            n \in {"gateway", "env gateway", "official"}}
  \union {Situation("auth", FlagEnv(Token), MCDisk, n) : n \in {"gateway", "bare"}}
  \union {Situation("auth", [MCOpts EXCEPT !.authPassthrough = TRUE], MCDisk, "bare"),
          Situation("auth", MCOpts, MCDisk, "unknown"),
          Situation("auth", [MCOpts EXCEPT !.upstream = "bad"], MCDisk, "inherit-env")}

Elsewhere == "ANTHROPIC_BASE_URL" :> "elsewhere"
Bedrock(v) == "CLAUDE_CODE_USE_BEDROCK" :> v
Home(name, counts, base) ==
  "home" :> [active |-> name, profiles |-> name :> [counts |-> counts, base |-> base]]

\* What may take Claude Code past ccwrap.
Bypasses ==
  {Situation("bypass", MCOpts, Says(s, e), n) :
     s \in {"global", "project", "local", "managed"}, e \in {Elsewhere, Bedrock("1"), Bedrock("0")},
     n \in {"official", "gateway"}}
  \union {Situation("bypass", FlagEnv(e), MCDisk, "official") : e \in {Elsewhere, Bedrock("1")}}
  \union {Situation("bypass", WithEnv(e), MCDisk, "official") : e \in {Elsewhere, Bedrock("1")}}
  \union {Situation("bypass", [MCOpts EXCEPT !.args.sources = <<l>>], Says("local", Elsewhere),
                    "official") : l \in {{"user"}, {"user", "local"}, {"odd"}}}
  \union {Situation("bypass", o, [MCDisk EXCEPT !.stores = h], "official") :
            o \in {MCOpts, WithEnv("ANTHROPIC_PROFILE" :> "p"),
                   WithEnv("ANTHROPIC_FEDERATION_RULE_ID" :> "f"),
                   WithEnv("ANTHROPIC_CONFIG_DIR" :> "dir")},
            h \in {Home("p", TRUE, "elsewhere"), Home("p", FALSE, "elsewhere"), Home("p", TRUE, "")}}

Content1(map) == {[bad |-> FALSE, map |-> map]}
Filed == [MCDisk EXCEPT !.aliases = Content1("claude-a" :> "gpt"),
                        !.headers = Content1("x-team" :> "ours"),
                        !.envAliases = Content1("claude-b" :> "gpt"),
                        !.profiles = {Gateway, Aliased1, Official}]
FileOpts == [MCOpts EXCEPT !.aliasFile.named = TRUE, !.headerFile.named = TRUE]
EnvFileOpts == [MCOpts EXCEPT !.aliasEnvFile.named = TRUE, !.headerEnvFile.named = TRUE]

\* Files that the user edits while the session runs.
Files ==
  {Situation("files", o, d, n) :
     o \in {FileOpts, EnvFileOpts, MCOpts},
     d \in {Filed, [Filed EXCEPT !.envHeaders = Content1("x-team" :> "theirs")]},
     n \in {"gateway", "aliased"}}

Rejections ==
  {Situation("refused", MCOpts, Doc("user", d), "gateway") :
     d \in {[NoDoc EXCEPT !.broken = TRUE], [NoDoc EXCEPT !.bad = TRUE],
            [NoDoc EXCEPT !.helper = TRUE], [NoDoc EXCEPT !.shell = TRUE],
            [NoDoc EXCEPT !.overrides = "claude-a" :> "gpt"],
            [NoDoc EXCEPT !.env = "ANTHROPIC_UNIX_SOCKET" :> "s"],
            [NoDoc EXCEPT !.env = "ANTHROPIC_CUSTOM_HEADERS" :> "auth-like"]}}
  \union {Situation("refused", MCOpts, Says("managed", "HTTPS_PROXY" :> "p"), "official"),
          Situation("refused", WithEnv("HTTPS_PROXY" :> "bad"), MCDisk, "official"),
          Situation("refused", WithEnv("ANTHROPIC_UNIX_SOCKET" :> "s"), MCDisk, "official"),
          Situation("refused", [MCOpts EXCEPT !.args.settings = <<NoDoc, NoDoc>>], MCDisk, "official")}

\* Models, and the time zone.
Named1(m) == [MCOpts EXCEPT !.args.model = m]
Pairs(l, m) == [bad |-> FALSE, map |-> l :> m]
Modelled ==
  {Situation("models", [Named1(m) EXCEPT !.aliasPairs = p], MCDisk, n) :
     m \in {"", "claude-a", "us.anthropic.x"}, n \in {"gateway", "official"},
     p \in {None, Pairs("claude-a", "us.anthropic.x"), Pairs("claude-a", "claude-b"),
            Pairs("claude-b", "gpt")}}
  \union {Situation("models", WithEnv("ANTHROPIC_MODEL" :> "us.anthropic.x"), MCDisk, "gateway"),
          Situation("models", [WithEnv("ANTHROPIC_MODEL" :> "us.anthropic.x")
                                 EXCEPT !.modelPassthrough = TRUE], MCDisk, "gateway")}
  \union {[Situation("models", MCOpts, [MCDisk EXCEPT !.timezone = z], "official")
             EXCEPT !.tz = t, !.asks = a, !.answer = w] :
            z \in {"", "skip"}, t \in {"", "UTC"}, a \in BOOLEAN, w \in {"LA", "nowhere"}}

MCSituations == Lifecycles \union Credentials \union Bypasses \union Files \union Rejections \union Modelled

MCEdits(d) ==
  {[d EXCEPT !.aliases = {}], [d EXCEPT !.aliases = Content1("claude-a" :> "claude-b")],
   [d EXCEPT !.headers = Content1("x-team" :> "new")], [d EXCEPT !.envAliases = {}],
   [d EXCEPT !.settings = "user" :> [NoDoc EXCEPT !.env = Token]],
   [d EXCEPT !.profiles = {[p EXCEPT !.base = IF p.name = "gateway" THEN "moved" ELSE @] : p \in d.profiles}]}

\* What a situation is for: other launches, signals, edits, or its own answer.
For(case) ==
  \E s \in Lifecycles : s.case = case /\ opts.args = s.opts.args /\ disk.profiles = s.disk.profiles
Alone == \A p \in Others : up[p] /\ dir[p] = "none"
Quiet == stop.said = "idle" /\ past.missed = {}
Fits ==
  IF For("others") THEN edits = 0 /\ relay.queued = 0 /\ Quiet /\ past.signals < 2
  ELSE IF For("signals") THEN edits = 0 /\ Alone /\ (past.sweeps = 0 \/ past.signals = 0)
  ELSE /\ Alone /\ past.signals = 0 /\ past.sweeps = 0 /\ Quiet /\ sup # "returned"
       /\ (step = "teardown" => claude = "exited")
       /\ (edits > 0 => opts.aliasFile.named \/ opts.aliasEnvFile.named \/ disk.aliases # {})

MCSpec == Init /\ [][Next /\ Fits']_vars /\ Fairness
=============================================================================
