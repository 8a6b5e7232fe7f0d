------------------------------ MODULE Aliases ------------------------------
(***************************************************************************)
(* Model aliases: which upstream model a Claude model is sent as, how a    *)
(* request's body is rewritten for it and its response written back.       *)
(*                                                                         *)
(* Source: internal/modelalias/modelalias.go.  A model id is a name of     *)
(* Models; what a name looks like is two subsets of them.  A body is the   *)
(* models it names and the system blocks it carries.                       *)
(***************************************************************************)
EXTENDS Naturals, Sequences, FiniteSets

CONSTANTS
  Models,    \* model ids, as strings
  Claude,    \* those that start with claude-
  Specific,  \* those that look provider-specific (LooksProviderSpecific)
  Kin        \* pairs of a family ("opus") and a Claude id of that family

Star == "*"          \* DefaultKey, and KeepName as a target
NoModel == "no model"

ASSUME AliasesAssumption ==
  /\ Claude \subseteq Models /\ Specific \subseteq Models
  /\ Star \notin Models /\ NoModel \notin Models
  /\ \A k \in Kin : k[2] \in Claude

\* The entries of g over those of f (merge).
Over(f, g) ==
  [x \in DOMAIN f \union DOMAIN g |-> IF x \in DOMAIN g THEN g[x] ELSE f[x]]

NoAliases == [x \in {} |-> NoModel]

(* A configuration is [forward, strict, passthrough]. *)

\* New accepts the map f.
Valid(f) ==
  /\ DOMAIN f \subseteq (Models \ Specific) \union {Star}
  /\ \A l \in DOMAIN f : f[l] \in Models \union (IF l = Star THEN {Star} ELSE {})
  /\ \A k, l \in DOMAIN f \ {Star} : f[k] = f[l] => k = l

Enabled(c) == DOMAIN c.forward # {}

\* The default's target, if there is one that renames.
Default(c) == {c.forward[l] : l \in DOMAIN c.forward \intersect {Star}} \ {Star}

KeepsNames(c) == Star \in DOMAIN c.forward /\ c.forward[Star] = Star

Explicit(c) == DOMAIN c.forward \ {Star}

(* Where a configuration comes from: sources, each [bad, map], later over    *)
(* earlier.  A file is [named, snapshot, disk]: a snapshot taken at launch,   *)
(* if there is one, is used instead of the disk.                             *)

Content(f) ==
  IF f.snapshot # {} THEN CHOOSE s \in f.snapshot : TRUE
  ELSE IF f.named THEN f.disk ELSE [bad |-> FALSE, map |-> NoAliases]

Sources(o) ==
  <<o.settings, o.overrides, o.json,
    IF o.file.named THEN Content(o.file) ELSE Content(o.envFile), o.pairs>>

Merged(srcs) ==
  LET naming(x) == {i \in DOMAIN srcs : x \in DOMAIN srcs[i].map}
      last(x) == CHOOSE i \in naming(x) : \A j \in naming(x) : j <= i
  IN [x \in UNION {DOMAIN srcs[i].map : i \in DOMAIN srcs} |-> srcs[last(x)].map[x]]

Resolves(o) ==
  /\ \A i \in DOMAIN Sources(o) : ~Sources(o)[i].bad
  /\ Valid(Merged(Sources(o)))

\* Strict yields to the passthrough of provider models.
Resolve(o) ==
  [forward |-> Merged(Sources(o)), passthrough |-> o.passthrough,
   strict |-> o.strict /\ ~o.passthrough]

(* Questions asked of a configuration. *)

Unmaps(c, m) ==
  /\ Enabled(c) /\ Default(c) = {} /\ ~KeepsNames(c)
  /\ m \in Claude /\ m \notin DOMAIN c.forward

\* m may be a family's name, which Claude Code resolves to a full id.
Covers(c, m) ==
  \/ Default(c) # {} \/ KeepsNames(c)
  \/ m \in DOMAIN c.forward
  \/ m \notin Claude /\ \E l \in DOMAIN c.forward : <<m, l>> \in Kin

LogicalForProvider(c, p) == {l \in Explicit(c) : c.forward[l] = p}

SuggestedDefault(c) ==
  LET targets == {c.forward[l] : l \in Explicit(c)}
  IN IF Cardinality(targets) = 1 THEN targets ELSE {}

\* A --model argument: its Claude name, and whether it is left as a provider's
\* name that Claude Code would refuse.
NormalizeModelID(c, m) ==
  IF LogicalForProvider(c, m) # {}
  THEN [model |-> CHOOSE l \in LogicalForProvider(c, m) : TRUE, unresolved |-> FALSE]
  ELSE [model |-> m, unresolved |-> m \in Specific /\ ~c.passthrough]

\* Some alias sends a Claude model to another upstream's (keep: the user's
\* CCWRAP_KEEP_CLAUDE_METADATA).
StripsClaudeCodeExtras(c, keep) ==
  ~keep /\ \E l \in DOMAIN c.forward :
             c.forward[l] \notin Claude /\ ~(l = Star /\ c.forward[l] = Star)

-----------------------------------------------------------------------------
(* Requests.  A request is [method, path, encoded, json, body]; a body is    *)
(* [parses, models, system], one model per item of a batch.                  *)

IsModelPath(r) == r.path \in {"messages", "count", "batches"}
IsRewriteEndpoint(r) == r.method = "POST" /\ IsModelPath(r)
IsBatchResults(r) == r.method \in {"GET", "HEAD"} /\ r.path = "results"

Target(c, m) ==
  IF m \in DOMAIN c.forward THEN {c.forward[m]}
  ELSE IF m \in Claude THEN Default(c) ELSE {}

Aliased(c, m) == m \notin {NoModel, Star} /\ Target(c, m) # {}

\* A target of KeepName is the default's alone, and nobody asks for "*".
SentAs(c, m) == IF Aliased(c, m) THEN CHOOSE t \in Target(c, m) : TRUE ELSE m

StrictRefuses(c, m) == m # NoModel /\ c.strict /\ ~Aliased(c, m) /\ m \in Specific

Changed(c, body) == \E i \in DOMAIN body.models : Aliased(c, body.models[i])

\* RewriteRequest answers an error instead of a body.
Refused(c, r) ==
  /\ IsRewriteEndpoint(r) /\ (Enabled(c) \/ c.strict)
  /\ \/ r.encoded \/ ~r.json \/ ~r.body.parses
     \/ \E i \in DOMAIN r.body.models : StrictRefuses(c, r.body.models[i])

Reads(c, r) == IsRewriteEndpoint(r) /\ ~r.encoded /\ r.json /\ r.body.parses

\* Claude Code's own system blocks go where no Claude model reads them; the
\* batch path keeps them.
StrippedSystem(c, r, keep) ==
  IF r.path # "batches" /\ ~keep /\ SentAs(c, r.body.models[1]) \notin Claude
  THEN r.body.system \ {"billing", "identity"} ELSE r.body.system

RewriteRequest(c, r, keep) ==
  IF Reads(c, r) /\ (Enabled(c) \/ c.strict) /\ Changed(c, r.body)
  THEN [r.body EXCEPT !.models = [i \in DOMAIN @ |-> SentAs(c, @[i])],
                      !.system = StrippedSystem(c, r, keep)]
  ELSE r.body

ReverseMap(c) ==
  [p \in {c.forward[l] : l \in Explicit(c)} |->
     CHOOSE l \in LogicalForProvider(c, p) : TRUE]

Only(m, n) == [x \in {m} |-> n]

\* The item whose models the context names: a batch's first rewritten one.
NotedItem(c, r) ==
  LET at == IF r.path = "batches"
            THEN {i \in DOMAIN r.body.models : Aliased(c, r.body.models[i])}
            ELSE DOMAIN r.body.models
  IN {i \in at : \A j \in at : i <= j}

\* Mutant: the default's requests read like those of an alias with its target.
ReverseShared(c, r) == ReverseMap(c)

\* A single message's own mapping wins: the default may share its target with
\* an alias.
ReverseOf(c, r) ==
  IF Reads(c, r) /\ Changed(c, r.body) /\ r.path # "batches"
  THEN Over(ReverseMap(c), Only(SentAs(c, r.body.models[1]), r.body.models[1]))
  ELSE ReverseMap(c)

\* What the response and the record need to know of the request (Context).
ContextOf(c, r) ==
  LET asked == IF Reads(c, r)
               THEN {r.body.models[i] : i \in NotedItem(c, r)} \ {NoModel} ELSE {}
      rewritten == Reads(c, r) /\ Changed(c, r.body)
  IN [rewritten |-> rewritten,
      normalize |-> rewritten \/ (Enabled(c) /\ IsBatchResults(r)),
      asked |-> asked, sent |-> {SentAs(c, m) : m \in asked},
      unmapped |-> r.path # "batches" /\ \E m \in asked : Unmaps(c, m),
      reverse |-> ReverseOf(c, r)]

(* Responses, of kinds "json", "jsonl", "sse" and "other". *)

Normalizes(ctx) == ctx.normalize /\ DOMAIN ctx.reverse # {}

\* RewriteResponse answers an error: it cannot read the upstream's encoding.
ResponseRefused(ctx, resp) == Normalizes(ctx) /\ resp.encoding # "identity"

ShownAs(ctx, kind, m) ==
  IF Normalizes(ctx) /\ kind # "other" /\ m \in DOMAIN ctx.reverse
  THEN ctx.reverse[m] ELSE m
=============================================================================
