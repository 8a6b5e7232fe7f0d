----------------------------- MODULE MCRequest -----------------------------
(* Instances of RequestPath for TLC: situations instead of their product. *)
EXTENDS RequestPath, TLC

VARIABLE case  \* the situation

MCClientOf == (1 :> "c1") @@ (2 :> "c1") @@ (3 :> "c1") @@ (4 :> "c2") @@ (5 :> "c2")

MCModels == {"claude-a", "claude-b", "gpt", "glm", "us.anthropic.x"}
MCClaude == {"claude-a", "claude-b"}
MCSpecific == {"us.anthropic.x"}
MCKin == {<<"a", "claude-a">>, <<"b", "claude-b">>}
MCGoOrder == <<"Accept-Encoding", "Anthropic-Beta", "Authorization", "Cookie",
               "X-Api-Key", "X-Team">>

Wrote(name, value) == [name |-> name, lower |-> TRUE, value |-> value]
Usual == <<Line("Host", "api"), Line("Connection", "keep-alive"), Wrote("User-Agent", "claude"),
           Wrote("Authorization", "placeholder"), Wrote("Anthropic-Beta", {"b"}),
           Line("Content-Length", "n"), Line("Accept-Encoding", "br")>>
Short == <<Wrote("Authorization", "placeholder"), Line("Host", "api"),
           Line("Content-Length", "n"), Line("Accept-Encoding", "br")>>
Others == <<Line("Host", "api"), Wrote("Cookie", "c1"), Wrote("Anthropic-Beta", {"b", "oauth"}),
            Wrote("Cookie", "c2"), Wrote("X-Api-Key", "old"), Line("Content-Length", "n"),
            Wrote("X-Team", "mine"), Line("Accept-Encoding", "br")>>

Body(ms) == [parses |-> TRUE, models |-> ms, system |-> {"billing", "user"}]
Post == [case |-> "order", target |-> "m", chunked |-> FALSE, oversized |-> FALSE, big |-> FALSE,
         host |-> "api", path |-> "messages", method |-> "POST", encoded |-> FALSE, json |-> TRUE,
         cut |-> FALSE, secret |-> FALSE, body |-> Body(<<"claude-a">>), lines |-> Short]

MCHeads ==
  {Post, [Post EXCEPT !.chunked = TRUE], [Post EXCEPT !.oversized = TRUE],
   [Post EXCEPT !.target = "*"]}
  \union {[Post EXCEPT !.case = "headers", !.lines = l, !.host = h] :
            l \in {Usual, Others}, h \in {"api", "oauth"}}
  \union {[Post EXCEPT !.case = "models", !.body = Body(<<m>>), !.encoded = e] :
            m \in MCModels \union {Star, NoModel}, e \in BOOLEAN}
  \union {[Post EXCEPT !.case = "models", !.method = "GET", !.path = p, !.body = Body(<<>>)] :
            p \in {"models", "bootstrap", "sync", "other"}}
  \union {[Post EXCEPT !.case = "batches", !.path = "batches", !.body = Body(ms)] :
            ms \in {<<"claude-a">>, <<"claude-b", "claude-a">>}}
  \union {[Post EXCEPT !.case = "batches", !.path = "results", !.method = "GET", !.body = Body(<<>>)]}
  \union {[Post EXCEPT !.case = "bodies", !.host = to[1], !.path = to[2], !.cut = c,
                       !.secret = TRUE, !.body.parses = j] :
            to \in {<<"api", "messages">>, <<"api", "token">>, <<"oauth", "messages">>,
                    <<"telemetry", "messages">>},
            c \in BOOLEAN, j \in BOOLEAN}
  \union {[Post EXCEPT !.case = "bodies", !.host = "telemetry", !.secret = TRUE, !.big = TRUE,
                       !.body.parses = FALSE]}
  \union {[Post EXCEPT !.case = "bodies", !.host = h, !.secret = TRUE, !.encoded = TRUE] :
            h \in {"oauth", "telemetry"}}

Auth(name) == [name |-> name, value |-> "mine", oauth |-> FALSE]
OwnTeam == [n \in {"X-Team"} |-> "ours"]
NoOwn == [n \in {} |-> "ours"]
Plain == [forward |-> NoAliases, strict |-> FALSE, passthrough |-> FALSE]
AliasA == [Plain EXCEPT !.forward = "claude-a" :> "gpt"]
Shared == [Plain EXCEPT !.forward = ("claude-a" :> "gpt") @@ (Star :> "gpt")]
Keeps == [Plain EXCEPT !.forward = ("claude-a" :> "claude-b") @@ (Star :> Star), !.strict = TRUE]
Passes == [AliasA EXCEPT !.passthrough = TRUE]

First == [case |-> "order", thirdParty |-> FALSE, missing |-> FALSE, auth |-> Auth("none"),
          own |-> NoOwn, alias |-> Plain, capture |-> FALSE, native |-> TRUE]
Third == [First EXCEPT !.case = "models", !.thirdParty = TRUE, !.auth = Auth("X-Api-Key"),
                       !.native = FALSE]

MCPostures ==
  {First, [First EXCEPT !.case = "headers"]}
  \union {[Third EXCEPT !.case = "headers", !.auth = a, !.own = o, !.native = n] :
            a \in {Auth("X-Api-Key"), [Auth("Authorization") EXCEPT !.oauth = TRUE]},
            o \in {NoOwn, OwnTeam}, n \in BOOLEAN}
  \union {[Third EXCEPT !.alias = a] : a \in {Plain, AliasA, Shared, Keeps, Passes}}
  \union {[Third EXCEPT !.auth = Auth("none"), !.missing = TRUE]}
  \union {[Third EXCEPT !.case = "batches", !.alias = a] : a \in {AliasA, Shared}}
  \union {[First EXCEPT !.case = "bodies", !.capture = TRUE, !.alias = a] : a \in {Plain, AliasA}}
  \union {[First EXCEPT !.case = "bodies"]}

Good == [case |-> "order", status |-> 200, kind |-> "json", encoding |-> "identity",
         chunks |-> <<>>, secret |-> FALSE, ends |-> "eof"]
Named == [Good EXCEPT !.case = "models", !.chunks = <<"gpt">>]
Secret == [Good EXCEPT !.case = "bodies", !.chunks = <<NoModel>>, !.secret = TRUE]
MCAnswers ==
  {Good, [Good EXCEPT !.case = "headers"]}
  \union {[Named EXCEPT !.kind = k, !.chunks = <<m>>] :
            k \in {"json", "sse", "other"}, m \in {"claude-b", "gpt"}}
  \union {[Named EXCEPT !.encoding = "gzip", !.status = 502], [Named EXCEPT !.status = 404],
          [Named EXCEPT !.ends = "broken"]}
  \union {[Good EXCEPT !.case = "batches", !.kind = "jsonl", !.chunks = <<m, n>>] :
            m \in {"gpt"}, n \in {"gpt", "claude-b"}}
  \union {[Secret EXCEPT !.status = s, !.chunks = [i \in 1..n |-> NoModel], !.ends = f] :
            s \in {200, 401}, n \in 0..2, f \in {"eof", "broken"}}
  \union {[Secret EXCEPT !.encoding = e, !.kind = k] : e \in {"gzip", "odd"}, k \in {"json", "sse"}}
  \union {[Secret EXCEPT !.status = 429], [Secret EXCEPT !.kind = "sse"]}

\* Who sends: a client that runs ahead of its queue, one that keeps within it,
\* two clients, or one request; of two kinds of heads at most in a behaviour.
Sending == CASE case = "order" -> {{1, 2, 3}, {4, 5}, {1, 4}} [] case = "batches" -> {{1, 2}} [] OTHER -> {{1}}

Fits ==
  /\ active.case = case
  /\ (\E S \in Sending : Arrived \subseteq S) /\ \A q \in Arrived : head[q].case = case
  /\ \A q \in Requests : x[q].answer # <<>> => x[q].answer.case = case
  /\ ended => active.alias = AliasA /\ case \in {"models", "bodies"}
  /\ case = "order" =>
       Cardinality({head[q] : q \in Arrived}) <= 2 /\ \A q \in Requests : ~x[q].left

\* One switch, from one set of aliases to another.
Switches == active' # active => active.alias = AliasA /\ active'.alias = Shared

MCInit == case \in {"order", "headers", "models", "batches", "bodies"} /\ Init /\ Fits
MCSpec == MCInit /\ [][Next /\ UNCHANGED case /\ Fits' /\ Switches]_<<vars, case>>
=============================================================================
