------------------------------ MODULE Headers ------------------------------
(***************************************************************************)
(* A request's headers: what ccwrap changes on their way upstream, what    *)
(* the record says of it, and the layout of the head that is sent.         *)
(*                                                                         *)
(* Sources: internal/supervisor/{forward,routeresolve,headerdiff,          *)
(* wireorder}.go and internal/upstreamheaders.  A header map is a function *)
(* from canonical names to sequences of values; a head is the sequence of  *)
(* lines [name, lower, value] on the wire.                                 *)
(***************************************************************************)
EXTENDS Naturals, FiniteSets, SequencesExt

CONSTANTS
  GoOrder   \* header names in the order net/http sorts them

ASSUME HeadersAssumption ==
  /\ GoOrder \in Seq(STRING) /\ IsInjective(GoOrder)
  /\ {"Authorization", "X-Api-Key"} \subseteq ToSet(GoOrder)

Line(name, value) == [name |-> name, lower |-> FALSE, value |-> value]

\* What applyAuthOverride strips, and the activity masks.
Credentials ==
  {"Authorization", "Proxy-Authorization", "X-Api-Key", "X-Apikey", "Api-Key",
   "X-Gateway-Key", "X-Litellm-Key", "X-Provider-Key", "X-Provider-Token", "Cookie"}

\* What net/http's reverse proxy takes out before ccwrap's hook runs.
HopByHop == {"Connection", "Keep-Alive", "Te", "Trailer", "Transfer-Encoding",
             "Upgrade", "Proxy-Connection", "Proxy-Authenticate", "Proxy-Authorization"}

Without(h, names) == [n \in DOMAIN h \ names |-> h[n]]
With(h, n, value) == [x \in DOMAIN h \union {n} |-> IF x = n THEN <<value>> ELSE h[x]]

\* How many lines of the same name s has up to i.
Occurrence(s, i) == Cardinality({j \in 1..i : s[j].name = s[i].name})

\* The map net/http reads from a head; the host is kept elsewhere.
Read(head) ==
  [n \in {head[i].name : i \in DOMAIN head} \ {"Host", "Transfer-Encoding"} |->
     LET lines == {i \in DOMAIN head : head[i].name = n}
     IN [k \in 1..Cardinality(lines) |->
           head[CHOOSE i \in lines : Occurrence(head, i) = k].value]]

\* upstreamheaders.Apply.
Apply(h, own) ==
  [n \in DOMAIN h \union DOMAIN own |-> IF n \in DOMAIN own THEN <<own[n]>> ELSE h[n]]

\* The OAuth beta is added to the tokens of the client's first value.
MergeBeta(h) ==
  LET n == "Anthropic-Beta"
  IN IF n \notin DOMAIN h THEN With(h, n, {"oauth"})
     ELSE IF "oauth" \in Head(h[n]) THEN h ELSE With(h, n, Head(h[n]) \union {"oauth"})

\* Mutant: the strip list knows only the two headers Claude Code sends.
OverrideTwo(h, auth) ==
  IF auth.name = "none" THEN h
  ELSE With(Without(h, {"Authorization", "X-Api-Key"}), auth.name, auth.value)

\* applyAuthOverride, with auth as [name, value, oauth].
Override(h, auth) ==
  IF auth.name = "none" THEN h
  ELSE LET set == With(Without(h, Credentials), auth.name, auth.value)
       IN IF auth.oauth THEN MergeBeta(set) ELSE set

\* The Rewrite hook: the headers that go upstream.  identity: the response will
\* have to be read; ours: the request goes to an Anthropic API host.
Outgoing(h, ours, identity, own, auth) ==
  LET kept == Without(h, HopByHop)
      read == IF identity THEN With(kept, "Accept-Encoding", "identity") ELSE kept
  IN IF ours THEN Override(Apply(read, own), auth) ELSE read

\* upstreamHeaderChanges.
Changes(in, out) ==
  [injected |-> DOMAIN out \ DOMAIN in,
   rewritten |-> {n \in DOMAIN in \intersect DOMAIN out : in[n] # out[n]},
   stripped |-> DOMAIN in \ DOMAIN out]

-----------------------------------------------------------------------------
(* The head on the wire. *)

LinesOf(h, n) == [i \in DOMAIN h[n] |-> Line(n, h[n][i])]

\* A set of places, pairs of numbers, as the sequence they come in.
Before(p, r) == p[1] < r[1] \/ (p[1] = r[1] /\ p[2] < r[2])
InPlace(P) ==
  [k \in 1..Cardinality(P) |-> CHOOSE p \in P : Cardinality({r \in P : Before(r, p)}) = k - 1]

\* The head net/http writes: the host, the user agent, the body's framing, and
\* the rest in order.
GoHead(h, framed) ==
  LET first == <<Line("Host", "upstream")>>
      agent == IF "User-Agent" \in DOMAIN h THEN LinesOf(h, "User-Agent") ELSE <<>>
      body == <<IF framed THEN Line("Content-Length", "n")
                ELSE Line("Transfer-Encoding", "chunked")>>
      others == {i \in DOMAIN GoOrder : GoOrder[i] \in DOMAIN h \ {"User-Agent", "Content-Length"}}
      at == InPlace(UNION {{i} \X DOMAIN h[GoOrder[i]] : i \in others})
      rest == [k \in DOMAIN at |-> LinesOf(h, GoOrder[at[k][1]])[at[k][2]]]
  IN first \o agent \o body \o rest

\* The line of final that the client's line i is: the same occurrence of its name.
Partner(order, final, i) ==
  {j \in DOMAIN final : final[j].name = order[i].name
                        /\ Occurrence(final, j) = Occurrence(order, i)}

\* A keep-alive that net/http drops as hop-by-hop comes back.
Restored(order, final, i) ==
  /\ order[i].name = "Connection" /\ order[i].value = "keep-alive"
  /\ \A j \in DOMAIN final : final[j].name # "Connection"

\* reorderRequestHead: the client's layout with net/http's values.  Headers
\* that ccwrap added take the place, and the casing, of the first it removed.
Reorder(order, final) ==
  LET removed == {i \in DOMAIN order : Partner(order, final, i) = {} /\ ~Restored(order, final, i)}
      staying == DOMAIN order \ removed
      added == {j \in DOMAIN final : \A i \in DOMAIN order : j \notin Partner(order, final, i)}
      gap == IF removed = {} THEN Len(order) + 1
             ELSE CHOOSE i \in removed : \A j \in removed : i <= j
      kept(i) == IF Partner(order, final, i) = {} THEN order[i]
                 ELSE [order[i] EXCEPT !.value =
                         final[CHOOSE j \in Partner(order, final, i) : TRUE].value]
      new(j) == [final[j] EXCEPT !.lower = @ \/ (removed # {} /\ order[gap].lower)]
      at == InPlace((staying \X {0}) \union ({gap} \X added))
  IN [k \in DOMAIN at |-> IF at[k][2] = 0 THEN kept(at[k][1]) ELSE new(at[k][2])]
=============================================================================
