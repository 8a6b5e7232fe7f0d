----------------------------- MODULE IssuesProofs -----------------------------
(* Theorems about Issues for every set of models, routes, handlers and       *)
(* statuses, with their proofs.                                              *)
EXTENDS Issues, FiniteSetTheorems, TLAPS

\* openIssueLocked changes the named issue only, and only when it is closed.
LEMMA OpenFacts ==
  ASSUME NEW is \in IssueMap, NEW id \in Ids, NEW severity \in {"warn", "error"}
  PROVE  /\ Open(is, id, severity) \in IssueMap
         /\ \A j \in Ids : Open(is, id, severity)[j] =
              IF j = id /\ is[j] = "closed" THEN severity ELSE is[j]
BY DEF Open, IssueMap

\* resolveIssueLocked closes the named issues and leaves the others.
LEMMA ResolveFacts ==
  ASSUME NEW is \in IssueMap, NEW ids
  PROVE  /\ Resolve(is, ids) \in IssueMap
         /\ \A j \in Ids : Resolve(is, ids)[j] = IF j \in ids THEN "closed" ELSE is[j]
BY DEF Resolve, IssueMap

\* Whatever the issues, the projection is a health.
LEMMA WorstType == \A is : Worst(is) \in {"ok", "warn", "error"}
BY DEF Worst

\* The upstream's failures count toward one of five issues, the unaliased one
\* only for a model its route leaves unaliased.
LEMMA FailureIssueFacts ==
  ASSUME NEW rq, NEW status
  PROVE  /\ FailureIssue(rq, status) \in
              {"base_url", "unaliased_model", "credentials_rejected", "rate_limited", "requests_failing"}
         /\ FailureIssue(rq, status) = "unaliased_model" => Unaliased(rq)
BY DEF FailureIssue

\* A recorded request touches neither the key nor the native-TLS issue, opens
\* the unaliased one exactly for an unaliased model, and lowers no severity.
LEMMA NoteRequestFacts ==
  ASSUME NEW is \in IssueMap, NEW rq, NEW status \in Nat
  PROVE  /\ NoteRequest(is, rq, status) \in IssueMap
         /\ NoteRequest(is, rq, status)["auth_missing"] = is["auth_missing"]
         /\ NoteRequest(is, rq, status)["native_tls_blocked"] = is["native_tls_blocked"]
         /\ NoteRequest(is, rq, status)["unaliased_model"] # "closed"
              <=> is["unaliased_model"] # "closed" \/ Unaliased(rq)
         /\ \A id \in Ids : is[id] = "error" => NoteRequest(is, rq, status)[id] # "warn"
<1> DEFINE noted == IF Unaliased(rq) THEN Open(is, "unaliased_model", "warn") ELSE is
           failed == Open(noted, FailureIssue(rq, status), "warn")
           cleared == Resolve(noted, Disproved)
<1>1. /\ noted \in IssueMap
      /\ \A j \in Ids : noted[j] = IF j = "unaliased_model" /\ is[j] = "closed" /\ Unaliased(rq)
                                   THEN "warn" ELSE is[j]
  <2>1. "unaliased_model" \in Ids
    BY DEF Ids
  <2> QED BY <2>1, OpenFacts
<1>2. /\ failed \in IssueMap
      /\ \A j \in Ids : failed[j] = IF j = FailureIssue(rq, status) /\ noted[j] = "closed"
                                    THEN "warn" ELSE noted[j]
  <2>1. FailureIssue(rq, status) \in Ids
    BY FailureIssueFacts DEF Ids
  <2> HIDE DEF noted
  <2> QED BY <1>1, <2>1, OpenFacts
<1>3. /\ cleared \in IssueMap
      /\ \A j \in Ids : cleared[j] = IF j \in Disproved THEN "closed" ELSE noted[j]
  <2> HIDE DEF noted
  <2> QED BY <1>1, ResolveFacts
<1>4. NoteRequest(is, rq, status) \in {noted, failed, cleared}
  BY DEF NoteRequest
<1>5. /\ noted["auth_missing"] = is["auth_missing"]
      /\ noted["native_tls_blocked"] = is["native_tls_blocked"]
      /\ noted["unaliased_model"] # "closed" <=> is["unaliased_model"] # "closed" \/ Unaliased(rq)
      /\ \A id \in Ids : is[id] = "error" => noted[id] = "error"
  <2> HIDE DEF noted
  <2> QED BY <1>1 DEF Ids
<1>6. /\ failed["auth_missing"] = noted["auth_missing"]
      /\ failed["native_tls_blocked"] = noted["native_tls_blocked"]
      /\ failed["unaliased_model"] # "closed" <=> noted["unaliased_model"] # "closed" \/ Unaliased(rq)
      /\ \A id \in Ids : noted[id] = "error" => failed[id] = "error"
  <2>1. Unaliased(rq) => noted["unaliased_model"] # "closed"
    BY <1>5
  <2> HIDE DEF noted, failed
  <2> QED BY <1>2, <2>1, FailureIssueFacts DEF Ids
<1>7. /\ cleared["auth_missing"] = noted["auth_missing"]
      /\ cleared["native_tls_blocked"] = noted["native_tls_blocked"]
      /\ cleared["unaliased_model"] = noted["unaliased_model"]
      /\ \A id \in Ids : noted[id] = "error" => cleared[id] # "warn"
  <2> HIDE DEF noted, cleared
  <2> QED BY <1>3 DEF Ids, Disproved
<1> HIDE DEF noted, failed, cleared
<1> QED BY <1>1, <1>2, <1>3, <1>4, <1>5, <1>6, <1>7

\* A request's error opens neither the key nor the native-TLS issue nor the
\* unaliased one, and lowers no severity.
LEMMA NoteErrorFacts ==
  ASSUME NEW is \in IssueMap, NEW q, NEW id \in IssueForError(q)
  PROVE  /\ NoteError(is, id) \in IssueMap
         /\ \A j \in {"auth_missing", "native_tls_blocked", "unaliased_model"} : NoteError(is, id)[j] = is[j]
         /\ \A j \in Ids : is[j] = "error" => NoteError(is, id)[j] = "error"
<1>1. id \in {"native_tls_blocked", "upstream_unreachable", "requests_failing"}
  BY DEF IssueForError
<1>2. CASE id = "native_tls_blocked"
  BY <1>2 DEF NoteError
<1>3. CASE id = "requests_failing"
  BY <1>3 DEF NoteError, IssueMap, Ids
<1>4. CASE id = "upstream_unreachable"
  <2>1. NoteError(is, id) = Open(is, id, "error") /\ id \in Ids
    BY <1>4 DEF NoteError, Ids
  <2> QED BY <1>4, <2>1, OpenFacts DEF Ids
<1> QED BY <1>1, <1>2, <1>3, <1>4

-----------------------------------------------------------------------------
\* The invariants of one critical section, together: UnaliasedNamesModels needs
\* the finite list of TypeOK.
IInv == TypeOK /\ HealthIsWorst /\ AuthMissingTracksRoute /\ NativeTLSAgrees /\ UnaliasedNamesModels

\* Marking a request's step, or dropping the request, keeps the type of reqs.
LEMMA RequestTypes ==
  ASSUME TypeOK, NEW q \in Handlers
  PROVE  /\ [reqs EXCEPT ![q] = Idle] \in [Handlers -> Requests \union {Idle}]
         /\ \A pc \in {"sending", "answering", "blocked", "refused", "failed"} :
              reqs[q].pc # "idle" => [reqs EXCEPT ![q].pc = pc] \in [Handlers -> Requests \union {Idle}]
         /\ reqs[q].pc # "idle" => reqs[q] \in Requests
<1>1. [reqs EXCEPT ![q] = Idle] \in [Handlers -> Requests \union {Idle}]
  BY DEF TypeOK
<1>2. ASSUME reqs[q].pc # "idle" PROVE reqs[q] \in Requests
  BY <1>2 DEF TypeOK, Idle
<1>3. ASSUME reqs[q].pc # "idle", NEW pc \in {"sending", "answering", "blocked", "refused", "failed"}
      PROVE  [reqs EXCEPT ![q].pc = pc] \in [Handlers -> Requests \union {Idle}]
  <2>1. [reqs[q] EXCEPT !.pc = pc] \in Requests
    BY <1>2, <1>3 DEF Requests
  <2> QED BY <2>1 DEF TypeOK
<1> QED BY <1>1, <1>2, <1>3

\* The launch publish establishes the invariants.
LEMMA InitIInv == Init => IInv
<1> SUFFICES ASSUME Init PROVE IInv
  OBVIOUS
<1>1. IsFiniteSet({}) /\ Cardinality({}) = 0
  BY FS_EmptySet
<1>2. TypeOK
  <2>1. issues \in IssueMap
    BY DEF Init, IssueMap
  <2>2. Cardinality(unmapped) <= MaxUnmapped
    BY <1>1, IssuesAssumption DEF Init, IssuesAssumption
  <2>3. health \in {"ok", "warn", "error"}
    BY WorstType DEF Init
  <2> QED BY <1>1, <2>1, <2>2, <2>3 DEF Init, TypeOK
<1>3. HealthIsWorst /\ AuthMissingTracksRoute /\ NativeTLSAgrees /\ UnaliasedNamesModels
  BY DEF Init, HealthIsWorst, AuthMissingTracksRoute, NativeTLSAgrees, UnaliasedNamesModels, Opened, Ids
<1> QED BY <1>2, <1>3 DEF IInv

\* A step that leaves the route, the models, the cell and the lifecycle alone
\* keeps the invariants when it projects issues that differ in neither of the
\* three that depend on them.
LEMMA FileIssues ==
  ASSUME IInv, issues' \in IssueMap, reqs' \in [Handlers -> Requests \union {Idle}],
         UNCHANGED <<active, named, unmapped, tls, ended>>,
         health' = Worst(issues'),
         \A id \in {"auth_missing", "native_tls_blocked", "unaliased_model"} : issues'[id] = issues[id]
  PROVE  IInv'
<1>1. TypeOK'
  BY WorstType DEF IInv, TypeOK
<1>2. HealthIsWorst'
  BY DEF HealthIsWorst, Worst
<1>3. AuthMissingTracksRoute' /\ NativeTLSAgrees' /\ UnaliasedNamesModels'
  BY DEF IInv, AuthMissingTracksRoute, NativeTLSAgrees, UnaliasedNamesModels, Opened
<1> QED BY <1>1, <1>2, <1>3 DEF IInv

\* recordRequest keeps the invariants: the list, its cap and the issue move
\* together.
LEMMA RecordRequestIInv ==
  ASSUME IInv, NEW q \in Handlers, RecordRequest(q)
  PROVE  IInv'
<1> DEFINE rq == reqs[q]
<1>1. rq \in Requests
  BY RequestTypes DEF IInv, RecordRequest
<1>2. PICK status \in Nat : issues' = IF ended THEN issues ELSE NoteRequest(issues, rq, status)
  BY IssuesAssumption DEF RecordRequest, IssuesAssumption
<1>3. issues' \in IssueMap
  BY <1>2, NoteRequestFacts DEF IInv, TypeOK
<1>4. /\ issues'["auth_missing"] = issues["auth_missing"]
      /\ issues'["native_tls_blocked"] = issues["native_tls_blocked"]
  BY <1>2, NoteRequestFacts DEF IInv, TypeOK
<1>5. ~ended => (Opened("unaliased_model")' <=> Opened("unaliased_model") \/ Unaliased(rq))
  BY <1>2, NoteRequestFacts DEF IInv, TypeOK, Opened
<1>6. /\ unmapped' \subseteq Models /\ IsFiniteSet(unmapped') /\ Cardinality(unmapped') <= MaxUnmapped
      /\ Unaliased(rq) => unmapped' # {}
      /\ ~Unaliased(rq) => unmapped' = unmapped
  <2>1. rq.model \in Models
    BY <1>1 DEF Requests
  <2>2. Cardinality(unmapped) \in Nat /\ (Cardinality(unmapped) = 0 <=> unmapped = {})
    BY FS_CardinalityType, FS_EmptySet DEF IInv, TypeOK
  <2>3. /\ IsFiniteSet(unmapped \union {rq.model})
        /\ Cardinality(unmapped \union {rq.model}) <= Cardinality(unmapped) + 1
    <3>1. IsFiniteSet(unmapped)
      BY DEF IInv, TypeOK
    <3>2. /\ IsFiniteSet(unmapped \union {rq.model})
          /\ Cardinality(unmapped \union {rq.model}) =
               IF rq.model \in unmapped THEN Cardinality(unmapped) ELSE Cardinality(unmapped) + 1
      BY <3>1, FS_AddElement
    <3> QED BY <2>2, <3>2
  <2>4. unmapped' = IF Unaliased(rq) /\ Cardinality(unmapped) < MaxUnmapped
                    THEN unmapped \union {rq.model} ELSE unmapped
    BY DEF RecordRequest
  <2>5. MaxUnmapped \in Nat \ {0}
    BY IssuesAssumption DEF IssuesAssumption
  <2>6. unmapped \subseteq Models /\ IsFiniteSet(unmapped) /\ Cardinality(unmapped) <= MaxUnmapped
    BY DEF IInv, TypeOK
  <2>7. CASE Unaliased(rq) /\ Cardinality(unmapped) < MaxUnmapped
    <3>1. unmapped' = unmapped \union {rq.model}
      BY <2>4, <2>7
    <3>2. Cardinality(unmapped') <= MaxUnmapped
      <4>1. Cardinality(unmapped') \in Nat
        BY <2>3, <3>1, FS_CardinalityType
      <4> QED BY <2>2, <2>3, <2>5, <2>7, <3>1, <4>1
    <3> QED BY <2>1, <2>3, <2>6, <2>7, <3>1, <3>2
  <2>8. CASE ~(Unaliased(rq) /\ Cardinality(unmapped) < MaxUnmapped)
    <3>1. unmapped' = unmapped
      BY <2>4, <2>8
    <3>2. Unaliased(rq) => Cardinality(unmapped) # 0
      BY <2>2, <2>5, <2>8
    <3> QED BY <2>2, <2>6, <3>1, <3>2
  <2> QED BY <2>7, <2>8
<1>7. named' = IF Unaliased(rq) /\ ~ended THEN unmapped' ELSE named
  BY DEF RecordRequest
<1>8. UNCHANGED <<active, tls, ended>> /\ health' = Worst(issues')
  BY <1>2 DEF RecordRequest, Project, IInv, HealthIsWorst
<1>9. TypeOK'
  <2>1. reqs' \in [Handlers -> Requests \union {Idle}]
    BY RequestTypes DEF IInv, RecordRequest
  <2>2. named' \subseteq Models
    BY <1>6, <1>7 DEF IInv, TypeOK
  <2> QED BY <1>3, <1>6, <1>8, <2>1, <2>2, WorstType DEF IInv, TypeOK
<1>10. HealthIsWorst'
  BY <1>8 DEF HealthIsWorst, Worst
<1>11. AuthMissingTracksRoute' /\ NativeTLSAgrees'
  BY <1>4, <1>8 DEF IInv, AuthMissingTracksRoute, NativeTLSAgrees, Opened
<1>12. UnaliasedNamesModels'
  <2> HIDE DEF rq
  <2> QED BY <1>5, <1>6, <1>7, <1>8 DEF IInv, UnaliasedNamesModels, Opened
<1> QED BY <1>9, <1>10, <1>11, <1>12 DEF IInv

\* A published route keeps the invariants: the key issue follows the route, the
\* unaliased one what is left of the list.
LEMMA SwitchIInv ==
  ASSUME IInv, NEW r \in Routes, Switch(r)
  PROVE  IInv'
<1> DEFINE settled == Resolve(issues, SettledBy(active, r))
<1>1. /\ settled \in IssueMap
      /\ \A j \in Ids : settled[j] = IF j \in SettledBy(active, r) THEN "closed" ELSE issues[j]
  BY ResolveFacts DEF IInv, TypeOK
<1>2. /\ issues' \in IssueMap
      /\ \A j \in Ids : issues'[j] =
           IF j = "auth_missing" /\ r.missing /\ settled[j] = "closed" THEN "warn" ELSE settled[j]
  <2>1. "auth_missing" \in Ids /\ r.missing \in BOOLEAN
    BY IssuesAssumption DEF Ids, IssuesAssumption
  <2>2. issues' = IF r.missing THEN Open(settled, "auth_missing", "warn") ELSE settled
    BY DEF Switch
  <2> HIDE DEF settled
  <2>3. CASE r.missing
    BY <1>1, <2>1, <2>2, <2>3, OpenFacts
  <2>4. CASE ~r.missing
    BY <1>1, <2>2, <2>4
  <2> QED BY <2>3, <2>4
<1>3. /\ active' = r
      /\ unmapped' = unmapped \intersect r.unmaps
      /\ named' = IF issues'["unaliased_model"] # "closed" THEN unmapped' ELSE named
      /\ health' = Worst(issues')
      /\ UNCHANGED <<tls, ended, reqs>>
  BY DEF Switch, Project
<1>4. TypeOK'
  <2>1. unmapped' \subseteq Models /\ IsFiniteSet(unmapped') /\ Cardinality(unmapped') <= MaxUnmapped
    <3>1. /\ IsFiniteSet(unmapped) /\ unmapped \subseteq Models /\ Cardinality(unmapped) <= MaxUnmapped
      BY DEF IInv, TypeOK
    <3>2. /\ IsFiniteSet(unmapped \intersect r.unmaps)
          /\ Cardinality(unmapped \intersect r.unmaps) <= Cardinality(unmapped)
      BY <3>1, FS_Intersection
    <3>3. Cardinality(unmapped) \in Nat /\ Cardinality(unmapped \intersect r.unmaps) \in Nat
      BY <3>1, <3>2, FS_CardinalityType
    <3>4. MaxUnmapped \in Nat
      BY IssuesAssumption DEF IssuesAssumption
    <3> QED BY <1>3, <3>1, <3>2, <3>3, <3>4
  <2>2. named' \subseteq Models
    BY <1>3, <2>1 DEF IInv, TypeOK
  <2>3. health' \in {"ok", "warn", "error"}
    BY <1>3, WorstType
  <2> QED BY <1>2, <1>3, <2>1, <2>2, <2>3 DEF IInv, TypeOK
<1>5. HealthIsWorst'
  BY <1>3 DEF HealthIsWorst, Worst
<1>6. AuthMissingTracksRoute'
  <2>1. settled["auth_missing"] = IF r.missing THEN issues["auth_missing"] ELSE "closed"
    <3>1. "auth_missing" \in SettledBy(active, r) <=> ~r.missing
      BY DEF SettledBy, Ids
    <3> QED BY <1>1, <3>1 DEF Ids
  <2>2. issues'["auth_missing"] # "closed" <=> r.missing
    BY <1>2, <2>1 DEF Ids
  <2> QED BY <1>3, <2>2 DEF AuthMissingTracksRoute, Opened
<1>7. NativeTLSAgrees'
  <2>1. "native_tls_blocked" \notin SettledBy(active, r)
    BY DEF SettledBy
  <2>2. issues'["native_tls_blocked"] = issues["native_tls_blocked"]
    BY <1>1, <1>2, <2>1 DEF Ids
  <2> QED BY <1>3, <2>2 DEF IInv, NativeTLSAgrees, Opened
<1>8. UnaliasedNamesModels'
  <2>1. "unaliased_model" \in SettledBy(active, r) <=> unmapped' = {}
    BY <1>3 DEF SettledBy, Ids
  <2>2. issues'["unaliased_model"] = IF unmapped' = {} THEN "closed" ELSE issues["unaliased_model"]
    BY <1>1, <1>2, <2>1 DEF Ids
  <2> QED BY <1>3, <2>2 DEF IInv, UnaliasedNamesModels, Opened
<1> QED BY <1>4, <1>5, <1>6, <1>7, <1>8 DEF IInv

\* Each step of a request keeps the invariants.
LEMMA RequestStepIInv ==
  ASSUME IInv, NEW q \in Handlers, RequestStep(q)
  PROVE  IInv'
<1>0. issues \in IssueMap /\ health = Worst(issues)
  BY DEF IInv, TypeOK, HealthIsWorst
<1>1. ASSUME NEW kind \in Kinds, NEW m \in Models, RequestArrive(q, kind, m) PROVE IInv'
  <2>1. reqs' \in [Handlers -> Requests \union {Idle}]
    <3> DEFINE rq == [pc |-> IF active.missing /\ kind # "plain" THEN "refused" ELSE "sending",
                      route |-> active, kind |-> kind, model |-> m]
    <3>1. rq \in Requests
      BY DEF Requests, IInv, TypeOK
    <3>2. reqs' = [reqs EXCEPT ![q] = rq]
      BY <1>1 DEF RequestArrive
    <3> HIDE DEF rq
    <3> QED BY <3>1, <3>2 DEF IInv, TypeOK
  <2>2. UNCHANGED <<active, issues, named, unmapped, health, tls, ended>>
    BY <1>1 DEF RequestArrive
  <2> QED BY <1>0, <2>1, <2>2, FileIssues
<1>2. CASE RecordRefusal(q)
  <2>1. reqs' \in [Handlers -> Requests \union {Idle}]
    BY <1>2, RequestTypes DEF IInv, RecordRefusal
  <2>2. UNCHANGED <<active, issues, named, unmapped, health, tls, ended>>
    BY <1>2 DEF RecordRefusal
  <2> QED BY <1>0, <2>1, <2>2, FileIssues
<1>3. ASSUME NEW mirrored \in BOOLEAN, NativeDial(q, mirrored) PROVE IInv'
  <2>1. reqs' \in [Handlers -> Requests \union {Idle}]
    BY <1>3, RequestTypes DEF IInv, NativeDial
  <2>2. /\ issues' \in IssueMap
        /\ \A j \in Ids \ {"native_tls_blocked"} : issues'[j] = issues[j]
        /\ ended => issues' = issues
        /\ ~ended => (issues'["native_tls_blocked"] # "closed" <=> ~mirrored)
    <3>1. "native_tls_blocked" \in Ids
      BY DEF Ids
    <3>2. CASE ended
      BY <1>0, <1>3, <3>2 DEF NativeDial
    <3>3. CASE ~ended /\ mirrored
      <4>1. issues' = Resolve(issues, {"native_tls_blocked"})
        BY <1>3, <3>3 DEF NativeDial
      <4> QED BY <1>0, <3>1, <3>3, <4>1, ResolveFacts
    <3>4. CASE ~ended /\ ~mirrored
      <4>1. issues' = Open(issues, "native_tls_blocked", "error")
        BY <1>3, <3>4 DEF NativeDial
      <4> QED BY <1>0, <3>1, <3>4, <4>1, OpenFacts
    <3> QED BY <3>2, <3>3, <3>4 DEF IInv, TypeOK
  <2>3. /\ UNCHANGED <<active, named, unmapped, ended>>
        /\ tls' = IF mirrored THEN "active" ELSE "blocked"
        /\ health' = Worst(issues')
    BY <1>0, <1>3, <2>2 DEF NativeDial, Project
  <2>4. TypeOK' /\ HealthIsWorst'
    BY <2>1, <2>2, <2>3, WorstType DEF IInv, TypeOK, HealthIsWorst, Worst
  <2>5. AuthMissingTracksRoute' /\ UnaliasedNamesModels'
    BY <2>2, <2>3 DEF IInv, AuthMissingTracksRoute, UnaliasedNamesModels, Opened, Ids
  <2>6. NativeTLSAgrees'
    BY <2>2, <2>3 DEF NativeTLSAgrees, Opened
  <2> QED BY <2>4, <2>5, <2>6 DEF IInv
<1>4. CASE RewriteFails(q)
  <2>1. reqs' \in [Handlers -> Requests \union {Idle}]
    BY <1>4, RequestTypes DEF IInv, RewriteFails
  <2>2. /\ issues' \in IssueMap
        /\ \A id \in {"auth_missing", "native_tls_blocked", "unaliased_model"} : issues'[id] = issues[id]
    BY <1>0, <1>4 DEF RewriteFails, IssueMap, Ids
  <2>3. UNCHANGED <<active, named, unmapped, tls, ended>> /\ health' = Worst(issues')
    BY <1>0, <1>4 DEF RewriteFails, Project
  <2> QED BY <2>1, <2>2, <2>3, FileIssues
<1>5. CASE RecordError(q)
  <2>1. PICK id \in IssueForError(q) :
          /\ issues' = IF ended THEN issues ELSE NoteError(issues, id)
          /\ IF ended THEN UNCHANGED health ELSE Project
          /\ reqs' = [reqs EXCEPT ![q].pc = "failed"]
          /\ UNCHANGED <<active, named, unmapped, tls, ended>>
    BY <1>5 DEF RecordError
  <2>2. reqs[q].pc # "idle"
    BY <2>1 DEF IssueForError
  <2>3. reqs' \in [Handlers -> Requests \union {Idle}]
    BY <2>1, <2>2, RequestTypes DEF IInv
  <2>4. /\ issues' \in IssueMap
        /\ \A j \in {"auth_missing", "native_tls_blocked", "unaliased_model"} : issues'[j] = issues[j]
    BY <1>0, <2>1, NoteErrorFacts
  <2>5. UNCHANGED <<active, named, unmapped, tls, ended>> /\ health' = Worst(issues')
    BY <1>0, <2>1 DEF Project
  <2> QED BY <2>3, <2>4, <2>5, FileIssues
<1>6. CASE RecordRequest(q)
  BY <1>6, RecordRequestIInv
<1> QED BY <1>1, <1>2, <1>3, <1>4, <1>5, <1>6 DEF RequestStep

\* Every step keeps the invariants.
LEMMA IInvInductive == IInv /\ [Next]_vars => IInv'
<1> SUFFICES ASSUME IInv, [Next]_vars PROVE IInv'
  OBVIOUS
<1>1. ASSUME NEW q \in Handlers, RequestStep(q) PROVE IInv'
  BY <1>1, RequestStepIInv
<1>2. ASSUME NEW r \in Routes, Switch(r) PROVE IInv'
  BY <1>2, SwitchIInv
<1>3. CASE End
  BY <1>3 DEF End, IInv, TypeOK, HealthIsWorst, Worst, AuthMissingTracksRoute,
              NativeTLSAgrees, UnaliasedNamesModels, Opened
<1>4. CASE UNCHANGED vars
  BY <1>4 DEF vars, IInv, TypeOK, HealthIsWorst, Worst, AuthMissingTracksRoute,
              NativeTLSAgrees, UnaliasedNamesModels, Opened
<1> QED BY <1>1, <1>2, <1>3, <1>4 DEF Next

\* The invariants hold in every reachable state.
LEMMA IInvInvariant == Spec => []IInv
<1>1. Init => IInv
  BY InitIInv
<1>2. IInv /\ [Next]_vars => IInv'
  BY IInvInductive
<1> QED BY <1>1, <1>2, PTL DEF Spec

\* The issues, the list of models and the requests keep their types; the list
\* keeps its cap (recordRequest).
THEOREM TypeCorrect == Spec => []TypeOK
<1>1. IInv => TypeOK
  BY DEF IInv
<1> QED BY <1>1, IInvInvariant, PTL

\* Health is at every moment the worst open issue's severity, whatever requests,
\* dials, switches and the end of the session interleave.
THEOREM HealthIsWorstHolds == Spec => []HealthIsWorst
<1>1. IInv => HealthIsWorst
  BY DEF IInv
<1> QED BY <1>1, IInvInvariant, PTL

\* The missing-key issue is open exactly while the route in force lacks a key.
THEOREM AuthMissingTracksRouteHolds == Spec => []AuthMissingTracksRoute
<1>1. IInv => AuthMissingTracksRoute
  BY DEF IInv
<1> QED BY <1>1, IInvInvariant, PTL

\* The NATIVE TLS cell of a live session and its issue agree.
THEOREM NativeTLSAgreesHolds == Spec => []NativeTLSAgrees
<1>1. IInv => NativeTLSAgrees
  BY DEF IInv
<1> QED BY <1>1, IInvInvariant, PTL

\* The unaliased_model issue of a live session names exactly the listed models.
THEOREM UnaliasedNamesModelsHolds == Spec => []UnaliasedNamesModels
<1>1. IInv => UnaliasedNamesModels
  BY DEF IInv
<1> QED BY <1>1, IInvInvariant, PTL

\* The three together (notePostureLocked, recordNativeTLS, recordRequest).
THEOREM IssuesAgreeHolds == Spec => []IssuesAgree
BY AuthMissingTracksRouteHolds, NativeTLSAgreesHolds, UnaliasedNamesModelsHolds, PTL
   DEF IssuesAgree

\* No step lowers the severity of an issue that stays open.
THEOREM SeverityHoldsAlways == Spec => SeverityHolds
<1>1. IInv /\ [Next]_vars => [\A id \in Ids : issues[id] = "error" => issues'[id] # "warn"]_vars
  <2> SUFFICES ASSUME IInv, [Next]_vars, NEW id \in Ids, issues[id] = "error"
               PROVE  issues'[id] # "warn"
    BY DEF vars
  <2>0. issues \in IssueMap
    BY DEF IInv, TypeOK
  <2>1. ASSUME NEW q \in Handlers, RequestStep(q) PROVE issues'[id] # "warn"
    <3>1. CASE \/ \E kind \in Kinds, m \in Models : RequestArrive(q, kind, m)
               \/ RecordRefusal(q)
      BY <3>1 DEF RequestArrive, RecordRefusal
    <3>2. ASSUME NEW mirrored \in BOOLEAN, NativeDial(q, mirrored) PROVE issues'[id] # "warn"
      <4>1. "native_tls_blocked" \in Ids
        BY DEF Ids
      <4>2. issues' \in {issues, Resolve(issues, {"native_tls_blocked"}),
                         Open(issues, "native_tls_blocked", "error")}
        BY <3>2 DEF NativeDial
      <4>3. Resolve(issues, {"native_tls_blocked"})[id] # "warn"
        BY <2>0, ResolveFacts
      <4>4. Open(issues, "native_tls_blocked", "error")[id] # "warn"
        BY <2>0, <4>1, OpenFacts
      <4> QED BY <4>2, <4>3, <4>4
    <3>3. CASE RewriteFails(q)
      BY <2>0, <3>3 DEF RewriteFails, IssueMap
    <3>4. CASE RecordError(q)
      BY <2>0, <3>4, NoteErrorFacts DEF RecordError
    <3>5. CASE RecordRequest(q)
      <4>1. PICK status \in Nat : issues' = IF ended THEN issues ELSE NoteRequest(issues, reqs[q], status)
        BY <3>5, IssuesAssumption DEF RecordRequest, IssuesAssumption
      <4> QED BY <2>0, <4>1, NoteRequestFacts
    <3> QED BY <2>1, <3>1, <3>2, <3>3, <3>4, <3>5 DEF RequestStep
  <2>2. ASSUME NEW r \in Routes, Switch(r) PROVE issues'[id] # "warn"
    <3> DEFINE settled == Resolve(issues, SettledBy(active, r))
    <3>1. settled \in IssueMap /\ settled[id] \in {"error", "closed"}
      BY <2>0, ResolveFacts
    <3>2. CASE ~r.missing
      BY <2>2, <3>1, <3>2 DEF Switch
    <3>3. CASE r.missing
      <4>1. "auth_missing" \notin SettledBy(active, r) /\ "auth_missing" \in Ids
        BY <3>3 DEF SettledBy, Ids
      <4>2. settled["auth_missing"] = issues["auth_missing"]
        BY <2>0, <4>1, ResolveFacts
      <4>3. issues' = Open(settled, "auth_missing", "warn")
        BY <2>2, <3>3 DEF Switch
      <4>4. issues'[id] = IF id = "auth_missing" /\ settled[id] = "closed" THEN "warn" ELSE settled[id]
        BY <3>1, <4>1, <4>3, OpenFacts
      <4> QED BY <3>1, <4>2, <4>4
    <3> QED BY <3>2, <3>3
  <2>3. CASE End \/ UNCHANGED vars
    BY <2>3 DEF End, vars
  <2> QED BY <2>1, <2>2, <2>3 DEF Next
<1> QED BY <1>1, IInvInvariant, PTL DEF Spec, SeverityHolds

\* Nothing a request does after the session ended moves its issues or health.
THEOREM EndedIgnoresRequestsHolds == Spec => EndedIgnoresRequests
<1>1. [Next]_vars => [ended /\ reqs' # reqs => UNCHANGED <<issues, health, named>>]_vars
  <2> SUFFICES ASSUME [Next]_vars, ended, reqs' # reqs PROVE UNCHANGED <<issues, health, named>>
    BY DEF vars
  <2>1. PICK q \in Handlers : RequestStep(q)
    BY DEF Next, Switch, End, vars
  <2> QED BY <2>1 DEF RequestStep, RequestArrive, RecordRefusal, NativeDial, RewriteFails,
                      RecordError, RecordRequest
<1> QED BY <1>1, PTL DEF Spec, EndedIgnoresRequests
=============================================================================
