---------------------------- MODULE ProfilesFile ----------------------------
(***************************************************************************)
(* profiles.json and the edits ccwrap makes to it: what each edit returns  *)
(* for a loaded file and when it is refused (internal/profiles,            *)
(* internal/profileapi, cmd/ccwrap/profile_crud.go and migrate.go).        *)
(* A profile is its base URL and its "*" alias; every other field is set   *)
(* along with the URL.  BadUrl stands for anything Validate refuses.       *)
(***************************************************************************)
EXTENDS Naturals, FiniteSets

CONSTANTS
  Names,        \* profile names
  Official,     \* the reserved profile name "official"
  InheritEnv,   \* the sentinel "inherit-env": no profile
  Rank,         \* the alphabetical rank of a name
  Urls,         \* base URLs an edit may set
  BadUrl,       \* a base URL Validate refuses
  EnvUrl,       \* the base URL in the environment a launch migrates
  Anthropic,    \* the empty base URL of the official profile
  Targets,      \* targets of a "*" alias
  NoTarget,     \* no "*" alias
  NoFile        \* profiles.json does not exist

ASSUME NamesAssumption ==
  /\ Official \in Names
  /\ InheritEnv \notin Names
ASSUME TargetsAssumption == Targets # {}
ASSUME RankAssumption ==
  \A S \in SUBSET Names : S # {} => \E n \in S : \A m \in S : Rank[n] <= Rank[m]
ASSUME UrlAssumption ==
  /\ {BadUrl, EnvUrl} \subseteq Urls
  /\ Anthropic \notin Urls
  /\ EnvUrl # BadUrl

Profile == [url : Urls \cup {Anthropic}, star : Targets \cup {NoTarget}]
Defaults == Names \cup {InheritEnv}
ProfileMaps == UNION {[S -> Profile] : S \in SUBSET Names}
Files == [default : Defaults, profiles : ProfileMaps]

ASSUME NoFileAssumption == NoFile \notin Files

NamesIn(f) == IF f = NoFile THEN {} ELSE DOMAIN f.profiles

\* validate: the default is a profile of the file or the sentinel, and every
\* profile passes its own rules.
Valid(f) ==
  /\ f.default \in NamesIn(f) \cup {InheritEnv}
  /\ \A n \in NamesIn(f) : f.profiles[n].url # BadUrl

ValidFiles == {f \in Files : Valid(f)}

\* An edit, its profile and what it carries: set is --set-default (add, edit)
\* or --force (rm).  No profile is named inherit-env (validateProfileName,
\* SeedFromEnv); only the default may be.
EditRecords == [kind : {"ensure", "migrate", "cliAdd", "cliRm", "cliDefault",
                        "add", "edit", "remove", "setDefault", "modelDefault"},
                name : Defaults, url : Urls, target : Targets, set : BOOLEAN]
Edits == {e \in EditRecords :
            e.name = InheritEnv => e.kind \in {"cliDefault", "setDefault"}}

-----------------------------------------------------------------------------
With(f, n, p) == [f EXCEPT !.profiles = [m \in NamesIn(f) \cup {n} |->
                                           IF m = n THEN p ELSE f.profiles[m]]]
Without(f, n) == [f EXCEPT !.profiles = [m \in NamesIn(f) \ {n} |-> f.profiles[m]]]
DefaultTo(f, d) == [f EXCEPT !.default = d]
DefaultIf(b, f, d) == IF b THEN DefaultTo(f, d) ELSE f

OfficialProfile == [url |-> Anthropic, star |-> NoTarget]
EmptyFile == [default |-> InheritEnv, profiles |-> [n \in {} |-> OfficialProfile]]
FileOf(n, p) == [default |-> n, profiles |-> [m \in {n} |-> p]]
NewProfile(u) == [url |-> u, star |-> NoTarget]

WithOfficial(f) ==
  IF Official \in NamesIn(f) THEN f ELSE With(f, Official, OfficialProfile)

\* EnsureOfficialProfile: official is in the file, and a default of inherit-env
\* becomes official.
EnsureResult(f) ==
  IF f = NoFile THEN FileOf(Official, OfficialProfile)
  ELSE WithOfficial(DefaultIf(f.default = InheritEnv, f, Official))

\* maybeMigrateFromEnv under the lock: the profile joins the file, which keeps
\* its default.
MigrateResult(e, f) ==
  IF f = NoFile THEN FileOf(e.name, NewProfile(EnvUrl))
  ELSE With(f, e.name, NewProfile(EnvUrl))

\* Without a file the command line starts an empty one, the API one with the
\* official profile.
AddResult(e, f) ==
  LET start == CASE f # NoFile         -> f
                 [] e.kind = "cliAdd"  -> EmptyFile
                 [] OTHER              -> FileOf(Official, OfficialProfile)
  IN DefaultIf(e.set, With(start, e.name, NewProfile(e.url)), e.name)

EditResult(e, f) ==
  DefaultIf(e.set, With(f, e.name, [f.profiles[e.name] EXCEPT !.url = e.url]), e.name)

ModelDefaultResult(e, f) ==
  With(f, e.name, [f.profiles[e.name] EXCEPT !.star = e.target])

AlphabeticallyFirst(S) == CHOOSE n \in S : \A m \in S : Rank[n] <= Rank[m]

ChooseFallbackDefault(f) ==
  CASE Official \in NamesIn(f) -> Official
    [] NamesIn(f) = {}         -> InheritEnv
    [] OTHER                   -> AlphabeticallyFirst(NamesIn(f))

RemoveResult(e, f) ==
  LET rest == Without(f, e.name)
  IN DefaultIf(f.default = e.name, rest,
               IF e.kind = "cliRm" THEN InheritEnv ELSE ChooseFallbackDefault(rest))

\* The API reads inherit-env as official, the command line as the sentinel.
SetDefaultResult(e, f) ==
  IF e.kind = "setDefault" /\ e.name = InheritEnv
    THEN WithOfficial(DefaultTo(f, Official))
    ELSE DefaultTo(f, e.name)

Result(e, f) ==
  CASE e.kind = "ensure"                      -> EnsureResult(f)
    [] e.kind = "migrate"                     -> MigrateResult(e, f)
    [] e.kind \in {"cliAdd", "add"}           -> AddResult(e, f)
    [] e.kind = "edit"                        -> EditResult(e, f)
    [] e.kind = "modelDefault"                -> ModelDefaultResult(e, f)
    [] e.kind \in {"cliRm", "remove"}         -> RemoveResult(e, f)
    [] e.kind \in {"cliDefault", "setDefault"} -> SetDefaultResult(e, f)

-----------------------------------------------------------------------------
HasEnvUrl(f) == \E n \in NamesIn(f) : f.profiles[n].url = EnvUrl
Lacks(f, n) == n \notin NamesIn(f)

\* The checks an edit makes on the loaded file before it changes it.
CheckFails(e, f) ==
  \/ /\ e.kind = "migrate"
     /\ HasEnvUrl(f) \/ ~Lacks(f, e.name)
  \/ /\ e.kind \in {"cliAdd", "add"}
     /\ ~Lacks(f, e.name)
  \/ /\ e.kind \in {"edit", "modelDefault", "cliRm", "remove"}
     /\ Lacks(f, e.name)
  \/ /\ e.kind \in {"cliDefault", "setDefault"}
     /\ f = NoFile \/ (e.name # InheritEnv /\ Lacks(f, e.name))

\* A file that does not exist is created by WriteFile, which refuses to replace
\* one; the other edits replace the file by OverwriteFile.
Creates(e, f) == f = NoFile /\ e.kind \in {"ensure", "migrate"}

\* An edit whose checks fail, or whose result OverwriteFile does not validate,
\* leaves the file alone.
Refuses(e, f) ==
  \/ CheckFails(e, f)
  \/ ~CheckFails(e, f) /\ ~Creates(e, f) /\ ~Valid(Result(e, f))

\* The checks made before the lock is taken: `profile rm` looks for the profile
\* and spares the default without --force, the migration for its URL.
PeekStops(e, f) ==
  \/ /\ e.kind = "cliRm"
     /\ Lacks(f, e.name) \/ (f # NoFile /\ f.default = e.name /\ ~e.set)
  \/ /\ e.kind = "migrate"
     /\ HasEnvUrl(f)
=============================================================================
