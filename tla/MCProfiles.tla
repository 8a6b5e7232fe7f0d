----------------------------- MODULE MCProfiles ------------------------------
(* Instances of ProfilesWriters for TLC. *)
EXTENDS ProfilesWriters, TLC

CONSTANTS work, Target, OwnUrl

MCNames == {Official, work}
MCRank == [n \in MCNames |-> IF n = Official THEN 1 ELSE 2]
MCUrls == {OwnUrl, EnvUrl, BadUrl}

E1(k, n, u, b) == [kind |-> k, name |-> n, url |-> u, target |-> Target, set |-> b]

\* Each edit on the profile `work`, and those that touch the default, once with
\* a URL Validate refuses.
MCAsks ==
  { E1("cliAdd", work, OwnUrl, TRUE), E1("cliRm", work, OwnUrl, FALSE),
    E1("cliRm", Official, OwnUrl, TRUE), E1("cliDefault", InheritEnv, OwnUrl, FALSE),
    E1("edit", work, EnvUrl, FALSE), E1("edit", work, BadUrl, TRUE),
    E1("add", work, OwnUrl, FALSE), E1("remove", work, OwnUrl, FALSE),
    E1("setDefault", work, OwnUrl, FALSE), E1("setDefault", InheritEnv, OwnUrl, FALSE),
    E1("modelDefault", work, OwnUrl, FALSE) }

\* No file, a file of an earlier release, a file whose default is `work`.
Work(d) == [default |-> d, profiles |-> [n \in {work} |-> NewProfile(OwnUrl)]]
MCInitialFiles == {NoFile, Work(InheritEnv), Work(work)}
==============================================================================
