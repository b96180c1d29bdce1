----------------------------- MODULE ScanScope -----------------------------
(***************************************************************************)
(* How a scan establishes what it covered, and what the backend makes of   *)
(* it: run in cmd/scanner/main.go assembles the attested content (account, *)
(* organization, every account, then every other provider), and            *)
(* handleCreateVerdict (internal/api/handlers.go) refuses a content whose  *)
(* scope does not hold together.  AWS, the providers and the credentials   *)
(* decide freely at every call; the report is posted unaltered.            *)
(***************************************************************************)
EXTENDS FiniteSets, Functions

CONSTANTS
    Accounts,      \* AWS account ids
    Management,    \* the account of the scanner's credentials
    Unknown,       \* the literal "unknown": no account id
    AwsChecks,     \* ids in checks.All
    Providers,     \* Supabase, GCP, Azure
    Units,         \* provider -> its projects or subscriptions
    ChecksOf       \* provider -> ids of its checks

ASSUME AccountsAssumption ==
    Management \in Accounts /\ Unknown \notin Accounts /\ IsFiniteSet(Accounts)
ASSUME ProvidersAssumption ==
    /\ DOMAIN Units = Providers /\ DOMAIN ChecksOf = Providers
    /\ \A p \in Providers : /\ Units[p] \cap (Accounts \cup {Unknown}) = {}
                            /\ IsFiniteSet(Units[p])
                            /\ ChecksOf[p] \cap AwsChecks = {}
    /\ \A p, q \in Providers : p # q => ChecksOf[p] \cap ChecksOf[q] = {}

Statuses == {"pass", "fail", "error", "not_in_use"}
AllChecks == AwsChecks \cup UNION {ChecksOf[p] : p \in Providers}
AllUnits == Accounts \cup {Unknown} \cup UNION {Units[p] : p \in Providers}

VARIABLES
    pc,        \* identify, organization, accounts, aggregate, providers,
               \* sealed, failed, accepted, rejected
    enabled,   \* the providers whose flags are given and which have not run
    rep,       \* the attested content
    todo       \* accountIDs not visited yet

vars == <<pc, enabled, rep, todo>>

NoScope == [listed |-> {}, scanned |-> {}]
-----------------------------------------------------------------------------
\* One turn of the loop in aggregateAccountResults.
Rank(sofar, s) ==
    CASE s = "error" -> "error"
      [] s = "fail" /\ sofar # "error" -> "fail"
      [] s = "pass" /\ sofar \notin {"error", "fail"} -> "pass"
      [] OTHER -> sofar

AggregateAccountResults(results) ==
    FoldFunction(LAMBDA s, sofar : Rank(sofar, s), "not_in_use", results)

\* The results of one check with the status of one more account.
WithResult(results, x, status) ==
    [y \in DOMAIN results \cup {x} |-> IF y = x THEN status ELSE results[y]]

\* rep.Checks with the results new for the checks of C.
WithResults(C, new) ==
    [c \in DOMAIN rep.checks \cup C |-> IF c \in C THEN new[c] ELSE rep.checks[c]]
-----------------------------------------------------------------------------
Init ==
    /\ pc = "identify"
    /\ enabled \in SUBSET Providers
    /\ rep = [account |-> Unknown, scopeVerified |-> FALSE,
              orgVerified |-> FALSE, noOrg |-> FALSE, orgId |-> FALSE,
              orgWarning |-> FALSE, listed |-> {}, scanned |-> {},
              checks |-> [c \in AwsChecks |-> << >>],
              summary |-> [c \in AwsChecks |-> "not_in_use"],
              scopes |-> [p \in Providers |-> NoScope]]
    /\ todo = {}

\* sts:GetCallerIdentity; a failure does not stop the scan.
Identify ==
    /\ pc = "identify"
    /\ \/ /\ rep' = [rep EXCEPT !.account = Management, !.scopeVerified = TRUE]
          /\ pc' = "organization"
          /\ UNCHANGED todo
       \/ /\ rep' = [rep EXCEPT !.orgWarning = TRUE]
          /\ todo' = {Unknown}
          /\ pc' = "accounts"
    /\ UNCHANGED enabled

\* EnumerateOrganization lists the organization, which must include the
\* caller's account, ...
OrganizationListed ==
    /\ pc = "organization"
    /\ \E listed \in SUBSET Accounts :
          /\ Management \in listed
          /\ rep' = [rep EXCEPT !.orgVerified = TRUE, !.orgId = TRUE,
                                !.listed = listed]
          /\ todo' = listed
    /\ pc' = "accounts"
    /\ UNCHANGED enabled

\* ... or there is none (AWSOrganizationsNotInUse), ...
OrganizationNotInUse ==
    /\ pc = "organization"
    /\ rep' = [rep EXCEPT !.orgVerified = TRUE, !.noOrg = TRUE,
                          !.listed = {Management}]
    /\ todo' = {Management}
    /\ pc' = "accounts"
    /\ UNCHANGED enabled

\* ... or it cannot be enumerated: only the caller's account is scanned.
OrganizationUnverified ==
    /\ pc = "organization"
    /\ rep' = [rep EXCEPT !.orgWarning = TRUE]
    /\ todo' = {Management}
    /\ pc' = "accounts"
    /\ UNCHANGED enabled

Visited(x) ==
    /\ todo' = todo \ {x}
    /\ pc' = IF todo' = {} THEN "aggregate" ELSE "accounts"
    /\ UNCHANGED enabled

\* Mutant: the placeholder account id counted as scanned.
ScanAccountUnknown ==
    /\ pc = "accounts"
    /\ \E x \in todo, results \in [AwsChecks -> Statuses] :
          /\ rep' = [rep EXCEPT
                !.scanned = @ \cup {x},
                !.checks = [c \in AwsChecks |-> WithResult(@[c], x, results[c])]]
          /\ Visited(x)

ScanAccount ==
    /\ pc = "accounts"
    /\ \E x \in todo, results \in [AwsChecks -> Statuses] :
          /\ rep' = [rep EXCEPT
                !.scanned = IF x = Unknown THEN @ ELSE @ \cup {x},
                !.checks = [c \in AwsChecks |-> WithResult(@[c], x, results[c])]]
          /\ Visited(x)

\* Mutant: no placeholder results for an account that cannot be entered.
MemberRoleSkipped ==
    /\ pc = "accounts"
    /\ \E x \in todo \ {Unknown, Management} :
          /\ rep' = [rep EXCEPT !.orgWarning = TRUE]
          /\ Visited(x)

\* The role of a member account cannot be assumed: an error under each check.
MemberRoleRefused ==
    /\ pc = "accounts"
    /\ \E x \in todo \ {Unknown, Management} :
          /\ rep' = [rep EXCEPT
                !.orgWarning = TRUE,
                !.checks = [c \in AwsChecks |-> WithResult(@[c], x, "error")]]
          /\ Visited(x)

Aggregate ==
    /\ pc = "aggregate"
    /\ rep' = [rep EXCEPT !.summary =
           [c \in AwsChecks |-> AggregateAccountResults(rep.checks[c])]]
    /\ pc' = "providers"
    /\ UNCHANGED <<enabled, todo>>

\* Mutant: a unit counts as scanned when any of its checks ran.
CompleteAny(p, listed, results) ==
    {u \in listed : \E c \in ChecksOf[p] : results[c][u] # "error"}

\* The units of which every check of p could be observed.
Complete(p, listed, results) ==
    {u \in listed : \A c \in ChecksOf[p] : results[c][u] # "error"}

\* scanSupabase, scanGCP, scanAzure: enumerate, which refuses an empty scope,
\* then run every check on every unit.
ScanProvider(p) ==
    /\ pc = "providers"
    /\ p \in enabled
    /\ enabled' = enabled \ {p}
    /\ \E listed \in (SUBSET Units[p]) \ {{}} :
       \E results \in [ChecksOf[p] -> [listed -> Statuses]] :
          rep' = [rep EXCEPT
              !.checks = WithResults(ChecksOf[p], results),
              !.summary = [c \in DOMAIN rep.checks \cup ChecksOf[p] |->
                              IF c \in ChecksOf[p]
                              THEN AggregateAccountResults(results[c])
                              ELSE rep.summary[c]],
              !.scopes[p] = [listed |-> listed,
                             scanned |-> Complete(p, listed, results)]]
    /\ UNCHANGED <<pc, todo>>

\* No token or no organization scope: the whole run fails.
ProviderFails ==
    /\ pc = "providers"
    /\ enabled # {}
    /\ pc' = "failed"
    /\ UNCHANGED <<enabled, rep, todo>>

Attest ==
    /\ pc = "providers"
    /\ enabled = {}
    /\ pc' = "sealed"
    /\ UNCHANGED <<enabled, rep, todo>>
-----------------------------------------------------------------------------
Covers(C, units) ==
    \A c \in C \cap DOMAIN rep.checks : units \subseteq DOMAIN rep.checks[c]

\* The part of validateOrganizationScope about one of the other providers.
ProviderScopeHolds(p) ==
    rep.scopes[p] # NoScope =>
        /\ rep.scopes[p].listed # {}
        /\ rep.scopes[p].scanned \subseteq rep.scopes[p].listed
        /\ Covers(ChecksOf[p], rep.scopes[p].listed)

\* Mutant: an account that was listed and not scanned is refused.
ScopeHoldsStrictly ==
    /\ rep.scanned # {}
    /\ IF ~rep.orgVerified THEN rep.orgWarning ELSE rep.scanned = rep.listed

\* validateOrganizationScope returns "".
ValidateOrganizationScope ==
    /\ rep.scanned # {}
    /\ IF ~rep.orgVerified THEN rep.orgWarning
       ELSE /\ rep.listed # {}
            /\ IF rep.noOrg THEN ~rep.orgId /\ Cardinality(rep.listed) = 1
                            ELSE rep.orgId
            /\ rep.scanned \subseteq rep.listed
            /\ Covers(DOMAIN rep.checks, rep.listed)
            /\ \A p \in Providers : ProviderScopeHolds(p)

\* handleCreateVerdict up to the attestation, which holds for what is posted
\* as it was sealed: the account id is a required field.
HandleCreateVerdict ==
    /\ pc = "sealed"
    /\ pc' = IF /\ rep.account # Unknown
                /\ rep.scopeVerified
                /\ ValidateOrganizationScope
             THEN "accepted" ELSE "rejected"
    /\ UNCHANGED <<enabled, rep, todo>>

Done == pc \in {"failed", "accepted", "rejected"} /\ UNCHANGED vars

Next ==
    \/ Identify
    \/ OrganizationListed
    \/ OrganizationNotInUse
    \/ OrganizationUnverified
    \/ ScanAccount
    \/ MemberRoleRefused
    \/ Aggregate
    \/ \E p \in Providers : ScanProvider(p)
    \/ ProviderFails
    \/ Attest
    \/ HandleCreateVerdict
    \/ Done

Spec == Init /\ [][Next]_vars
-----------------------------------------------------------------------------
\* The state of the scan and the fields of the attested content.
TypeOK ==
    /\ pc \in {"identify", "organization", "accounts", "aggregate",
               "providers", "sealed", "failed", "accepted", "rejected"}
    /\ enabled \subseteq Providers
    /\ rep.account \in {Management, Unknown}
    /\ rep.listed \subseteq Accounts
    /\ rep.scanned \subseteq Accounts
    /\ DOMAIN rep.checks = DOMAIN rep.summary
    /\ \A c \in DOMAIN rep.checks :
          /\ c \in AllChecks
          /\ DOMAIN rep.checks[c] \subseteq AllUnits
          /\ Range(rep.checks[c]) \subseteq Statuses
          /\ rep.summary[c] \in Statuses
    /\ \A p \in Providers : /\ rep.scopes[p].listed \subseteq Units[p]
                            /\ rep.scopes[p].scanned \subseteq Units[p]
    /\ todo \subseteq Accounts \cup {Unknown}

Finished == pc \in {"sealed", "accepted", "rejected"}

\* A sealed report accounts for every account of the boundary it claims: each
\* AWS check has a result for exactly the accounts listed, and an account that
\* could not be entered turns every check into an error and leaves a warning,
\* so that no control looks clean for what was not looked at.
NothingUnseenLooksClean ==
    Finished /\ rep.orgVerified =>
        \A c \in AwsChecks :
            /\ DOMAIN rep.checks[c] = rep.listed
            /\ rep.scanned # rep.listed =>
                   rep.summary[c] = "error" /\ rep.orgWarning

\* The backend takes every AWS report whose account is known, the partial ones
\* with accounts that could not be entered included: what the scanner
\* assembles is what validateOrganizationScope asks for.
AwsReportAccepted ==
    pc = "rejected" /\ rep.account # Unknown =>
        \E p \in Providers : rep.scopes[p] # NoScope

\* README: "POST /v1/verdicts accepts ... the exact thing cmd/scanner prints",
\* and the attested report of a Supabase, GCP or Azure scan carries that
\* scope: a report whose account is known is accepted.
ProviderReportAccepted == pc = "rejected" => rep.account = Unknown
=============================================================================
