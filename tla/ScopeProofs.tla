---------------------------- MODULE ScopeProofs ----------------------------
(***************************************************************************)
(* Theorems about what a scan covered, what the backend makes of it and    *)
(* what a buyer is told of it, for any accounts, checks and providers.     *)
(***************************************************************************)
EXTENDS Questionnaire, WellFoundedInduction, FiniteSetTheorems, TLAPS

\* What aggregateAccountResults computes, without its loop.
Worst(S) ==
    IF "error" \in S THEN "error" ELSE IF "fail" \in S THEN "fail"
    ELSE IF "pass" \in S THEN "pass" ELSE "not_in_use"

IsRep(r) ==
    DOMAIN r = {"account", "scopeVerified", "orgVerified", "noOrg", "orgId", "orgWarning",
                "listed", "scanned", "checks", "summary", "scopes"}

\* The accounts that the scan is about.
Boundary == IF rep.orgVerified THEN rep.listed ELSE {rep.account}

Visiting == pc \notin {"identify", "organization"}

ReportInv ==
    /\ IsRep(rep)
    /\ rep.account \in {Management, Unknown}
    /\ rep.listed \subseteq Accounts /\ rep.scanned \subseteq Accounts
    /\ rep.account = Management => rep.scopeVerified
    /\ pc = "identify" => rep.account = Unknown
    /\ pc = "organization" => rep.account = Management
    /\ ~Visiting => /\ ~rep.orgVerified /\ ~rep.noOrg /\ ~rep.orgId
                    /\ rep.scanned = {} /\ todo = {}
                    /\ \A c \in AwsChecks : DOMAIN rep.checks[c] = {}

\* How the organization was found.
OrganizationInv ==
    /\ ~rep.orgVerified => (Visiting => rep.orgWarning)
    /\ rep.orgVerified =>
          /\ rep.account = Management /\ Management \in rep.listed
          /\ rep.noOrg => ~rep.orgId /\ rep.listed = {Management}
          /\ ~rep.noOrg => rep.orgId

\* Of the accounts of the boundary all but those in todo have been visited: they
\* have a result for every check, and count as scanned if they could be entered.
VisitInv ==
    Visiting =>
        /\ todo \subseteq Boundary /\ rep.scanned \subseteq Boundary \ todo
        /\ Management \in Boundary => Management \in todo \cup rep.scanned
        /\ \A x \in (Boundary \ todo) \ rep.scanned : x # Unknown => rep.orgWarning
        /\ \A c \in AwsChecks :
              /\ DOMAIN rep.checks[c] = Boundary \ todo
              /\ \A x \in Boundary \ todo :
                    /\ rep.checks[c][x] \in Statuses
                    /\ x \notin rep.scanned /\ x # Unknown => rep.checks[c][x] = "error"
        /\ pc # "accounts" => todo = {}

Gathering == pc \in {"identify", "organization", "accounts", "aggregate"}

SummaryInv ==
    /\ DOMAIN rep.summary = DOMAIN rep.checks
    /\ ~Gathering =>
          \A c \in DOMAIN rep.checks :
             /\ Range(rep.checks[c]) \subseteq Statuses
             /\ rep.summary[c] = Worst(Range(rep.checks[c]))

ProvidersInv ==
    /\ DOMAIN rep.scopes = Providers
    /\ AwsChecks \subseteq DOMAIN rep.checks
    /\ Gathering => \A p \in Providers : rep.scopes[p] = NoScope
    /\ \A c \in DOMAIN rep.checks \ AwsChecks :
          \E p \in Providers : c \in ChecksOf[p] /\ rep.scopes[p] # NoScope
    /\ \A p \in Providers : rep.scopes[p] # NoScope =>
          /\ rep.scopes[p].listed \in (SUBSET Units[p]) \ {{}}
          /\ ChecksOf[p] \subseteq DOMAIN rep.checks
          /\ \A c \in ChecksOf[p] : DOMAIN rep.checks[c] = rep.scopes[p].listed
          /\ rep.scopes[p].scanned = Complete(p, rep.scopes[p].listed, rep.checks)

ScanInv ==
    ReportInv /\ OrganizationInv /\ VisitInv /\ SummaryInv /\ ProvidersInv /\ AwsReportAccepted
-----------------------------------------------------------------------------
(* The loop of aggregateAccountResults. *)

LEMMA LeastNat ==
    ASSUME NEW T, T \subseteq Nat, T # {}
    PROVE  \E n \in T : \A m \in T : n <= m
<1>1. PICK n \in T : \A m \in T : <<m, n>> \notin OpToRel(<, Nat)
  BY WFMin, NatLessThanWellFounded
<1>2. ASSUME NEW m \in T PROVE n <= m
  <2>1. ~ (m < n)
    BY <1>1 DEF OpToRel
  <2> QED BY <2>1
<1> QED BY <1>2

\* The element that a fold of the library takes first.
First(s) == CHOOSE x \in s : TRUE

\* A fold over a finite set computes what one step for each element computes.
LEMMA FoldIsUnique ==
    ASSUME NEW D, IsFiniteSet(D), NEW f, NEW g, f[{}] = g[{}],
           \A s \in SUBSET D :
               s # {} /\ f[s \ {First(s)}] = g[s \ {First(s)}] => f[s] = g[s]
    PROVE  \A s \in SUBSET D : f[s] = g[s]
<1> DEFINE Wrong == {s \in SUBSET D : f[s] # g[s]}
<1>1. SUFFICES ASSUME Wrong # {} PROVE FALSE
  OBVIOUS
<1>2. \A s \in SUBSET D : IsFiniteSet(s) /\ Cardinality(s) \in Nat
  BY FS_Subset, FS_CardinalityType
<1>3. PICK n \in {Cardinality(s) : s \in Wrong} :
         \A m \in {Cardinality(s) : s \in Wrong} : n <= m
  <2>1. /\ {Cardinality(s) : s \in Wrong} \subseteq Nat
        /\ {Cardinality(s) : s \in Wrong} # {}
    BY <1>1, <1>2
  <2> HIDE DEF Wrong
  <2> QED BY <2>1, LeastNat
<1>4. PICK s \in Wrong : Cardinality(s) = n
  BY <1>3
<1>5. s # {}
  BY <1>4
<1> DEFINE p == s \ {First(s)}
<1>6. First(s) \in s /\ p \in SUBSET D
  BY <1>4, <1>5 DEF First
<1>7. Cardinality(p) = Cardinality(s) - 1
  BY <1>2, <1>4, <1>6, FS_RemoveElement
<1>8. p \notin Wrong
  <2>1. ASSUME p \in Wrong PROVE FALSE
    <3>1. n <= Cardinality(p)
      BY <1>3, <2>1
    <3>2. Cardinality(p) \in Nat /\ Cardinality(s) \in Nat
      BY <1>2, <1>4, <1>6
    <3> QED BY <1>4, <1>7, <3>1, <3>2
  <2> QED BY <2>1
<1> QED BY <1>4, <1>5, <1>6, <1>8

LEMMA WorstOfOneMore ==
    ASSUME NEW S, S \subseteq Statuses, NEW s \in Statuses
    PROVE  Rank(Worst(S), s) = Worst(S \cup {s})
BY DEF Rank, Worst, Statuses

LEMMA WorstIsStatus ==
    ASSUME NEW S
    PROVE  Worst(S) \in Statuses
BY DEF Worst, Statuses

\* The fold is over a finite set, one account after the other: its value does not
\* depend on their order.
LEMMA AggregateIsWorst ==
    ASSUME NEW r, IsFiniteSet(DOMAIN r), Range(r) \subseteq Statuses
    PROVE  AggregateAccountResults(r) = Worst(Range(r))
<1> DEFINE D == DOMAIN r
           step(f, s) == IF s = {} THEN "not_in_use" ELSE Rank(f[s \ {First(s)}], r[First(s)])
           loop == CHOOSE f : f = [s \in SUBSET D |-> step(f, s)]
           W == [s \in SUBSET D |-> Worst({r[x] : x \in s})]
<1>1. AggregateAccountResults(r) = loop[D]
  BY DEF AggregateAccountResults, FoldFunction, FoldFunctionOnSet, MapThenFoldSet, First
<1>2. ASSUME NEW s \in SUBSET D, s # {}
      PROVE  /\ First(s) \in s /\ s \ {First(s)} \in SUBSET D
             /\ Worst({r[x] : x \in s}) = Rank(Worst({r[x] : x \in s \ {First(s)}}), r[First(s)])
  <2>1. First(s) \in s
    BY <1>2 DEF First
  <2>2. {r[x] : x \in s} = {r[x] : x \in s \ {First(s)}} \cup {r[First(s)]}
    BY <2>1
  <2>3. {r[x] : x \in s \ {First(s)}} \subseteq Statuses /\ r[First(s)] \in Statuses
    BY <2>1 DEF Range
  <2> QED BY <2>1, <2>2, <2>3, WorstOfOneMore
<1>3. \A s \in SUBSET D : W[s] = step(W, s)
  <2> TAKE s \in SUBSET D
  <2>1. CASE s = {}
    BY <2>1 DEF Worst
  <2>2. CASE s # {}
    BY <1>2, <2>2
  <2> QED BY <2>1, <2>2
<1>4. W = [s \in SUBSET D |-> step(W, s)]
  BY <1>3
<1>5. loop = [s \in SUBSET D |-> step(loop, s)]
  <2> HIDE DEF W, step
  <2> QED BY <1>4
<1> HIDE DEF loop
<1>6. loop[{}] = W[{}]
  BY <1>3, <1>5
<1>7. \A s \in SUBSET D : s # {} /\ loop[s \ {First(s)}] = W[s \ {First(s)}] => loop[s] = W[s]
  <2> TAKE s \in SUBSET D
  <2>1. loop[s] = step(loop, s) /\ W[s] = step(W, s)
    BY <1>3, <1>5
  <2> HIDE DEF W
  <2> QED BY <2>1
<1>8. loop[D] = W[D]
  <2> HIDE DEF W, step
  <2>1. \A s \in SUBSET D : loop[s] = W[s]
    BY <1>6, <1>7, FoldIsUnique
  <2> QED BY <2>1
<1> QED BY <1>1, <1>8 DEF Range
-----------------------------------------------------------------------------
(* The invariant of the scan: one lemma for each action. *)

LEMMA InitScan == Init => ScanInv
<1> SUFFICES ASSUME Init PROVE ScanInv
  OBVIOUS
<1>1. /\ pc = "identify" /\ todo = {} /\ IsRep(rep)
      /\ rep.account = Unknown /\ ~rep.orgVerified /\ ~rep.noOrg /\ ~rep.orgId
      /\ rep.listed = {} /\ rep.scanned = {}
      /\ rep.checks = [c \in AwsChecks |-> << >>]
      /\ rep.summary = [c \in AwsChecks |-> "not_in_use"]
      /\ rep.scopes = [p \in Providers |-> NoScope]
  BY DEF Init, IsRep
<1>2. ReportInv
  BY <1>1, AccountsAssumption DEF ReportInv, Visiting
<1>3. OrganizationInv /\ VisitInv /\ SummaryInv /\ AwsReportAccepted
  BY <1>1 DEF OrganizationInv, VisitInv, SummaryInv, Visiting, Gathering, AwsReportAccepted
<1>4. ProvidersInv
  BY <1>1 DEF ProvidersInv, Gathering
<1> QED BY <1>2, <1>3, <1>4 DEF ScanInv

LEMMA IdentifyKeeps == ScanInv /\ Identify => ScanInv'
<1> SUFFICES ASSUME ScanInv, Identify PROVE ScanInv'
  OBVIOUS
<1>1. pc = "identify" /\ IsRep(rep) /\ ~rep.orgVerified /\ todo = {}
  BY DEF Identify, ScanInv, ReportInv, Visiting
<1>2. CASE /\ rep' = [rep EXCEPT !.account = Management, !.scopeVerified = TRUE]
           /\ pc' = "organization" /\ UNCHANGED todo
  <2>1. /\ IsRep(rep') /\ rep'.account = Management /\ rep'.scopeVerified
        /\ rep'.orgVerified = rep.orgVerified /\ rep'.noOrg = rep.noOrg
        /\ rep'.orgId = rep.orgId /\ rep'.listed = rep.listed /\ rep'.scanned = rep.scanned
        /\ rep'.checks = rep.checks /\ rep'.summary = rep.summary /\ rep'.scopes = rep.scopes
    BY <1>1, <1>2 DEF IsRep
  <2>2. ReportInv' /\ OrganizationInv' /\ VisitInv' /\ SummaryInv' /\ AwsReportAccepted'
    BY <1>1, <1>2, <2>1 DEF ScanInv, ReportInv, OrganizationInv, VisitInv, SummaryInv,
                            Visiting, Gathering, AwsReportAccepted
  <2>3. ProvidersInv'
    BY <1>1, <1>2, <2>1 DEF ScanInv, ProvidersInv, Gathering, Complete
  <2> QED BY <2>2, <2>3 DEF ScanInv
<1>3. CASE /\ rep' = [rep EXCEPT !.orgWarning = TRUE]
           /\ todo' = {Unknown} /\ pc' = "accounts"
  <2>1. /\ IsRep(rep') /\ rep'.orgWarning /\ rep'.account = rep.account
        /\ rep'.scopeVerified = rep.scopeVerified
        /\ rep'.orgVerified = rep.orgVerified /\ rep'.noOrg = rep.noOrg
        /\ rep'.orgId = rep.orgId /\ rep'.listed = rep.listed /\ rep'.scanned = rep.scanned
        /\ rep'.checks = rep.checks /\ rep'.summary = rep.summary /\ rep'.scopes = rep.scopes
    BY <1>1, <1>3 DEF IsRep
  <2>2. rep.account = Unknown
    BY <1>1 DEF ScanInv, ReportInv, Visiting
  <2>3. ReportInv' /\ OrganizationInv' /\ SummaryInv' /\ AwsReportAccepted'
    BY <1>1, <1>3, <2>1, <2>2 DEF ScanInv, ReportInv, OrganizationInv, SummaryInv,
                                  Visiting, Gathering, AwsReportAccepted
  <2>4. Boundary' = {Unknown} /\ Boundary' \ todo' = {}
    BY <1>1, <1>3, <2>1, <2>2 DEF Boundary
  <2>5. VisitInv'
    BY <1>1, <1>3, <2>1, <2>4, AccountsAssumption DEF ScanInv, ReportInv, VisitInv, Visiting
  <2>6. ProvidersInv'
    BY <1>1, <1>3, <2>1 DEF ScanInv, ProvidersInv, Gathering, Complete
  <2> QED BY <2>3, <2>5, <2>6 DEF ScanInv
<1> QED BY <1>2, <1>3 DEF Identify

\* The three outcomes of EnumerateOrganization.
LEMMA OrganizationKeeps ==
    ScanInv /\ (OrganizationListed \/ OrganizationNotInUse \/ OrganizationUnverified)
        => ScanInv'
<1> SUFFICES ASSUME ScanInv, OrganizationListed \/ OrganizationNotInUse \/ OrganizationUnverified
             PROVE  ScanInv'
  OBVIOUS
<1>1. /\ pc = "organization" /\ pc' = "accounts"
      /\ IsRep(rep) /\ rep.account = Management /\ rep.scopeVerified
      /\ ~rep.orgVerified /\ ~rep.noOrg /\ ~rep.orgId /\ rep.scanned = {}
      /\ \A c \in AwsChecks : DOMAIN rep.checks[c] = {}
  BY DEF OrganizationListed, OrganizationNotInUse, OrganizationUnverified, ScanInv, ReportInv,
         Visiting
<1>2. /\ IsRep(rep') /\ rep'.account = Management
      /\ rep'.scopeVerified = rep.scopeVerified /\ rep'.scanned = rep.scanned
      /\ rep'.checks = rep.checks /\ rep'.summary = rep.summary /\ rep'.scopes = rep.scopes
  BY <1>1 DEF OrganizationListed, OrganizationNotInUse, OrganizationUnverified, IsRep
<1>3. /\ todo' = Boundary' /\ rep'.listed \subseteq Accounts
      /\ Management \in Boundary' /\ Unknown \notin Boundary'
      /\ OrganizationInv'
  <2>1. CASE OrganizationListed
    <3>1. PICK listed \in SUBSET Accounts :
             /\ Management \in listed /\ todo' = listed
             /\ rep' = [rep EXCEPT !.orgVerified = TRUE, !.orgId = TRUE, !.listed = listed]
      BY <2>1 DEF OrganizationListed
    <3>2. rep'.orgVerified /\ rep'.orgId /\ rep'.listed = listed /\ rep'.noOrg = rep.noOrg
      BY <1>1, <3>1 DEF IsRep
    <3> QED BY <1>1, <1>2, <3>1, <3>2, AccountsAssumption DEF Boundary, OrganizationInv
  <2>2. CASE OrganizationNotInUse
    <3>1. /\ todo' = {Management}
          /\ rep' = [rep EXCEPT !.orgVerified = TRUE, !.noOrg = TRUE, !.listed = {Management}]
      BY <2>2 DEF OrganizationNotInUse
    <3>2. rep'.orgVerified /\ rep'.noOrg /\ rep'.listed = {Management} /\ rep'.orgId = rep.orgId
      BY <1>1, <3>1 DEF IsRep
    <3> QED BY <1>1, <1>2, <3>1, <3>2, AccountsAssumption DEF Boundary, OrganizationInv
  <2>3. CASE OrganizationUnverified
    <3>1. todo' = {Management} /\ rep' = [rep EXCEPT !.orgWarning = TRUE]
      BY <2>3 DEF OrganizationUnverified
    <3>2. rep'.orgWarning /\ rep'.orgVerified = rep.orgVerified /\ rep'.listed = rep.listed
      BY <1>1, <3>1 DEF IsRep
    <3> QED BY <1>1, <1>2, <3>1, <3>2, AccountsAssumption
            DEF Boundary, OrganizationInv, ScanInv, ReportInv
  <2> QED BY <2>1, <2>2, <2>3
<1>4. ReportInv' /\ SummaryInv' /\ AwsReportAccepted'
  BY <1>1, <1>2, <1>3 DEF ScanInv, ReportInv, SummaryInv, Visiting, Gathering, AwsReportAccepted
<1>5. Boundary' \ todo' = {}
  BY <1>3
<1>6. VisitInv'
  BY <1>1, <1>2, <1>3, <1>5 DEF VisitInv, Visiting
<1>7. ProvidersInv'
  BY <1>1, <1>2 DEF ScanInv, ProvidersInv, Gathering, Complete
<1> QED BY <1>3, <1>4, <1>6, <1>7 DEF ScanInv

\* What ScanAccount and MemberRoleRefused have in common: x gets a result for
\* every check, and counts as scanned or has an error under each and a warning.
LEMMA VisitKeeps ==
    ASSUME ScanInv, pc = "accounts", NEW x \in todo, NEW results \in [AwsChecks -> Statuses],
           Visited(x), IsRep(rep'),
           rep'.checks = [c \in AwsChecks |-> WithResult(rep.checks[c], x, results[c])],
           UNCHANGED <<rep.account, rep.scopeVerified, rep.orgVerified, rep.noOrg, rep.orgId,
                       rep.listed, rep.summary, rep.scopes>>,
           rep.orgWarning => rep'.orgWarning,
           \/ rep'.scanned = rep.scanned \cup ({x} \ {Unknown})
           \/ /\ rep'.scanned = rep.scanned /\ rep'.orgWarning /\ x # Management
              /\ \A c \in AwsChecks : results[c] = "error"
    PROVE  ScanInv'
<1>1. /\ Visiting /\ pc' \in {"accounts", "aggregate"} /\ todo' = todo \ {x}
      /\ pc' # "accounts" => todo' = {}
      /\ DOMAIN rep.checks = AwsChecks /\ DOMAIN rep.summary = AwsChecks
      /\ \A p \in Providers : rep.scopes[p] = NoScope
  BY DEF Visited, Visiting, ScanInv, ProvidersInv, SummaryInv, Gathering
<1>2. /\ Boundary' = Boundary /\ x \in Boundary /\ Boundary \subseteq Accounts \cup {Unknown}
      /\ todo \subseteq Boundary
  BY <1>1, AccountsAssumption DEF Boundary, ScanInv, ReportInv, VisitInv
<1>3. rep'.scanned \subseteq Accounts
  BY <1>2, AccountsAssumption DEF ScanInv, ReportInv
<1>4. ReportInv'
  BY <1>1, <1>3 DEF ScanInv, ReportInv, Visiting
<1>5. OrganizationInv'
  BY <1>1 DEF ScanInv, OrganizationInv, Visiting
<1>6. SummaryInv' /\ AwsReportAccepted'
  BY <1>1 DEF ScanInv, SummaryInv, Gathering, AwsReportAccepted
<1>7. ProvidersInv'
  BY <1>1 DEF ScanInv, ProvidersInv, Gathering
<1>8. VisitInv'
  <2>1. Boundary' \ todo' = (Boundary \ todo) \cup {x}
    BY <1>1, <1>2
  <2>2. rep'.scanned \subseteq Boundary' \ todo'
    BY <1>1, <2>1 DEF ScanInv, VisitInv
  <2>3. Management \in Boundary' => Management \in todo' \cup rep'.scanned
    BY <1>1, <1>2, AccountsAssumption DEF ScanInv, VisitInv
  <2>4. \A y \in (Boundary' \ todo') \ rep'.scanned : y # Unknown => rep'.orgWarning
    BY <1>1, <2>1 DEF ScanInv, VisitInv
  <2>5. ASSUME NEW c \in AwsChecks
        PROVE  /\ DOMAIN rep'.checks[c] = Boundary' \ todo'
               /\ \A y \in Boundary' \ todo' :
                     /\ rep'.checks[c][y] \in Statuses
                     /\ y \notin rep'.scanned /\ y # Unknown => rep'.checks[c][y] = "error"
    <3>1. rep'.checks[c] = WithResult(rep.checks[c], x, results[c])
      OBVIOUS
    <3>2. /\ DOMAIN rep.checks[c] = Boundary \ todo
          /\ \A y \in Boundary \ todo :
                /\ rep.checks[c][y] \in Statuses
                /\ y \notin rep.scanned /\ y # Unknown => rep.checks[c][y] = "error"
      BY <1>1 DEF ScanInv, VisitInv
    <3>3. /\ DOMAIN rep'.checks[c] = (Boundary \ todo) \cup {x}
          /\ rep'.checks[c][x] = results[c]
          /\ \A y \in Boundary \ todo : rep'.checks[c][y] = rep.checks[c][y]
      <4>1. x \notin Boundary \ todo
        OBVIOUS
      <4>2. /\ DOMAIN rep'.checks[c] = DOMAIN rep.checks[c] \cup {x}
            /\ rep'.checks[c][x] = results[c]
            /\ \A y \in DOMAIN rep.checks[c] \ {x} : rep'.checks[c][y] = rep.checks[c][y]
        <5> DEFINE f == rep.checks[c]
                   g == WithResult(f, x, results[c])
        <5>1. DOMAIN g = DOMAIN f \cup {x} /\ g[x] = results[c]
              /\ \A y \in DOMAIN f \ {x} : g[y] = f[y]
          BY DEF WithResult
        <5> HIDE DEF g
        <5>2. rep'.checks[c] = g
          BY <3>1 DEF g
        <5> QED BY <5>1, <5>2
      <4>3. DOMAIN rep.checks[c] = Boundary \ todo
        BY <3>2
      <4>4. \A y \in Boundary \ todo : y \in DOMAIN rep.checks[c] \ {x}
        BY <4>1, <4>3
      <4> QED BY <4>2, <4>3, <4>4
    <3>4. results[c] \in Statuses
      OBVIOUS
    <3> QED BY <2>1, <3>2, <3>3, <3>4
  <2> QED BY <1>1, <1>2, <2>2, <2>3, <2>4, <2>5 DEF VisitInv
<1> QED BY <1>4, <1>5, <1>6, <1>7, <1>8 DEF ScanInv

LEMMA ScanAccountKeeps == ScanInv /\ ScanAccount => ScanInv'
<1> SUFFICES ASSUME ScanInv, ScanAccount PROVE ScanInv'
  OBVIOUS
<1>1. PICK x \in todo, results \in [AwsChecks -> Statuses] :
         /\ rep' = [rep EXCEPT
                !.scanned = IF x = Unknown THEN @ ELSE @ \cup {x},
                !.checks = [c \in AwsChecks |-> WithResult(@[c], x, results[c])]]
         /\ Visited(x)
  BY DEF ScanAccount
<1>2. /\ IsRep(rep') /\ rep'.scanned = rep.scanned \cup ({x} \ {Unknown})
      /\ rep'.checks = [c \in AwsChecks |-> WithResult(rep.checks[c], x, results[c])]
      /\ rep'.orgWarning = rep.orgWarning
      /\ UNCHANGED <<rep.account, rep.scopeVerified, rep.orgVerified, rep.noOrg, rep.orgId,
                     rep.listed, rep.summary, rep.scopes>>
  BY <1>1 DEF ScanInv, ReportInv, IsRep
<1>3. pc = "accounts"
  BY DEF ScanAccount
<1> QED BY <1>1, <1>2, <1>3, VisitKeeps

LEMMA MemberRoleRefusedKeeps == ScanInv /\ MemberRoleRefused => ScanInv'
<1> SUFFICES ASSUME ScanInv, MemberRoleRefused PROVE ScanInv'
  OBVIOUS
<1>1. PICK x \in todo \ {Unknown, Management} :
         /\ rep' = [rep EXCEPT
                !.orgWarning = TRUE,
                !.checks = [c \in AwsChecks |-> WithResult(@[c], x, "error")]]
         /\ Visited(x)
  BY DEF MemberRoleRefused
<1> DEFINE results == [c \in AwsChecks |-> "error"]
<1>2. /\ IsRep(rep') /\ rep'.scanned = rep.scanned /\ rep'.orgWarning
      /\ rep'.checks = [c \in AwsChecks |-> WithResult(rep.checks[c], x, results[c])]
      /\ UNCHANGED <<rep.account, rep.scopeVerified, rep.orgVerified, rep.noOrg, rep.orgId,
                     rep.listed, rep.summary, rep.scopes>>
  BY <1>1 DEF ScanInv, ReportInv, IsRep
<1>3. pc = "accounts" /\ results \in [AwsChecks -> Statuses]
  BY DEF MemberRoleRefused, Statuses
<1> QED BY <1>1, <1>2, <1>3, VisitKeeps

LEMMA AggregateKeeps == ScanInv /\ Aggregate => ScanInv'
<1> SUFFICES ASSUME ScanInv, Aggregate PROVE ScanInv'
  OBVIOUS
<1>1. /\ pc = "aggregate" /\ pc' = "providers" /\ todo' = todo /\ todo = {} /\ Visiting
      /\ rep' = [rep EXCEPT !.summary =
                    [c \in AwsChecks |-> AggregateAccountResults(rep.checks[c])]]
  BY DEF Aggregate, ScanInv, VisitInv, Visiting
<1>2. /\ IsRep(rep')
      /\ rep'.summary = [c \in AwsChecks |-> AggregateAccountResults(rep.checks[c])]
      /\ UNCHANGED <<rep.account, rep.scopeVerified, rep.orgVerified, rep.noOrg, rep.orgId,
                     rep.orgWarning, rep.listed, rep.scanned, rep.checks, rep.scopes>>
  BY <1>1 DEF ScanInv, ReportInv, IsRep
<1>3. Boundary' = Boundary /\ IsFiniteSet(Boundary)
  <2>1. Boundary \subseteq Accounts \cup {Unknown}
    BY AccountsAssumption DEF Boundary, ScanInv, ReportInv
  <2>2. IsFiniteSet(Accounts \cup {Unknown})
    BY AccountsAssumption, FS_AddElement
  <2> QED BY <1>2, <2>1, <2>2, FS_Subset DEF Boundary
<1>4. DOMAIN rep.checks = AwsChecks
  BY <1>1 DEF ScanInv, ProvidersInv, Gathering
<1>5. ASSUME NEW c \in AwsChecks
      PROVE  /\ Range(rep.checks[c]) \subseteq Statuses
             /\ rep'.summary[c] = Worst(Range(rep.checks[c]))
  <2>1. /\ DOMAIN rep.checks[c] = Boundary
        /\ \A x \in Boundary : rep.checks[c][x] \in Statuses
    BY <1>1 DEF ScanInv, VisitInv
  <2>2. Range(rep.checks[c]) \subseteq Statuses
    BY <2>1 DEF Range
  <2>3. AggregateAccountResults(rep.checks[c]) = Worst(Range(rep.checks[c]))
    BY <1>3, <2>1, <2>2, AggregateIsWorst
  <2> QED BY <1>2, <2>2, <2>3
<1>6. SummaryInv'
  <2>1. DOMAIN rep'.summary = AwsChecks /\ rep'.checks = rep.checks
    BY <1>2
  <2> QED BY <1>4, <1>5, <2>1 DEF SummaryInv
<1>7. ReportInv' /\ OrganizationInv' /\ AwsReportAccepted'
  BY <1>1, <1>2 DEF ScanInv, ReportInv, OrganizationInv, Visiting, AwsReportAccepted
<1>8. VisitInv'
  BY <1>1, <1>2, <1>3 DEF ScanInv, VisitInv, Visiting
<1>9. ProvidersInv'
  BY <1>1, <1>2 DEF ScanInv, ProvidersInv, Gathering, Complete
<1> QED BY <1>6, <1>7, <1>8, <1>9 DEF ScanInv

LEMMA ScanProviderKeeps == ASSUME NEW p \in Providers PROVE ScanInv /\ ScanProvider(p) => ScanInv'
<1> SUFFICES ASSUME ScanInv, ScanProvider(p) PROVE ScanInv'
  OBVIOUS
<1> DEFINE C == ChecksOf[p]
<1> DEFINE NewRep(listed, results) ==
              [rep EXCEPT
                 !.checks = WithResults(C, results),
                 !.summary = [c \in DOMAIN rep.checks \cup C |->
                                 IF c \in C THEN AggregateAccountResults(results[c])
                                 ELSE rep.summary[c]],
                 !.scopes[p] = [listed |-> listed, scanned |-> Complete(p, listed, results)]]
<1>0. PICK listed \in (SUBSET Units[p]) \ {{}} :
         \E results \in [C -> [listed -> Statuses]] : rep' = NewRep(listed, results)
  BY DEF ScanProvider
<1>1. PICK results \in [C -> [listed -> Statuses]] : rep' = NewRep(listed, results)
  BY <1>0
<1>2. pc = "providers" /\ UNCHANGED <<pc, todo>> /\ Visiting /\ ~Gathering
  BY DEF ScanProvider, Visiting, Gathering
<1>3. /\ IsRep(rep')
      /\ rep'.checks = WithResults(C, results)
      /\ rep'.summary = [c \in DOMAIN rep.checks \cup C |->
                              IF c \in C THEN AggregateAccountResults(results[c])
                              ELSE rep.summary[c]]
      /\ rep'.scopes = [rep.scopes EXCEPT ![p] = [listed |-> listed,
                                                 scanned |-> Complete(p, listed, results)]]
      /\ UNCHANGED <<rep.account, rep.scopeVerified, rep.orgVerified, rep.noOrg, rep.orgId,
                     rep.orgWarning, rep.listed, rep.scanned>>
  BY <1>1 DEF ScanInv, ReportInv, IsRep
<1>4. /\ DOMAIN rep'.checks = DOMAIN rep.checks \cup C
      /\ \A c \in C : rep'.checks[c] = results[c]
      /\ \A c \in DOMAIN rep.checks \ C : rep'.checks[c] = rep.checks[c]
  BY <1>3 DEF WithResults
<1>5. /\ DOMAIN rep'.scopes = Providers
      /\ rep'.scopes[p].listed = listed
      /\ rep'.scopes[p].scanned = Complete(p, listed, results)
      /\ \A q \in Providers \ {p} : rep'.scopes[q] = rep.scopes[q]
  BY <1>3 DEF ScanInv, ProvidersInv
<1>6. /\ C \cap AwsChecks = {} /\ AwsChecks \subseteq DOMAIN rep.checks
      /\ \A q \in Providers \ {p} : ChecksOf[q] \cap C = {}
      /\ IsFiniteSet(listed)
  BY ProvidersAssumption, FS_Subset DEF ScanInv, ProvidersInv
<1>7. Boundary' = Boundary
  BY <1>3 DEF Boundary
<1>8. ReportInv' /\ OrganizationInv' /\ AwsReportAccepted'
  BY <1>2, <1>3 DEF ScanInv, ReportInv, OrganizationInv, Visiting, AwsReportAccepted
<1>9. VisitInv'
  <2>1. \A c \in AwsChecks : rep'.checks[c] = rep.checks[c]
    BY <1>4, <1>6
  <2> QED BY <1>2, <1>3, <1>7, <2>1 DEF ScanInv, VisitInv, Visiting
<1>10. SummaryInv'
  <2>1. DOMAIN rep'.summary = DOMAIN rep'.checks
    BY <1>3, <1>4
  <2>2. ASSUME NEW c \in C
        PROVE  /\ Range(rep'.checks[c]) \subseteq Statuses
               /\ rep'.summary[c] = Worst(Range(rep'.checks[c]))
    <3>1. results[c] \in [listed -> Statuses] /\ rep'.checks[c] = results[c]
      BY <1>4
    <3>2. Range(results[c]) \subseteq Statuses /\ DOMAIN results[c] = listed
      BY <3>1 DEF Range
    <3>3. AggregateAccountResults(results[c]) = Worst(Range(results[c]))
      BY <1>6, <3>2, AggregateIsWorst
    <3>4. rep'.summary[c] = AggregateAccountResults(results[c])
      BY <1>3
    <3> QED BY <3>1, <3>2, <3>3, <3>4
  <2>3. ASSUME NEW c \in DOMAIN rep.checks \ C
        PROVE  rep'.checks[c] = rep.checks[c] /\ rep'.summary[c] = rep.summary[c]
    BY <1>3, <1>4
  <2>4. \A c \in DOMAIN rep.checks : /\ Range(rep.checks[c]) \subseteq Statuses
                                   /\ rep.summary[c] = Worst(Range(rep.checks[c]))
    BY <1>2 DEF ScanInv, SummaryInv
  <2>5. ASSUME NEW c \in DOMAIN rep'.checks
        PROVE  /\ Range(rep'.checks[c]) \subseteq Statuses
               /\ rep'.summary[c] = Worst(Range(rep'.checks[c]))
    BY <1>4, <2>2, <2>3, <2>4
  <2> QED BY <2>1, <2>5 DEF SummaryInv
<1>11. ProvidersInv'
  <2>1. rep'.scopes[p] # NoScope
    <3>1. NoScope.listed = {}
      BY DEF NoScope
    <3>2. listed # {}
      OBVIOUS
    <3> HIDE DEF NoScope
    <3> QED BY <1>5, <3>1, <3>2
  <2>2. /\ rep'.scopes[p].listed \in (SUBSET Units[p]) \ {{}}
        /\ C \subseteq DOMAIN rep'.checks
        /\ \A c \in C : DOMAIN rep'.checks[c] = rep'.scopes[p].listed
        /\ rep'.scopes[p].scanned = Complete(p, rep'.scopes[p].listed, rep'.checks)
    BY <1>4, <1>5 DEF Complete
  <2>3. ASSUME NEW q \in Providers \ {p}, rep'.scopes[q] # NoScope
        PROVE  /\ rep'.scopes[q].listed \in (SUBSET Units[q]) \ {{}}
               /\ ChecksOf[q] \subseteq DOMAIN rep'.checks
               /\ \A c \in ChecksOf[q] : DOMAIN rep'.checks[c] = rep'.scopes[q].listed
               /\ rep'.scopes[q].scanned = Complete(q, rep'.scopes[q].listed, rep'.checks)
    <3>1. /\ rep.scopes[q].listed \in (SUBSET Units[q]) \ {{}}
          /\ ChecksOf[q] \subseteq DOMAIN rep.checks
          /\ \A c \in ChecksOf[q] : DOMAIN rep.checks[c] = rep.scopes[q].listed
          /\ rep.scopes[q].scanned = Complete(q, rep.scopes[q].listed, rep.checks)
      BY <1>5, <2>3 DEF ScanInv, ProvidersInv
    <3>2. \A c \in ChecksOf[q] : rep'.checks[c] = rep.checks[c]
      BY <1>4, <1>6, <3>1
    <3>3. Complete(q, rep.scopes[q].listed, rep.checks)
             = Complete(q, rep.scopes[q].listed, rep'.checks)
      BY <3>2 DEF Complete
    <3> QED BY <1>4, <1>5, <3>1, <3>2, <3>3
  <2>4. ASSUME NEW c \in DOMAIN rep'.checks \ AwsChecks
        PROVE  \E q \in Providers : c \in ChecksOf[q] /\ rep'.scopes[q] # NoScope
    <3>1. CASE c \in C
      BY <2>1, <3>1
    <3>2. CASE c \in DOMAIN rep.checks
      <4>1. PICK q \in Providers : c \in ChecksOf[q] /\ rep.scopes[q] # NoScope
        BY <2>4, <3>2 DEF ScanInv, ProvidersInv
      <4>2. rep'.scopes[q] # NoScope
        BY <1>5, <2>1, <4>1
      <4> QED BY <4>1, <4>2
    <3> QED BY <1>4, <3>1, <3>2
  <2> QED BY <1>2, <1>4, <1>5, <1>6, <2>1, <2>2, <2>3, <2>4 DEF ProvidersInv, Gathering
<1> QED BY <1>8, <1>9, <1>10, <1>11 DEF ScanInv

\* Nothing is altered but where the scan stands.
LEMMA MoveOnKeeps ==
    ASSUME ScanInv, UNCHANGED <<rep, todo>>, pc \notin {"identify", "organization", "accounts"},
           pc' \notin {"identify", "organization", "accounts"}, Gathering <=> Gathering',
           AwsReportAccepted'
    PROVE  ScanInv'
<1>1. Visiting /\ Visiting' /\ Boundary' = Boundary
  BY DEF Visiting, Boundary
<1>2. ReportInv' /\ OrganizationInv' /\ SummaryInv'
  BY <1>1 DEF ScanInv, ReportInv, OrganizationInv, SummaryInv
<1>3. VisitInv'
  BY <1>1 DEF ScanInv, VisitInv
<1>4. ProvidersInv'
  BY DEF ScanInv, ProvidersInv, Complete
<1> QED BY <1>2, <1>3, <1>4 DEF ScanInv

LEMMA HandleCreateVerdictKeeps == ScanInv /\ HandleCreateVerdict => ScanInv'
<1> SUFFICES ASSUME ScanInv, HandleCreateVerdict PROVE ScanInv'
  OBVIOUS
<1>1. /\ pc = "sealed" /\ pc' \in {"accepted", "rejected"} /\ UNCHANGED <<rep, todo>>
      /\ todo = {} /\ Visiting
  BY DEF HandleCreateVerdict, ScanInv, VisitInv, Visiting
<1>2. ASSUME rep.account # Unknown, \A p \in Providers : rep.scopes[p] = NoScope
      PROVE  pc' = "accepted"
  <2>1. rep.account = Management /\ rep.scopeVerified
    BY <1>2 DEF ScanInv, ReportInv
  <2>2. Management \in Boundary
    BY <2>1 DEF ScanInv, OrganizationInv, Boundary
  <2>3. Management \in rep.scanned
    BY <1>1, <2>2 DEF ScanInv, VisitInv
  <2>4. CASE ~rep.orgVerified
    <3>1. ValidateOrganizationScope
      BY <1>1, <2>3, <2>4 DEF ScanInv, OrganizationInv, ValidateOrganizationScope
    <3> QED BY <1>2, <2>1, <3>1 DEF HandleCreateVerdict
  <2>5. CASE rep.orgVerified
    <3>1. rep.scanned \subseteq rep.listed /\ Management \in rep.listed
      BY <1>1, <2>2, <2>5 DEF ScanInv, VisitInv, Boundary
    <3>2. IF rep.noOrg THEN ~rep.orgId /\ Cardinality(rep.listed) = 1 ELSE rep.orgId
      BY <2>5, FS_Singleton DEF ScanInv, OrganizationInv
    <3>3. DOMAIN rep.checks = AwsChecks
      BY <1>2 DEF ScanInv, ProvidersInv
    <3>4. \A c \in AwsChecks : DOMAIN rep.checks[c] = rep.listed
      BY <1>1, <2>5 DEF ScanInv, VisitInv, Boundary
    <3>5. Covers(DOMAIN rep.checks, rep.listed)
      BY <3>3, <3>4 DEF Covers
    <3>6. ValidateOrganizationScope
      BY <1>2, <2>3, <2>5, <3>1, <3>2, <3>5 DEF ValidateOrganizationScope, ProviderScopeHolds
    <3> QED BY <1>2, <2>1, <3>6 DEF HandleCreateVerdict
  <2> QED BY <2>4, <2>5
<1>3. AwsReportAccepted'
  BY <1>1, <1>2 DEF AwsReportAccepted
<1> QED BY <1>1, <1>3, MoveOnKeeps DEF Gathering

LEMMA NextScan == ScanInv /\ [Next]_vars => ScanInv'
<1> SUFFICES ASSUME ScanInv, [Next]_vars PROVE ScanInv'
  OBVIOUS
<1>1. CASE Identify
  BY <1>1, IdentifyKeeps
<1>2. CASE OrganizationListed \/ OrganizationNotInUse \/ OrganizationUnverified
  BY <1>2, OrganizationKeeps
<1>3. CASE ScanAccount
  BY <1>3, ScanAccountKeeps
<1>4. CASE MemberRoleRefused
  BY <1>4, MemberRoleRefusedKeeps
<1>5. CASE Aggregate
  BY <1>5, AggregateKeeps
<1>6. ASSUME NEW p \in Providers, ScanProvider(p) PROVE ScanInv'
  BY <1>6, ScanProviderKeeps
<1>7. CASE ProviderFails \/ Attest
  <2>1. /\ pc = "providers" /\ pc' \in {"failed", "sealed"} /\ UNCHANGED <<rep, todo>>
    BY <1>7 DEF ProviderFails, Attest
  <2> QED BY <2>1, MoveOnKeeps DEF Gathering, AwsReportAccepted
<1>8. CASE HandleCreateVerdict
  BY <1>8, HandleCreateVerdictKeeps
<1>9. CASE UNCHANGED vars
  BY <1>9 DEF vars, ScanInv, ReportInv, OrganizationInv, VisitInv, SummaryInv, ProvidersInv,
              AwsReportAccepted, Visiting, Gathering, Boundary, Complete
<1>10. CASE Done
  BY <1>9, <1>10 DEF Done
<1> QED BY <1>1, <1>2, <1>3, <1>4, <1>5, <1>6, <1>7, <1>8, <1>9, <1>10 DEF Next

LEMMA ScanInvHolds == FillSpec => []ScanInv
<1>1. FillInit => ScanInv
  BY InitScan DEF FillInit
<1>2. ScanInv /\ [FillNext]_<<vars, sheetVars>> => ScanInv'
  BY NextScan DEF FillNext, Autofill, vars
<1> QED BY <1>1, <1>2, PTL DEF FillSpec
-----------------------------------------------------------------------------
\* For an organization of any size: each control of a sealed report has a result
\* for exactly the accounts listed, and is an error as soon as one of them could
\* not be entered (run in cmd/scanner/main.go, aggregateAccountResults).
THEOREM NoUnseenAccountLooksClean == FillSpec => []NothingUnseenLooksClean
<1>1. ASSUME ScanInv PROVE NothingUnseenLooksClean
  <2> SUFFICES ASSUME Finished, rep.orgVerified, NEW c \in AwsChecks
               PROVE  /\ DOMAIN rep.checks[c] = rep.listed
                      /\ rep.scanned # rep.listed =>
                            rep.summary[c] = "error" /\ rep.orgWarning
    BY DEF NothingUnseenLooksClean
  <2>1. /\ Visiting /\ ~Gathering /\ todo = {} /\ Boundary = rep.listed
        /\ rep.listed \subseteq Accounts
    BY <1>1 DEF Finished, Visiting, Gathering, ScanInv, VisitInv, Boundary, ReportInv
  <2>2. /\ DOMAIN rep.checks[c] = rep.listed /\ rep.scanned \subseteq rep.listed
        /\ \A x \in rep.listed \ rep.scanned :
              x # Unknown => rep.checks[c][x] = "error" /\ rep.orgWarning
    BY <1>1, <2>1 DEF ScanInv, VisitInv
  <2>3. ASSUME rep.scanned # rep.listed
        PROVE  rep.summary[c] = "error" /\ rep.orgWarning
    <3>1. PICK x \in rep.listed : x \notin rep.scanned
      BY <2>2, <2>3
    <3>2. x # Unknown
      BY <2>1, AccountsAssumption
    <3>3. rep.checks[c][x] = "error" /\ rep.orgWarning
      BY <2>2, <3>1, <3>2
    <3>4. "error" \in Range(rep.checks[c])
      BY <2>2, <3>3 DEF Range
    <3>5. rep.summary[c] = Worst(Range(rep.checks[c]))
      BY <1>1, <2>1 DEF ScanInv, SummaryInv, ProvidersInv
    <3> QED BY <3>3, <3>4, <3>5 DEF Worst
  <2> QED BY <2>2, <2>3
<1> QED BY <1>1, ScanInvHolds, PTL

\* What the scanner assembles of AWS alone is what the backend asks for: for no
\* organization is the report of a known account refused because of its scope
\* (run in cmd/scanner/main.go, validateOrganizationScope).
THEOREM AwsReportsAreAccepted == FillSpec => []AwsReportAccepted
<1>1. ScanInv => AwsReportAccepted
  BY DEF ScanInv
<1> QED BY <1>1, ScanInvHolds, PTL

\* The claims of the page, computed from summaries and counts, hold of every
\* account and project (summarizeCoverage and its likes, deriveAIPosture).
THEOREM ClaimsAreObserved == FillSpec => []ClaimsObserved
<1>1. ASSUME ScanInv PROVE ClaimsObserved
  <2> SUFFICES ASSUME pc = "accepted" PROVE ClaimsObserved
    BY DEF ClaimsObserved
  <2>1. /\ Visiting /\ ~Gathering /\ todo = {} /\ rep.listed \subseteq Accounts
        /\ IsFiniteSet(rep.listed)
    BY <1>1, AccountsAssumption, FS_Subset DEF Visiting, Gathering, ScanInv, VisitInv, ReportInv
  <2>2. ASSUME rep.orgVerified
        PROVE  /\ rep.scanned \subseteq rep.listed
               /\ \A c \in AwsChecks :
                     /\ DOMAIN rep.checks[c] = rep.listed
                     /\ \A x \in rep.listed :
                           /\ rep.checks[c][x] \in Statuses
                           /\ x \notin rep.scanned => rep.checks[c][x] = "error"
    <3>1. Boundary = rep.listed /\ \A x \in rep.listed : x # Unknown
      BY <2>1, <2>2, AccountsAssumption DEF Boundary
    <3> QED BY <1>1, <2>1, <3>1 DEF ScanInv, VisitInv
  <2>3. ASSUME CoverageComplete, NEW c \in AwsChecks
        PROVE  DOMAIN rep.checks[c] = rep.scanned
    <3>1. rep.orgVerified /\ Cardinality(rep.scanned) = Cardinality(rep.listed)
      BY <2>3 DEF CoverageComplete
    <3>2. rep.scanned = rep.listed
      BY <2>1, <2>2, <3>1, FS_Subset
    <3> QED BY <2>2, <3>1, <3>2
  <2>4. ASSUME NEW p \in Providers, ProviderComplete(p), NEW c \in ChecksOf[p]
        PROVE  /\ rep.scopes[p].listed \subseteq DOMAIN rep.checks[c]
               /\ "error" \notin Range(rep.checks[c])
    <3>1. rep.scopes[p] # NoScope
      BY <2>4 DEF ProviderComplete, NoScope
    <3>2. /\ rep.scopes[p].listed \in (SUBSET Units[p]) \ {{}}
          /\ DOMAIN rep.checks[c] = rep.scopes[p].listed
          /\ rep.scopes[p].scanned = Complete(p, rep.scopes[p].listed, rep.checks)
      BY <1>1, <3>1 DEF ScanInv, ProvidersInv
    <3>3. rep.scopes[p].scanned \subseteq rep.scopes[p].listed
      BY <3>2 DEF Complete
    <3>4. IsFiniteSet(rep.scopes[p].listed)
      BY <3>2, ProvidersAssumption, FS_Subset
    <3>5. Cardinality(rep.scopes[p].scanned) = Cardinality(rep.scopes[p].listed)
      BY <2>4 DEF ProviderComplete
    <3>6. rep.scopes[p].scanned = rep.scopes[p].listed
      BY <3>3, <3>4, <3>5, FS_Subset
    <3>7. \A u \in rep.scopes[p].listed : rep.checks[c][u] # "error"
      BY <3>2, <3>6 DEF Complete
    <3> QED BY <3>2, <3>7 DEF Range
  <2>5. ASSUME PostureClear, rep.orgVerified, NEW c \in PersistentChecks, NEW x \in rep.listed
        PROVE  x \in rep.scanned /\ rep.checks[c][x] = "not_in_use"
    <3>1. c \in AwsChecks
      BY MappingsAssumption
    <3>2. Range(rep.checks[c]) \cap {"pass", "fail"} = {} /\ rep.summary[c] # "error"
      BY <2>5 DEF PostureClear
    <3>3. rep.checks[c][x] \in Range(rep.checks[c]) /\ rep.checks[c][x] \in Statuses
      BY <2>2, <2>5, <3>1 DEF Range
    <3>4. "error" \notin Range(rep.checks[c])
      <4>1. rep.summary[c] = Worst(Range(rep.checks[c]))
        BY <1>1, <2>1, <3>1 DEF ScanInv, SummaryInv, ProvidersInv
      <4> QED BY <3>2, <4>1 DEF Worst
    <3> QED BY <2>2, <2>5, <3>1, <3>2, <3>3, <3>4 DEF Statuses
  <2> QED BY <2>3, <2>4, <2>5 DEF ClaimsObserved
<1> QED BY <1>1, ScanInvHolds, PTL
=============================================================================
