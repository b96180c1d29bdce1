----------------------------- MODULE ScopeDrift -----------------------------
(***************************************************************************)
(* What changed between two reports: the account inventory (internal/scope,*)
(* web/src/verify/scope.ts) and one control (internal/diff,                *)
(* web/src/verify/diff.ts).  The Go packages and their TypeScript mirrors  *)
(* compute the same sets of events; the order in which a page lists them   *)
(* is left out, the severity that groups them is not.                      *)
(***************************************************************************)
EXTENDS Integers, FiniteSets

\* scopeSeverity: a new account without the scanner's role needs attention.
Added(x, cur) ==
    [kind |-> "account_added", account |-> x,
     severity |-> IF x \in cur.scanned THEN "neutral" ELSE "regression"]

Removed(x) ==
    [kind |-> "account_removed", account |-> x, severity |-> "neutral"]

\* scanned / listed went down, as a comparison of fractions.
RatioDropped(prev, cur) ==
    /\ prev.listed # {} /\ cur.listed # {}
    /\ Cardinality(cur.scanned) * Cardinality(prev.listed)
         < Cardinality(prev.scanned) * Cardinality(cur.listed)

Detect(prev, cur) ==
    IF prev.listed = {} /\ prev.scanned = {} THEN {}
    ELSE {Added(x, cur) : x \in cur.listed \ prev.listed}
         \cup {Removed(x) : x \in prev.listed \ cur.listed}
         \cup IF RatioDropped(prev, cur)
              THEN {[kind |-> "coverage_decreased", severity |-> "regression"]}
              ELSE {}

\* isOrganizationAwareSnapshot: the ratio means something only for a scan that
\* enumerated an organization.
OrganizationAware(snap) == snap.org = "verified" /\ snap.listed # {}

\* The mark of ScopeTimeline at a scan that follows prior.
Flagged(prior, snap) ==
    OrganizationAware(prior) /\ OrganizationAware(snap) /\ RatioDropped(prior, snap)
-----------------------------------------------------------------------------
Bad == {"fail", "error"}

StatusSeverity(old, new) ==
    IF new \in Bad THEN "regression"
    ELSE IF old \in Bad THEN "improvement" ELSE "neutral"

StatusChanged(x, old, new) ==
    IF new.status = old.status THEN {}
    ELSE {[kind |-> "status_changed", account |-> x, previous |-> old.status,
           current |-> new.status,
           severity |-> StatusSeverity(old.status, new.status)]}

\* setDifference, both ways.
FindingsChanged(x, old, new) ==
    {[kind |-> "new_finding", account |-> x, finding |-> f,
      severity |-> "regression"] : f \in new.findings \ old.findings}
    \cup {[kind |-> "resolved_finding", account |-> x, finding |-> f,
           severity |-> "improvement"] : f \in old.findings \ new.findings}

\* The changes of one control; old and new map the accounts that each report
\* has a result for to [status, findings].
DiffReports(old, new) ==
    UNION {StatusChanged(x, old[x], new[x]) \cup FindingsChanged(x, old[x], new[x]) :
               x \in DOMAIN old \cap DOMAIN new}
=============================================================================
