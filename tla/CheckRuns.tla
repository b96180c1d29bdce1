----------------------------- MODULE CheckRuns -----------------------------
(***************************************************************************)
(* One check at work on one account: RunAcrossRegionsDetailed and the      *)
(* loops of internal/checks, internal/gcp, internal/azure and              *)
(* internal/supabase.  A check is a record of module Controls; it asks for *)
(* a list page by page and for each item what it needs to judge it, while  *)
(* the account goes on changing.  Before, the scan has written down, from  *)
(* the management account, which regions it will cover (run in             *)
(* cmd/scanner/main.go).                                                   *)
(*                                                                         *)
(* A list is served in a fixed order, a token names the last item served;  *)
(* any call may fail.                                                      *)
(***************************************************************************)
EXTENDS Naturals, FiniteSets, Sequences, Functions

CONSTANTS
    Checks,        \* their records; those that are alike are one
    Regions,       \* numbers: the order in which a check visits them
    Items,         \* numbers: the order in which a list names them
    Home,          \* item -> its region
    Accounts,      \* the accounts of the scan
    Management,    \* the one of the scanner's credentials
    PageSize,      \* items on a page
    MaxChanges     \* bound: changes of the account during the check

ASSUME RegionsAssumption ==
    Regions \subseteq Nat /\ IsFiniteSet(Regions) /\ Regions # {}
ASSUME ItemsAssumption == Items \subseteq Nat \ {0} /\ IsFiniteSet(Items)
ASSUME HomeAssumption == Home \in [Items -> Regions]
ASSUME AccountsAssumption == Management \in Accounts
ASSUME BoundsAssumption == PageSize \in Nat \ {0} /\ MaxChanges \in Nat

\* What a check may be.  A failing call in a region ends no more than the region
\* (RunAcrossRegionsDetailed); where an empty first page is taken to mean that
\* there is nothing, everything counts; a check asks on only while there is
\* something left to ask, and understands every answer the account can then give;
\* it does not go back on an early finding.
IsCheck(c) ==
    /\ c.units \in {"regions", "account"}
    /\ c.units = "regions" => c.onError = "unit"
    /\ c.pages \in {"every", "first", "whole", "one"}
    /\ c.empty \in {"nothing", "finding", "not_in_use", "probe"}
    /\ c.pages = "first" =>
           \/ c.empty = "nothing"
           \/ c.empty = "finding" /\ \A said \in DOMAIN c.judge : c.judge[said] # "skip"
    /\ \A said \in DOMAIN c.judge :
           /\ said \in Seq(Range(said)) /\ Len(said) \in 1..Len(c.replies)
           /\ \A n \in 1..Len(said) : SubSeq(said, 1, n) \in DOMAIN c.judge
           /\ c.judge[said] \in {"more", "good", "bad", "skip", "odd"}
           /\ c.judge[said] = "more" =>
                  /\ Len(said) < Len(c.replies)
                  /\ \A t \in DOMAIN c.judge : Len(t) = Len(c.replies) =>
                         Append(said, t[Len(said) + 1]) \in DOMAIN c.judge
    /\ \A said \in c.early : \A t \in DOMAIN c.judge :
           Len(said) <= Len(t) /\ SubSeq(t, 1, Len(said)) = said =>
               c.judge[t] \in {"more", "bad"}

ASSUME ChecksAssumption == \A c \in Checks : IsCheck(c)

Absent == << >>
Least(S) == CHOOSE x \in S : \A y \in S : x <= y

VARIABLES
    control,       \* the check
    account,       \* the account it runs in
    requested,     \* --regions
    enabled,       \* account -> the regions that it has enabled
    world,         \* item -> what it would answer each call, or Absent
    usage,         \* region -> idle, active, or unsupported (no service)
    changes,       \* changes so far
    steady,        \* items and regions that have not changed
    pc,            \* claim, begin, units, list, items, empty, done
    claimed,       \* rep.ScannedRegions
    todo,          \* regions selected and not visited
    here,          \* the region being visited: its token, page and findings
    total,         \* what was found, what failed, what was counted
    status,
    broken         \* ghost: a call failed, or an answer made no sense

account_vars == <<enabled, world, usage, changes, steady>>
vars == <<control, account, requested, enabled, world, usage, changes, steady,
          pc, claimed, todo, here, total, status, broken>>
-----------------------------------------------------------------------------
\* An account-wide check is one pass that sees the items of one place.
Units ==
    IF control.units = "regions" THEN Regions ELSE {Least(Regions)}

\* The items that a check can meet; a setting is one item that is always there.
Meets(i) ==
    /\ Home[i] \in Units
    /\ control.pages = "one" => i = Least({j \in Items : Home[j] = Home[i]})

\* What an item can be: an answer to every call.
Things ==
    {t \in DOMAIN control.judge : Len(t) = Len(control.replies)}

\* The check's judgement of an item that answers all it is asked as it is now.
Verdict(thing) ==
    LET asked == {n \in 1..Len(thing) :
                      control.judge[SubSeq(thing, 1, n)] # "more"}
    IN  control.judge[SubSeq(thing, 1, Least(asked))]

Present(u) == {i \in Items : Home[i] = u /\ world[i] # Absent}

Nowhere == [unit |-> Least(Regions), token |-> 0, more |-> FALSE,
            page |-> << >>, found |-> {}, counted |-> 0]
-----------------------------------------------------------------------------
Init ==
    /\ control \in Checks
    /\ account \in Accounts
    /\ requested \in IF control.units = "regions" THEN (SUBSET Regions) \ {{}}
                                                  ELSE {Regions}
    /\ enabled \in IF control.units = "regions" THEN [Accounts -> SUBSET Regions]
                                                ELSE {[a \in Accounts |-> Regions]}
    /\ usage \in [Regions -> IF control.empty = "probe" THEN {"idle", "active"}
                             ELSE IF control.gaps THEN {"idle", "unsupported"}
                             ELSE {"idle"}]
    /\ world \in {w \in [Items -> Things \cup {Absent}] :
           \A i \in Items :
              IF ~Meets(i) \/ usage[Home[i]] = "unsupported"
              THEN w[i] = Absent
              ELSE control.pages = "one" => w[i] # Absent}
    /\ changes = 0
    /\ steady = [items |-> Items, regions |-> Regions]
    /\ pc = "claim" /\ claimed = {} /\ todo = {} /\ here = Nowhere
    /\ total = [findings |-> {}, noneFound |-> {}, visited |-> {}, failed |-> {},
                lost |-> {}, counted |-> 0, good |-> FALSE]
    /\ status = "none"
    /\ broken = FALSE

(* The account changes under the check. *)

ItemChanges(i) ==
    \E t \in Things \cup {Absent} :
        /\ Meets(i) /\ usage[Home[i]] # "unsupported"
        /\ t # world[i]
        /\ control.pages = "one" => t # Absent
        /\ world' = [world EXCEPT ![i] = t]
        /\ steady' = [steady EXCEPT !.items = @ \ {i}]
        /\ UNCHANGED <<enabled, usage>>

RegionChanges(u) ==
    /\ \/ /\ control.units = "regions"
          /\ \E a \in Accounts : enabled' =
                 [enabled EXCEPT ![a] = IF u \in @ THEN @ \ {u} ELSE @ \cup {u}]
          /\ UNCHANGED usage
       \/ /\ control.empty = "probe"
          /\ usage' = [usage EXCEPT ![u] = IF @ = "idle" THEN "active" ELSE "idle"]
          /\ UNCHANGED enabled
    /\ steady' = [steady EXCEPT !.regions = @ \ {u}]
    /\ UNCHANGED world

AccountChanges ==
    /\ pc # "done"
    /\ changes < MaxChanges
    /\ changes' = changes + 1
    /\ \/ \E i \in Items : ItemChanges(i)
       \/ \E u \in Regions : RegionChanges(u)
    /\ UNCHANGED <<control, account, requested, pc, claimed, todo, here, total, status, broken>>
-----------------------------------------------------------------------------
(* The regions. *)

IntersectRequestedRegions(wanted, on) == wanted \cap on

\* run records the regional scope, as the management account has it; a
\* failure is a warning in the report.
ClaimRegions ==
    /\ pc = "claim" /\ control.units = "regions"
    /\ pc' = "begin"
    /\ \/ claimed' = IntersectRequestedRegions(requested, enabled[Management])
       \/ claimed' = {}
    /\ UNCHANGED <<control, account, requested, account_vars, todo, here, total,
                   status, broken>>

Stop(s) == pc' = "done" /\ status' = s

\* EnabledRegions, with the credentials of the account.
ListRegions ==
    /\ pc = "begin"
    /\ todo' = IntersectRequestedRegions(requested, enabled[account])
    /\ IF todo' = {} THEN Stop("error") ELSE pc' = "units" /\ UNCHANGED status
    /\ UNCHANGED <<control, account, requested, account_vars, claimed, here, total, broken>>

ListRegionsFails ==
    /\ pc = "begin"
    /\ Stop("error") /\ broken' = TRUE
    /\ UNCHANGED <<control, account, requested, account_vars, claimed, todo, here, total>>

EnterAccount ==
    /\ pc = "claim" /\ control.units = "account"
    /\ todo' = Units
    /\ pc' = "units"
    /\ UNCHANGED <<control, account, requested, account_vars, claimed, here, total,
                   status, broken>>

EnterUnit ==
    /\ pc = "units" /\ todo # {}
    /\ here' = [Nowhere EXCEPT !.unit = Least(todo)]
    /\ todo' = todo \ {Least(todo)}
    /\ total' = [total EXCEPT !.visited = @ \cup {Least(todo)}]
    /\ pc' = "list"
    /\ UNCHANGED <<control, account, requested, account_vars, claimed, status, broken>>
-----------------------------------------------------------------------------
(* A call fails: what that ends depends on the check. *)

\* Mutant: the error of a region is not kept.
EndUnitSilently == pc' = "units" /\ UNCHANGED <<here, total, status>>

\* regionsByErrorMessage[msg] = ...; continue
EndUnit ==
    /\ pc' = "units"
    /\ total' = [total EXCEPT !.failed = @ \cup {here.unit}]
    /\ UNCHANGED <<here, status>>

EndRun(findings) ==
    /\ Stop("error")
    /\ total' = [total EXCEPT !.findings = findings, !.failed = @ \cup {here.unit}]
    /\ UNCHANGED here

\* What a check reports of a setting that it could not read.
Unread ==
    IF control.unread = "finding"
    THEN {i \in Items : Meets(i) /\ Home[i] = here.unit} ELSE {}

\* A list that fails, or an item when its check goes no further without it.
Fails ==
    /\ broken' = TRUE
    /\ \/ control.onError = "unit" /\ EndUnit
       \/ control.onError = "keep" /\ EndRun(here.found \cup Unread)
       \/ control.onError \in {"drop", "item"} /\ EndRun(Unread)

\* errs = append(errs, ...); continue.  An early finding has been noted.
NextItem ==
    /\ here' = [here EXCEPT
           !.page = Tail(@), !.counted = @ + 1,
           !.found = @ \cup IF Head(here.page).said \in control.early
                            THEN {Head(here.page).item} ELSE {}]
    /\ total' = [total EXCEPT !.lost = @ \cup {Head(here.page).item}]
    /\ broken' = TRUE
    /\ UNCHANGED <<pc, status>>

ItemFails == IF control.onError = "item" THEN NextItem ELSE Fails
-----------------------------------------------------------------------------
(* The list. *)

\* What a list has still to name after its token.
Served(u, token) == {i \in Present(u) : i > token}

ListPage ==
    /\ pc = "list"
    /\ usage[here.unit] # "unsupported"
    /\ LET rest == Served(here.unit, here.token)
           page == {i \in rest : control.pages \in {"every", "first"} =>
                       Cardinality({j \in rest : j < i}) < PageSize}
       IN  \E order \in [1..Cardinality(page) -> page] :
               /\ \A a, b \in DOMAIN order : a < b => order[a] < order[b]
               /\ here' = [here EXCEPT
                      !.page = [n \in DOMAIN order |->
                          [item |-> order[n], said |-> <<world[order[n]][1]>>]],
                      !.token = IF page = {} THEN @ ELSE order[Len(order)],
                      !.more = control.pages = "every" /\ rest # page]
    /\ pc' = "items"
    /\ UNCHANGED <<control, account, requested, account_vars, claimed, todo, total,
                   status, broken>>

ListFails ==
    /\ pc = "list"
    /\ Fails
    /\ UNCHANGED <<control, account, requested, account_vars, claimed, todo>>

\* UnknownOperationException: the region is left, clean.
Unsupported ==
    /\ pc = "list"
    /\ usage[here.unit] = "unsupported"
    /\ pc' = "units"
    /\ UNCHANGED <<control, account, requested, account_vars, claimed, todo, here, total,
                   status, broken>>

NextPage ==
    /\ pc = "items" /\ here.page = << >> /\ here.more
    /\ pc' = "list"
    /\ UNCHANGED <<control, account, requested, account_vars, claimed, todo, here, total,
                   status, broken>>
-----------------------------------------------------------------------------
(* The first item of the page. *)

Judgement == control.judge[Head(here.page).said]

\* The next call about it, which the account answers as it is by now; what is
\* gone is an error.
Ask ==
    /\ pc = "items" /\ here.page # << >>
    /\ Judgement = "more"
    /\ LET i == Head(here.page).item
           said == Head(here.page).said
       IN  IF world[i] = Absent THEN ItemFails
           ELSE /\ here' = [here EXCEPT
                       !.page[1].said = Append(said, world[i][Len(said) + 1])]
                /\ UNCHANGED <<pc, total, status, broken>>
    /\ UNCHANGED <<control, account, requested, account_vars, claimed, todo>>

AskFails ==
    /\ pc = "items" /\ here.page # << >>
    /\ Judgement = "more"
    /\ ItemFails
    /\ UNCHANGED <<control, account, requested, account_vars, claimed, todo>>

\* Mutants: what does not apply is a finding; what is good is not counted.
IsFindingOrSkipped(judgement) == judgement \in {"bad", "skip"}
IsCountedIfBad(judgement) == judgement = "bad"

IsFinding(judgement) == judgement = "bad"
IsCounted(judgement) == judgement # "skip"

Judge ==
    /\ pc = "items" /\ here.page # << >>
    /\ Judgement \in {"good", "bad", "skip"}
    /\ here' = [here EXCEPT
           !.page = Tail(@),
           !.found = @ \cup IF IsFinding(Judgement) THEN {Head(here.page).item} ELSE {},
           !.counted = @ + IF IsCounted(Judgement) THEN 1 ELSE 0]
    /\ total' = [total EXCEPT !.good = @ \/ Judgement = "good"]
    /\ UNCHANGED <<control, account, requested, account_vars, pc, claimed, todo, status,
                   broken>>

\* An answer that the check cannot read.
Misread ==
    /\ pc = "items" /\ here.page # << >>
    /\ Judgement = "odd"
    /\ ItemFails
    /\ UNCHANGED <<control, account, requested, account_vars, claimed, todo>>
-----------------------------------------------------------------------------
(* The end of a region, and of the run. *)

\* Mutant: the findings of a region replace those of the earlier ones.
AddLast(unit, isEmpty) ==
    [total EXCEPT !.findings = here.found, !.counted = @ + here.counted,
                  !.noneFound = @ \cup IF isEmpty THEN {unit} ELSE {}]

\* findings = append(findings, regionFindings...); total += count
Add(unit, isEmpty) ==
    [total EXCEPT !.findings = @ \cup here.found, !.counted = @ + here.counted,
                  !.noneFound = @ \cup IF isEmpty THEN {unit} ELSE {}]

LeaveUnit ==
    /\ pc = "items" /\ here.page = << >> /\ ~here.more
    /\ IF here.counted = 0 /\ control.empty = "probe"
       THEN pc' = "empty" /\ UNCHANGED total
       ELSE /\ pc' = "units"
            /\ total' = Add(here.unit, here.counted = 0 /\ control.empty = "finding")
    /\ UNCHANGED <<control, account, requested, account_vars, claimed, todo, here, status,
                   broken>>

\* Nothing is there: is the service in use?
Probe ==
    /\ pc = "empty"
    /\ pc' = "units"
    /\ total' = Add(here.unit, usage[here.unit] = "active")
    /\ UNCHANGED <<control, account, requested, account_vars, claimed, todo, here, status,
                   broken>>

ProbeFails ==
    /\ pc = "empty"
    /\ Fails
    /\ UNCHANGED <<control, account, requested, account_vars, claimed, todo>>

\* An inventory without items, and no finding, is "not in use".
MarkNotInUse(result) ==
    IF /\ result = "pass" /\ total.counted = 0
       /\ control.empty \in {"not_in_use", "probe"}
    THEN "not_in_use" ELSE result

Result ==
    CASE total.failed # {} \/ total.lost # {} -> "error"
      [] total.failed = {} /\ total.lost = {} /\ control.passes = "one_good" ->
             IF total.good THEN "pass" ELSE "fail"
      [] OTHER -> IF total.findings = {} /\ total.noneFound = {} THEN "pass" ELSE "fail"

Finish ==
    /\ pc = "units" /\ todo = {}
    /\ Stop(MarkNotInUse(Result))
    /\ UNCHANGED <<control, account, requested, account_vars, claimed, todo, here, total,
                   broken>>

Finished == pc = "done" /\ UNCHANGED vars

Next ==
    \/ AccountChanges
    \/ ClaimRegions \/ ListRegions \/ ListRegionsFails \/ EnterAccount \/ EnterUnit
    \/ ListPage \/ ListFails \/ Unsupported \/ NextPage
    \/ Ask \/ AskFails \/ Judge \/ Misread
    \/ LeaveUnit \/ Probe \/ ProbeFails \/ Finish \/ Finished

Spec == Init /\ [][Next]_vars
-----------------------------------------------------------------------------
(* Properties *)

\* Every variable has its type; in particular no item is counted twice.
TypeOK ==
    /\ control \in Checks /\ account \in Accounts
    /\ requested \subseteq Regions /\ enabled \in [Accounts -> SUBSET Regions]
    /\ world \in [Items -> Things \cup {Absent}]
    /\ usage \in [Regions -> {"idle", "active", "unsupported"}]
    /\ changes \in 0..MaxChanges
    /\ steady.items \subseteq Items /\ steady.regions \subseteq Regions
    /\ pc \in {"claim", "begin", "units", "list", "items", "empty", "done"}
    /\ claimed \subseteq Regions /\ todo \subseteq Regions
    /\ here.unit \in Regions /\ here.token \in Items \cup {0}
    /\ here.more \in BOOLEAN /\ here.found \subseteq Items
    /\ here.counted \in 0..Cardinality(Items)
    /\ \A n \in DOMAIN here.page :
           here.page[n].item \in Items /\ here.page[n].said \in DOMAIN control.judge
    /\ total.findings \subseteq Items /\ total.lost \subseteq Items
    /\ total.noneFound \cup total.visited \cup total.failed \subseteq Regions
    /\ total.counted \in 0..Cardinality(Items) /\ total.good \in BOOLEAN
    /\ status \in {"none", "pass", "fail", "error", "not_in_use"}
    /\ broken \in BOOLEAN

\* What was the same all the time, and how the check should judge it.
Steadily(i, verdict) ==
    i \in steady.items /\ world[i] # Absent /\ Verdict(world[i]) = verdict

\* The units the check owes an answer for: the requested regions that the
\* account had enabled all the while.
Expected ==
    IF control.units = "regions"
    THEN requested \cap enabled[account] \cap steady.regions ELSE Units

\* Where no call failed the check has been through everything.
Covered(i) ==
    /\ total.visited # {}
    /\ Home[i] \in Expected \ total.failed
    /\ i \notin total.lost

BadAreNamed(is) ==
    pc = "done" =>
        \A i \in is : Steadily(i, "bad") /\ Covered(i) =>
            /\ i \in total.findings
            /\ status \in {"fail", "error"} \/ control.passes = "one_good"

\* An item that was bad all the while, in a requested region that was enabled
\* all the while, is named in the findings of the result and no pass: whatever
\* else failed, came or went, in whichever region, on whichever page
\* (RunAcrossRegions and the loops of the checks).  Where a client reads the
\* first page only: on that page.
BadIsNamed ==
    BadAreNamed({i \in Items : control.pages = "first" =>
        Cardinality({j \in Items : Home[j] = Home[i] /\ j <= i}) <= PageSize})

\* "All checks [...] page through every API response fully" (README.md:576):
\* BadIsNamed for items on any page, in any cloud.
FullyPaged == BadAreNamed(Items)

\* A finding names what was bad, or absent, at some time of the run, in a
\* requested region and, for the management account, in one that the report
\* names as scanned; only of a setting that could not be read is one made up,
\* beside the error (internal/gcp/scan.go:351, internal/azure/scan.go:226).
FindingsAreReal ==
    pc = "done" =>
        /\ \A i \in total.findings :
               /\ \/ i \in steady.items => Steadily(i, "bad")
                  \/ control.unread = "finding" /\ broken
               /\ Home[i] \in requested
               /\ account = Management /\ claimed # {} =>
                      Home[i] \in claimed \/ Home[i] \notin steady.regions
        /\ \A u \in total.noneFound, i \in Items :
               Home[i] = u => ~Steadily(i, "good") /\ ~Steadily(i, "bad")

\* "Not in use" is never said when the visited regions had, all the while, an item
\* the check is about, or used the service (MarkNotInUse).
AbsenceIsReal ==
    status = "not_in_use" =>
        /\ \A i \in Items : Home[i] \in total.visited =>
               ~Steadily(i, "good") /\ ~Steadily(i, "bad")
        /\ control.empty = "probe" =>
               \A u \in total.visited \cap steady.regions : usage[u] # "active"

\* The result is an error exactly when a call failed, an answer made no sense or
\* there was no region to look at: an error is never turned into a pass, a fail
\* or "not in use", and nothing else is one (RunAcrossRegionsDetailed).  TypeOK
\* says which results there are.
ErrorsSurface ==
    /\ TypeOK
    /\ pc = "done" => (status = "error" <=> broken \/ total.visited = {})
=============================================================================
