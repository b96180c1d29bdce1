----------------------------- MODULE ScopeWalk -----------------------------
(***************************************************************************)
(* How a scan, or an onboarding poll, finds out what there is to cover:    *)
(* enumerateOrganization (AWS), EnumerateScope and projectsBelow (GCP),    *)
(* EnumerateScope (Azure), EnumerateSupabaseScope.  A list is read page by *)
(* page, while accounts, projects, subscriptions (units), folders and      *)
(* management groups (folders) come, go and move; any call may fail.       *)
(* What GCP or Azure does not call active counts as Gone; a suspended AWS  *)
(* account is still in its organization.                                   *)
(***************************************************************************)
EXTENDS Naturals, FiniteSets, Sequences

CONSTANTS
    Units, Folders,   \* numbers: the order in which a list names them
    Gone,             \* nowhere to be seen
    PageSize,         \* entries on a page
    MaxChanges,       \* bound: changes of the estate
    MaxFaults         \* bound: calls that fail and pages that come empty

ASSUME NumbersAssumption ==
    /\ Units \cup Folders \subseteq Nat \ {0} /\ IsFiniteSet(Units \cup Folders)
    /\ Units \cap Folders = {} /\ Units # {}
    /\ Gone \notin {0} \cup Units \cup Folders
ASSUME BoundsAssumption ==
    PageSize \in Nat \ {0} /\ MaxChanges \in Nat /\ MaxFaults \in Nat

Root == 0             \* the organization
Containers == {Root} \cup Folders
First(S) == CHOOSE x \in S : \A y \in S : x <= y
Last(S) == CHOOSE x \in S : \A y \in S : y <= x

VARIABLES
    provider,         \* aws, gcp, azure, supabase
    current,          \* the AWS account of the credentials: no other provider's unit
    organizations,    \* how many organizations the credentials see
    up, place,        \* folder or unit -> what it is in, or Gone
    moved,            \* what has changed since the walk began
    changes, faults,  \* so far
    pc,               \* idle, organizations, walk, listed, alone, refused
    open,             \* the lists being read, innermost first
    allowed,          \* Supabase: the organizations that were listed
    found,            \* unit -> how often it is in the list
    failed            \* ghost: a call of this walk failed

estate_vars == <<provider, current, organizations, up, place, moved, changes>>
walk_vars == <<pc, open, allowed, found, failed>>
vars == <<estate_vars, walk_vars, faults>>
-----------------------------------------------------------------------------
(* The estate. *)

\* c and what it is below.
Above(c) ==
    LET closed == {S \in SUBSET Folders :
                      /\ c \in Folders => c \in S
                      /\ \A f \in S : up[f] \in Folders => up[f] \in S}
        folders == {f \in Folders : \A S \in closed : f \in S}
    IN  {c} \cup folders \cup {up[f] : f \in folders}

\* Where a unit may be, and a folder.
UnitPlaces ==
    CASE provider = "aws" -> {Root}
      [] provider = "gcp" -> {c \in Containers : Root \in Above(c)}
      [] OTHER -> {c \in Folders : up[c] = Root}

IsEmpty(f) == /\ \A u \in Units : place[u] # f
              /\ \A g \in Folders : up[g] # f

FolderPlaces(f) ==
    (IF provider = "gcp" THEN {c \in Containers : Root \in Above(c) /\ f \notin Above(c)}
                         ELSE {Root})
        \cup (IF IsEmpty(f) THEN {Gone} ELSE {})

MoveUnit(u) ==
    /\ u # current \/ provider = "aws"
    /\ \E c \in (UnitPlaces \cup {Gone}) \ {place[u]} : place' = [place EXCEPT ![u] = c]
    /\ moved' = moved \cup {u}
    /\ UNCHANGED up

MoveFolder(f) ==
    /\ provider # "aws"
    /\ \E c \in FolderPlaces(f) \ {up[f]} : up' = [up EXCEPT ![f] = c]
    /\ moved' = moved \cup {f}
    /\ UNCHANGED place

EstateChanges ==
    /\ changes < MaxChanges /\ organizations > 0
    /\ changes' = changes + 1
    /\ \/ \E u \in Units : MoveUnit(u)
       \/ \E f \in Folders : MoveFolder(f)
    /\ UNCHANGED <<provider, current, organizations, walk_vars, faults>>
-----------------------------------------------------------------------------
(* Lists and pages. *)

NoneFound == [u \in Units |-> 0]
ListOf(kind, c) == [kind |-> kind, at |-> c, token |-> 0, enter |-> {}, more |-> TRUE]

\* The page of S after a token, which is the last entry served.
Rest(S, token) == {x \in S : x > token}
Page(S, token) ==
    {x \in Rest(S, token) : Cardinality({y \in Rest(S, token) : y < x}) < PageSize}

Existing == {f \in Folders : up[f] # Gone}
UnitsIn(c) == {u \in Units : place[u] = c}
FoldersIn(c) == {f \in Folders : up[f] = c}

\* GCP appends to a slice, AWS and Azure add to a set; Supabase lists once.
Add(S) ==
    [u \in Units |-> IF u \notin S THEN found[u]
                     ELSE IF provider = "gcp" THEN found[u] + 1 ELSE 1]

Refuse == pc' = "refused" /\ open' = << >> /\ found' = NoneFound
-----------------------------------------------------------------------------
\* Where a walk can start: in an estate that holds together.
InitEstate ==
    /\ current = First(Units)
    /\ organizations \in CASE provider = "aws" -> 0..1 [] provider = "gcp" -> 0..2
                           [] OTHER -> {1}
    /\ up \in {u \in [Folders -> Containers \cup {Gone}] :
                   IF provider = "gcp"
                   THEN \E depth \in [Folders -> 1..Cardinality(Folders)] :
                            \A f \in Folders :
                               u[f] \in Folders =>
                                   depth[u[f]] < depth[f] /\ u[u[f]] # Gone
                   ELSE \A f \in Folders :
                            u[f] \in IF provider = "aws" THEN {Gone} ELSE {Root, Gone}}
    /\ place \in {p \in [Units -> Containers \cup {Gone}] :
                      \A u \in Units :
                          p[u] \in IF \/ organizations = 0
                                      \/ u = current /\ provider # "aws"
                                   THEN {Gone}
                                   ELSE UnitPlaces \cup {Gone}}
    /\ moved = {} /\ changes = 0 /\ faults = 0
    /\ open = << >> /\ allowed = {} /\ found = NoneFound /\ failed = FALSE

\* A call that fails ends the enumeration.
\* Mutant: without an organization to be read there is none.
CallFailsAlone ==
    /\ pc \in {"organizations", "walk"}
    /\ faults < MaxFaults
    /\ faults' = faults + 1 /\ failed' = TRUE
    /\ pc' = "alone" /\ open' = << >> /\ found' = [NoneFound EXCEPT ![current] = 1]
    /\ UNCHANGED <<estate_vars, allowed>>

CallFails ==
    /\ pc \in {"organizations", "walk"}
    /\ faults < MaxFaults
    /\ faults' = faults + 1 /\ failed' = TRUE
    /\ Refuse
    /\ UNCHANGED <<estate_vars, allowed>>

Begun(lists) == pc' = "walk" /\ open' = lists /\ UNCHANGED found

\* DescribeOrganization: AWSOrganizationsNotInUse is an answer, not a failure.
DescribeOrganization ==
    /\ pc = "organizations" /\ provider = "aws"
    /\ IF organizations = 0
       THEN pc' = "alone" /\ found' = [NoneFound EXCEPT ![current] = 1] /\ UNCHANGED open
       ELSE Begun(<<ListOf("units", Root)>>)
    /\ UNCHANGED <<estate_vars, allowed, failed, faults>>

\* organizations:search, its first page: exactly one.
SearchOrganizations ==
    /\ pc = "organizations" /\ provider = "gcp"
    /\ IF Cardinality(Page(1..organizations, 0)) = 1
       THEN Begun(<<ListOf("units", Root)>>) ELSE Refuse
    /\ UNCHANGED <<estate_vars, allowed, failed, faults>>

\* The management groups, the first page of them, in order.
ListManagementGroups ==
    /\ pc = "organizations" /\ provider = "azure"
    /\ LET groups == Page(Existing, 0)
       IN  IF groups = {} THEN Refuse
           ELSE \E order \in [1..Cardinality(groups) -> groups] :
                    /\ \A i, j \in DOMAIN order : i < j => order[i] < order[j]
                    /\ Begun([i \in DOMAIN order |-> ListOf("units", order[i])])
    /\ UNCHANGED <<estate_vars, allowed, failed, faults>>

\* /v1/organizations.
ListSupabaseOrganizations ==
    /\ pc = "organizations" /\ provider = "supabase"
    /\ allowed' = Existing
    /\ IF Existing = {} THEN Refuse ELSE Begun(<<ListOf("units", Root)>>)
    /\ UNCHANGED <<estate_vars, failed, faults>>

\* /v1/projects: one of an organization that was not listed refuses the scope.
ListProjects ==
    /\ pc = "walk" /\ open # << >> /\ provider = "supabase"
    /\ LET projects == {u \in Units : place[u] # Gone}
       IN  IF \E u \in projects : place[u] \notin allowed THEN Refuse
           ELSE open' = << >> /\ found' = Add(projects) /\ UNCHANGED pc
    /\ UNCHANGED <<estate_vars, allowed, failed, faults>>

Reading(kind) ==
    pc = "walk" /\ open # << >> /\ open[1].kind = kind /\ provider # "supabase"

\* A page of ListAccounts, of the projects or the subscriptions below one
\* container.  The folders of a GCP container come next.
ListUnits ==
    /\ Reading("units")
    /\ LET here == open[1]
           page == Page(UnitsIn(here.at), here.token)
           more == provider # "azure" /\ page # Rest(UnitsIn(here.at), here.token)
       IN  /\ found' = Add(page)
           /\ open' = IF more THEN [open EXCEPT ![1].token = Last(page)]
                      ELSE IF provider = "gcp"
                      THEN [open EXCEPT ![1] = ListOf("folders", here.at)]
                      ELSE Tail(open)
    /\ UNCHANGED <<estate_vars, pc, allowed, failed, faults>>

\* Mutant: a page without an entry is taken for the last.
EmptyPageEnds ==
    /\ Reading("units") /\ provider \in {"aws", "gcp"}
    /\ faults < MaxFaults
    /\ faults' = faults + 1
    /\ open' = Tail(open)
    /\ UNCHANGED <<estate_vars, pc, allowed, found, failed>>

\* A page without an entry, or with none that is active, and a token for the next.
EmptyPage ==
    /\ Reading("units") \/ (Reading("folders") /\ open[1].enter = {} /\ open[1].more)
    /\ provider \in {"aws", "gcp"}
    /\ faults < MaxFaults
    /\ faults' = faults + 1
    /\ UNCHANGED <<estate_vars, walk_vars>>

\* A page of folders, each to be walked before the next page.
ListFolders ==
    /\ Reading("folders")
    /\ open[1].enter = {} /\ open[1].more
    /\ LET here == open[1]
           page == Page(FoldersIn(here.at), here.token)
       IN  open' = [open EXCEPT ![1] =
               [kind |-> "folders", at |-> here.at, enter |-> page,
                token |-> IF page = {} THEN here.token ELSE Last(page),
                more |-> page # Rest(FoldersIn(here.at), here.token)]]
    /\ UNCHANGED <<estate_vars, pc, allowed, found, failed, faults>>

\* projectsBelow(folder), and its return.
EnterFolder ==
    /\ Reading("folders")
    /\ open[1].enter # {}
    /\ LET f == First(open[1].enter)
       IN  open' = <<ListOf("units", f)>> \o [open EXCEPT ![1].enter = @ \ {f}]
    /\ UNCHANGED <<estate_vars, pc, allowed, found, failed, faults>>

LeaveFolder ==
    /\ Reading("folders")
    /\ open[1].enter = {} /\ ~open[1].more
    /\ open' = Tail(open)
    /\ UNCHANGED <<estate_vars, pc, allowed, found, failed, faults>>

Listed == {u \in Units : found[u] > 0}

\* An empty scope is refused, and an AWS organization without the caller.
Conclude ==
    /\ pc = "walk" /\ open = << >>
    /\ IF Listed = {} \/ (provider = "aws" /\ current \notin Listed)
       THEN Refuse ELSE pc' = "listed" /\ UNCHANGED <<open, found>>
    /\ UNCHANGED <<estate_vars, allowed, failed, faults>>

WalkStep ==
    \/ DescribeOrganization \/ SearchOrganizations
    \/ ListManagementGroups \/ ListSupabaseOrganizations
    \/ ListProjects \/ ListUnits
    \/ ListFolders \/ EnterFolder \/ LeaveFolder
    \/ Conclude

WalkFault == CallFails \/ EmptyPage
-----------------------------------------------------------------------------
(* What a scope promises. *)

\* u and all it is in have not changed during the walk.
Steady(u) == (Above(place[u]) \cup {u}) \cap moved = {}

\* Azure's lists are read up to their first page.
OnFirstPages(u) ==
    provider = "azure" =>
        /\ Cardinality({f \in Folders : f <= place[u]}) <= PageSize
        /\ Cardinality({v \in Units : v <= u}) <= PageSize

\* A scope has every unit that was in the organization all the while, once,
\* and none that was outside it all the while, whatever came, went or moved
\* around it, however deep it is and on whichever page ("recursively lists
\* folders and projects", README.md:306; "paginates ListAccounts to establish
\* the complete", README.md:417).
SteadyListedOnce ==
    pc = "listed" =>
        \A u \in Units :
            /\ Steady(u) /\ place[u] = Gone => found[u] = 0
            /\ Steady(u) /\ place[u] # Gone /\ OnFirstPages(u) => found[u] = 1

\* There is nothing to be scanned, or not the one organization it should be.
Unscopable ==
    CASE provider = "aws" -> organizations = 1 /\ place[current] # Root
      [] provider = "gcp" -> \/ Cardinality(Page(1..organizations, 0)) # 1
                             \/ \A u \in Units : place[u] = Gone
      [] provider = "azure" -> \A u \in Units : place[u] \notin Page(Existing, 0)
      [] provider = "supabase" -> \A u \in Units : place[u] = Gone

\* An enumeration of which a call failed gives no scope, a smaller one neither;
\* in an estate that stays as it is nothing else but an unfit estate is refused,
\* and one AWS account stands for the whole only if there is no organization
\* (EnumerateOrganization: "every other failure is returned").
RefusedExactlyWhenUnfit ==
    /\ pc \in {"listed", "alone"} => ~failed
    /\ pc = "alone" => organizations = 0
    /\ moved = {} /\ pc \in {"listed", "alone", "refused"} =>
           (pc = "refused" <=> failed \/ Unscopable)
=============================================================================
