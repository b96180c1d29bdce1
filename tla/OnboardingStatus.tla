-------------------------- MODULE OnboardingStatus --------------------------
(***************************************************************************)
(* The live counter of the onboarding page: web/src/OnboardPage.tsx asks   *)
(* handleCreateOnboarding for a tenant, then polls handleOnboardingStatus  *)
(* (internal/api/onboarding.go), which assumes the customer's management   *)
(* role, enumerates the organization (ScopeWalk) and probes the role of    *)
(* every other account, at most Fanout at a time                           *)
(* (internal/providers/onboarding.go).  AWS goes on changing: the stack is *)
(* deployed, rolls out and is removed account by account.                  *)
(* A scanner that enumerates its scope, in any cloud, is the other caller. *)
(***************************************************************************)
EXTENDS ScopeWalk

CONSTANTS
    Tenants,     \* tenant ids: random, so never drawn twice
    Nobody,
    Fanout,      \* maxMemberAccountFanout
    MaxRoles     \* bound: changes of roles and of the organization, together

ASSUME OnboardingAssumption ==
    Nobody \notin Tenants /\ Fanout \in Nat \ {0} /\ MaxRoles \in Nat

VARIABLES
    rows,        \* table onboardings: tenant -> customer_account_id, or Gone
    trust,       \* account -> the ExternalId that its role admits, or Nobody
    roles,       \* changes of trust so far
    page,        \* step of OnboardPage, its tenant, the status it shows
    poll         \* the request being served: pc, accounts to probe, probes

onboarding_vars == <<rows, trust, roles, page, poll>>
all_vars == <<vars, onboarding_vars>>

Status(role, verified, noOrg, total, connected) ==
    [management_role_connected |-> role, scope_verified |-> verified,
     no_organization |-> noOrg, total_accounts |-> total,
     connected_accounts |-> connected]
NotConnected == Status(FALSE, FALSE, FALSE, 0, 0)
Single == Status(TRUE, FALSE, TRUE, 1, 1)

NoPoll == [pc |-> "idle", left |-> {}, asking |-> {}, counting |-> {},
           slots |-> Fanout, connected |-> 0, throttled |-> {}]
-----------------------------------------------------------------------------
Init ==
    /\ provider \in {"aws", "gcp", "azure", "supabase"}
    /\ InitEstate
    /\ \/ page = [step |-> "none", tenant |-> Nobody, shown |-> NotConnected]
          /\ pc = "organizations"
       \/ page = [step |-> "enter-account", tenant |-> Nobody, shown |-> NotConnected]
          /\ pc = "idle" /\ provider = "aws"
    /\ rows = [t \in Tenants |-> Gone]
    /\ trust = [u \in Units |-> Nobody] /\ roles = 0
    /\ poll = NoPoll

OrganizationChanges ==
    /\ page.step = "none" \/ changes + roles < MaxRoles
    /\ EstateChanges
    /\ UNCHANGED onboarding_vars

\* A role is created, with the tenant of the stack, or removed.
RoleChanges ==
    /\ page.step # "none"
    /\ changes + roles < MaxRoles
    /\ roles' = roles + 1
    /\ \E u \in Units, t \in {x \in Tenants : rows[x] # Gone} \cup {Nobody} :
          /\ t # trust[u]
          /\ trust' = [trust EXCEPT ![u] = t]
          /\ moved' = moved \cup {u}
    /\ UNCHANGED <<provider, current, organizations, up, place, changes, walk_vars,
                   faults, rows, page, poll>>

Fault == faults < MaxFaults /\ faults' = faults + 1
-----------------------------------------------------------------------------
(* The page and POST /v1/onboard. *)

Submit ==
    /\ page.step \in {"enter-account", "start-error"}
    /\ \E t \in Tenants : rows[t] = Gone
    /\ page' = [page EXCEPT !.step = "starting"]
    /\ UNCHANGED <<vars, rows, trust, roles, poll>>

\* The row is there before the tenant is known to anyone.
CreateOnboarding ==
    /\ page.step = "starting"
    /\ LET t == CHOOSE x \in Tenants : rows[x] = Gone
       IN  /\ rows' = [rows EXCEPT ![t] = current]
           /\ \/ /\ page' = [page EXCEPT !.step = "connecting", !.tenant = t]
                 /\ UNCHANGED faults
              \/ /\ page' = [page EXCEPT !.step = "start-error"]
                 /\ Fault
    /\ UNCHANGED <<estate_vars, walk_vars, trust, roles, poll>>

CreateFails ==
    /\ page.step = "starting"
    /\ page' = [page EXCEPT !.step = "start-error"]
    /\ Fault
    /\ UNCHANGED <<estate_vars, walk_vars, rows, trust, roles, poll>>
-----------------------------------------------------------------------------
(* GET /v1/onboard/{tenant}/status; the next one starts after this one.  *)

\* GetOnboarding finds the row of the tenant: its account is the one to enter.
Begin ==
    /\ page.step = "connecting" /\ poll.pc = "idle"
    /\ poll' = [NoPoll EXCEPT !.pc = "assume"]
    /\ current' = rows[page.tenant]
    /\ pc' = "idle" /\ moved' = {} /\ failed' = FALSE /\ found' = NoneFound
    /\ UNCHANGED <<provider, organizations, up, place, changes, open, allowed, faults,
                   rows, trust, roles, page>>

\* The page shows the answer and sets its timer.
Answer(status) ==
    /\ poll' = NoPoll
    /\ page' = [page EXCEPT !.shown = status]

\* Mutant: the timer is set only after an answer.
UnansweredForGood == poll' = [NoPoll EXCEPT !.pc = "stopped"] /\ UNCHANGED page

\* 502, or no answer: what is shown stays, and the timer is set.
Unanswered == poll' = NoPoll /\ UNCHANGED page

RequestLost ==
    /\ poll.pc = "assume"
    /\ Fault
    /\ Unanswered
    /\ UNCHANGED <<estate_vars, walk_vars, rows, trust, roles>>

\* Whatever fails here counts as "not connected".
AssumeManagement ==
    /\ poll.pc = "assume"
    /\ IF trust[current] = page.tenant
       THEN /\ poll' = [poll EXCEPT !.pc = "walk"] /\ pc' = "organizations"
            /\ UNCHANGED page
       ELSE Answer(NotConnected) /\ UNCHANGED pc
    /\ UNCHANGED <<estate_vars, open, allowed, found, failed, faults, rows, trust, roles>>

AssumeManagementFails ==
    /\ poll.pc = "assume"
    /\ Fault
    /\ Answer(NotConnected)
    /\ UNCHANGED <<estate_vars, walk_vars, rows, trust, roles>>

Walk ==
    /\ page.step = "none" \/ poll.pc = "walk"
    /\ WalkStep
    /\ UNCHANGED onboarding_vars

WalkFails ==
    /\ page.step = "none" \/ poll.pc = "walk"
    /\ WalkFault
    /\ UNCHANGED onboarding_vars

WalkIsOver ==
    /\ poll.pc = "walk"
    /\ \/ pc = "refused" /\ Unanswered
       \/ pc = "alone" /\ Answer(Single)
       \/ /\ pc = "listed"
          /\ poll' = [poll EXCEPT !.pc = "probe", !.left = Listed \ {current},
                                  !.connected = 1]
          /\ UNCHANGED page
    /\ UNCHANGED <<vars, rows, trust, roles>>
-----------------------------------------------------------------------------
(* countConnectedMembers: one goroutine for each account. *)

\* Mutant: no semaphore.
SpawnUnbounded ==
    /\ poll.pc = "probe" /\ poll.left # {}
    /\ LET u == First(poll.left)
       IN  poll' = [poll EXCEPT !.left = @ \ {u}, !.asking = @ \cup {u}]
    /\ UNCHANGED <<vars, rows, trust, roles, page>>

\* sem <- struct{}{}; go func
Spawn ==
    /\ poll.pc = "probe" /\ poll.left # {}
    /\ poll.slots > 0
    /\ LET u == First(poll.left)
       IN  poll' = [poll EXCEPT !.left = @ \ {u}, !.asking = @ \cup {u}, !.slots = @ - 1]
    /\ UNCHANGED <<vars, rows, trust, roles, page>>

\* return, with its deferred calls.
NotCounted(u) == poll' = [poll EXCEPT !.asking = @ \ {u}, !.slots = @ + 1]

\* sts:AssumeRole into the member role.
Ask(u) ==
    /\ u \in poll.asking
    /\ IF trust[u] = page.tenant
       THEN poll' = [poll EXCEPT !.asking = @ \ {u}, !.counting = @ \cup {u}]
       ELSE NotCounted(u)
    /\ UNCHANGED <<vars, rows, trust, roles, page>>

AskFails(u) ==
    /\ u \in poll.asking
    /\ Fault
    /\ poll' = [poll EXCEPT !.asking = @ \ {u}, !.slots = @ + 1,
                            !.throttled = @ \cup {u}]
    /\ UNCHANGED <<estate_vars, walk_vars, rows, trust, roles, page>>

\* The counter, under its mutex, then the deferred calls.
Count(u) ==
    /\ u \in poll.counting
    /\ poll' = [poll EXCEPT !.counting = @ \ {u}, !.slots = @ + 1, !.connected = @ + 1]
    /\ UNCHANGED <<vars, rows, trust, roles, page>>

\* Mutant: no wg.Wait().
ProbedUnwaited == poll.pc = "probe" /\ poll.left = {}

\* wg.Wait() returns.
Probed == poll.pc = "probe" /\ poll.left \cup poll.asking \cup poll.counting = {}

Reply ==
    /\ Probed
    /\ Answer(Status(TRUE, TRUE, FALSE, Cardinality(Listed), poll.connected))
    /\ UNCHANGED <<vars, rows, trust, roles>>

ReplyLost ==
    /\ Probed
    /\ Fault /\ Unanswered
    /\ UNCHANGED <<estate_vars, walk_vars, rows, trust, roles>>
-----------------------------------------------------------------------------
\* A scanner has its scope; a user has no tenant left to draw (a bound).
Finished ==
    /\ \/ page.step = "none" /\ pc \in {"listed", "alone", "refused"}
       \/ /\ page.step \in {"enter-account", "start-error"}
          /\ \A t \in Tenants : rows[t] # Gone
    /\ UNCHANGED all_vars

CodeStep ==
    \/ CreateOnboarding
    \/ Begin \/ AssumeManagement \/ Walk \/ WalkIsOver
    \/ Spawn \/ (\E u \in Units : Ask(u) \/ Count(u)) \/ Reply

Next ==
    \/ CodeStep
    \/ OrganizationChanges
    \/ RoleChanges
    \/ Submit \/ CreateFails \/ RequestLost \/ AssumeManagementFails
    \/ WalkFails \/ (\E u \in Units : AskFails(u)) \/ ReplyLost
    \/ Finished

\* The server, AWS and the page's timer go on; the user, the stack and the
\* faults need not.
Spec == Init /\ [][Next]_all_vars /\ WF_all_vars(CodeStep)
-----------------------------------------------------------------------------
(* Properties *)

\* Every variable has its type; no more probes than the semaphore admits.
TypeOK ==
    /\ up \in [Folders -> Containers \cup {Gone}]
    /\ place \in [Units -> Containers \cup {Gone}]
    /\ current \in Units /\ organizations \in 0..2
    /\ moved \subseteq Units \cup Folders
    /\ changes \in 0..MaxChanges /\ roles \in 0..MaxRoles
    /\ faults \in 0..MaxFaults
    /\ pc \in {"idle", "organizations", "walk", "listed", "alone", "refused"}
    /\ \A i \in DOMAIN open : open[i].at \in Containers
    /\ allowed \subseteq Folders
    /\ found \in [Units -> IF provider = "gcp" THEN Nat ELSE 0..1]
    /\ rows \in [Tenants -> Units \cup {Gone}]
    /\ trust \in [Units -> Tenants \cup {Nobody}]
    /\ page.tenant \in Tenants \cup {Nobody}
    /\ Cardinality(poll.asking \cup poll.counting) + poll.slots = Fanout
    /\ poll.asking \cap poll.counting = {} /\ poll.slots \in 0..Fanout
    /\ poll.connected \in 0..Cardinality(Units)

\* The accounts that the tenant's role admitted all through the poll, and those
\* that it may have admitted at some time of it.
Surely == {u \in Listed \ ({current} \cup moved \cup poll.throttled) :
               trust[u] = page.tenant}
Perhaps == {u \in Listed \ {current} : u \in moved \/ trust[u] = page.tenant}

\* The counter never says more than was connected at some time of the poll, nor
\* leaves out an account that was connected all the while and answered: no
\* probe is lost or counted for another tenant, and the total is that of the
\* organization ("reflects what's actually connected right now, not a cached
\* snapshot", internal/api/onboarding.go:96).
CounterIsTrue ==
    [][page'.shown # page.shown /\ page'.shown.scope_verified =>
          /\ page'.shown.total_accounts = Cardinality(Listed)
          /\ page'.shown.connected_accounts \in
                 1 + Cardinality(Surely) .. 1 + Cardinality(Perhaps)]_all_vars

\* What a poll would answer if nothing changed or failed any more.
Truth ==
    CASE trust[rows[page.tenant]] # page.tenant -> NotConnected
      [] organizations = 0 -> Single
      [] OTHER -> LET members == UnitsIn(Root)
                  IN  Status(TRUE, TRUE, FALSE, Cardinality(members),
                             Cardinality({u \in members : trust[u] = page.tenant}))

\* The customer's account is where it can list the organization, or not entered.
Answerable ==
    page.step = "connecting" /\
    (organizations = 1 /\ trust[rows[page.tenant]] = page.tenant =>
         place[rows[page.tenant]] = Root)

\* When AWS stops changing, and calls stop failing, the page comes to show what
\* is there and stays with it: no error, lost answer or slow probe stops the
\* polling for good (OnboardPage.tsx: "this updates automatically").
CounterCatchesUp ==
    <>[]Answerable => <>[](page.step = "connecting" /\ page.shown = Truth)
=============================================================================
