---------------------------- MODULE VerdictLedger ----------------------------
(***************************************************************************)
(* internal/store.CreateVerdict as Postgres executes it for concurrent     *)
(* POST /v1/verdicts handlers: one READ COMMITTED transaction per request, *)
(* one action per SQL statement.  What a transaction wrote is visible to   *)
(* others from its commit on; the share_links row it inserted or upserted  *)
(* and the scan_id it inserted block every other writer until it ends.     *)
(* A request's report has passed the checks of handleCreateVerdict.        *)
(***************************************************************************)
EXTENDS Naturals, FiniteSets

CONSTANTS
    Requests,      \* the POST requests that reach the store, retries included
    Accounts,      \* AWS account ids
    ScanIds,       \* report.scan_id values
    Reports,       \* the reports that may be posted
    NoToken,       \* no share_links row / SQL NULL
    NoTime,        \* MIN() over no rows
    NoVerdict,     \* the zero AccountsSnapshot: no earlier verdict
    Placeholders   \* $n parameters in the VALUES list of the INSERT

Report == [account : Accounts, scan : ScanIds, at : Nat,
           listed : SUBSET Accounts, scanned : SUBSET Accounts]

ASSUME ReportsAssumption == Reports \subseteq Report
ASSUME NullsAssumption ==
    NoToken \notin Requests /\ NoVerdict \notin Requests /\ NoTime \notin Nat
ASSUME PlaceholdersAssumption == Placeholders \in Nat

\* newToken draws 128 random bits: a token is named by the request that drew
\* it.  BIGSERIAL ids are likewise named by the request that inserted the row.
Tokens == Requests
VerdictIds == Requests

\* Columns (and Go arguments) of INSERT INTO verdicts.
Columns == 33

VARIABLES
    links,      \* committed share_links: account_id -> token
    revoked,    \* tokens whose committed revoked_at is not NULL
    verdicts,   \* committed verdicts
    history,    \* committed account_history
    pc,         \* where each request's CreateVerdict call stands
    report,     \* the report each request carries
    token,      \* its local variable token
    baseline,   \* the verdict previousAccountsSnapshot read
    todo,       \* listed accounts insertAccountHistory has still to visit
    draft,      \* the history row between its SELECT MIN and its INSERT
    rows,       \* its uncommitted account_history rows
    answer      \* what the handler wrote to the client

tables == <<links, revoked, verdicts, history>>
vars == <<links, revoked, verdicts, history, pc, report, token, baseline,
          todo, draft, rows, answer>>

Verdict == [id : VerdictIds, token : Tokens, report : Reports,
            baseline : VerdictIds \cup {NoVerdict}]
HistoryRow == [verdict : VerdictIds, token : Tokens, account : Accounts,
               status : {"scanned", "listed_unreachable"},
               firstSeen : Nat, observed : Nat]
-----------------------------------------------------------------------------
Linked == {"snapshot", "insert", "lookup", "record", "commit"}
Inserted == {"lookup", "record", "commit"}
Active == {"link"} \cup Linked

\* Mutant: an early return that forgets the deferred Rollback keeps its locks.
LocksLinkLeaked(r, a) ==
    /\ pc[r] \in Linked \/ answer[r] \in {"duplicate", "refused"}
    /\ report[r].account = a

\* The share_links row of account a is locked by the open transaction of r:
\* INSERT ... ON CONFLICT DO UPDATE writes the row, no-op or not.
LocksLink(r, a) == pc[r] \in Linked /\ report[r].account = a

\* The unique index on scan_id holds an uncommitted entry of r.
LocksScan(r, s) == pc[r] \in Inserted /\ report[r].scan = s

\* Postgres takes the INSERT when its two lists have the same length and
\* accounts_listed, TEXT[] NOT NULL, is given a value: the scanner leaves the
\* slice nil, sent as NULL, when it could not enumerate the organization.
InsertAccepted(rep) == Placeholders = Columns /\ rep.listed # {}

\* Mutant: LIMIT 1 without an ORDER BY.
AnyOf(t) == {v \in verdicts : v.token = t}

\* The rows ORDER BY attested_at DESC LIMIT 1 may return: ties are broken
\* arbitrarily.
LatestOf(t) ==
    LET mine == {v \in verdicts : v.token = t}
    IN  {v \in mine : \A o \in mine : o.report.at <= v.report.at}

MinTime(S) == IF S = {} THEN NoTime ELSE CHOOSE m \in S : \A n \in S : m <= n

\* SELECT MIN(first_seen_at): committed rows and the transaction's own.
PriorFirstSeen(r, x) ==
    MinTime({h.firstSeen : h \in {g \in history \cup rows[r] :
                                    g.token = token[r] /\ g.account = x}})

\* Mutants: the NULL of an account never seen used as a time; a first-seen
\* time reset by every scan.
FirstSeenUnguarded(r, x) == PriorFirstSeen(r, x)
FirstSeenReset(r, x) == report[r].at

FirstSeen(r, x) ==
    LET prior == PriorFirstSeen(r, x)
    IN  IF prior = NoTime THEN report[r].at ELSE prior

VerdictRow(r) == [id |-> r, token |-> token[r], report |-> report[r],
                  baseline |-> baseline[r]]
-----------------------------------------------------------------------------
Init ==
    /\ links = [a \in Accounts |-> NoToken]
    /\ revoked = {}
    /\ verdicts = {}
    /\ history = {}
    /\ pc = [r \in Requests |-> "idle"]
    /\ report \in [Requests -> Reports]
    /\ token = [r \in Requests |-> NoToken]
    /\ baseline = [r \in Requests |-> NoVerdict]
    /\ todo = [r \in Requests |-> {}]
    /\ draft = [r \in Requests |-> {}]
    /\ rows = [r \in Requests |-> {}]
    /\ answer = [r \in Requests |-> "none"]

\* pool.Begin
Begin(r) ==
    /\ pc[r] = "idle"
    /\ pc' = [pc EXCEPT ![r] = "link"]
    /\ UNCHANGED <<tables, report, token, baseline, todo, draft, rows, answer>>

\* The upsert waits for the row lock, then returns the stored token, or the
\* fresh candidate when the account has no committed link.
GetOrCreateShareLink(r) ==
    /\ pc[r] = "link"
    /\ \A o \in Requests \ {r} : ~LocksLink(o, report[r].account)
    /\ token' = [token EXCEPT ![r] = IF links[report[r].account] = NoToken
                                     THEN r ELSE links[report[r].account]]
    /\ pc' = [pc EXCEPT ![r] = "snapshot"]
    /\ UNCHANGED <<tables, report, baseline, todo, draft, rows, answer>>

PreviousAccountsSnapshot(r) ==
    /\ pc[r] = "snapshot"
    /\ \/ /\ LatestOf(token[r]) = {}
          /\ baseline' = [baseline EXCEPT ![r] = NoVerdict]
       \/ \E v \in LatestOf(token[r]) :
             baseline' = [baseline EXCEPT ![r] = v.id]
    /\ pc' = [pc EXCEPT ![r] = "insert"]
    /\ UNCHANGED <<tables, report, token, todo, draft, rows, answer>>

\* Mutants: the INSERT sent on s.pool instead of tx, stored at once; no unique
\* constraint on scan_id.
InsertVerdictOnPool(r) ==
    /\ pc[r] = "insert"
    /\ verdicts' = verdicts \cup {VerdictRow(r)}
    /\ todo' = [todo EXCEPT ![r] = report[r].listed]
    /\ pc' = [pc EXCEPT ![r] = "lookup"]
    /\ UNCHANGED <<links, revoked, history, report, token, baseline, draft,
                   rows, answer>>
InsertVerdictNotUnique(r) ==
    /\ pc[r] = "insert"
    /\ InsertAccepted(report[r])
    /\ todo' = [todo EXCEPT ![r] = report[r].listed]
    /\ pc' = [pc EXCEPT ![r] = "lookup"]
    /\ UNCHANGED <<tables, report, token, baseline, draft, rows, answer>>

\* The INSERT waits while another open transaction holds the same scan_id.
InsertVerdict(r) ==
    /\ pc[r] = "insert"
    /\ InsertAccepted(report[r])
    /\ \A o \in Requests \ {r} : ~LocksScan(o, report[r].scan)
    /\ \A v \in verdicts : v.report.scan # report[r].scan
    /\ todo' = [todo EXCEPT ![r] = report[r].listed]
    /\ pc' = [pc EXCEPT ![r] = "lookup"]
    /\ UNCHANGED <<tables, report, token, baseline, draft, rows, answer>>

\* The end of a transaction that does not commit: the deferred Rollback drops
\* what it wrote and releases its locks, and the handler answers.
RollBack(r, code) ==
    /\ pc' = [pc EXCEPT ![r] = "done"]
    /\ rows' = [rows EXCEPT ![r] = {}]
    /\ draft' = [draft EXCEPT ![r] = {}]
    /\ todo' = [todo EXCEPT ![r] = {}]
    /\ answer' = [answer EXCEPT ![r] = code]
    /\ UNCHANGED <<tables, report, token, baseline>>

\* Mutant: a duplicate reported as created.
InsertDuplicateAsCreated(r) ==
    /\ pc[r] = "insert"
    /\ \E v \in verdicts : v.report.scan = report[r].scan
    /\ RollBack(r, "created")

\* 23505 on scan_id becomes ErrDuplicateScan, answered 409.
InsertDuplicate(r) ==
    /\ pc[r] = "insert"
    /\ InsertAccepted(report[r])
    /\ \A o \in Requests \ {r} : ~LocksScan(o, report[r].scan)
    /\ \E v \in verdicts : v.report.scan = report[r].scan
    /\ RollBack(r, "duplicate")

\* Postgres refuses the statement itself: an error of another code, answered
\* 500, whatever the state of the tables.
InsertRefused(r) ==
    /\ pc[r] = "insert"
    /\ ~InsertAccepted(report[r])
    /\ RollBack(r, "refused")

\* insertAccountHistory: for each listed account, SELECT MIN(first_seen_at) ...
LookUpFirstSeen(r) ==
    /\ pc[r] = "lookup"
    /\ \E x \in todo[r] :
          draft' = [draft EXCEPT ![r] =
              {[verdict |-> r, token |-> token[r], account |-> x,
                status |-> IF x \in report[r].scanned THEN "scanned"
                           ELSE "listed_unreachable",
                firstSeen |-> FirstSeen(r, x),
                observed |-> report[r].at]}]
    /\ pc' = [pc EXCEPT ![r] = "record"]
    /\ UNCHANGED <<tables, report, token, baseline, todo, rows, answer>>

\* ... then INSERT INTO account_history.
InsertAccountHistory(r) ==
    /\ pc[r] = "record"
    /\ rows' = [rows EXCEPT ![r] = @ \cup draft[r]]
    /\ todo' = [todo EXCEPT ![r] = @ \ {h.account : h \in draft[r]}]
    /\ draft' = [draft EXCEPT ![r] = {}]
    /\ pc' = [pc EXCEPT ![r] = IF todo'[r] = {} THEN "commit" ELSE "lookup"]
    /\ UNCHANGED <<tables, report, token, baseline, answer>>

\* The commit publishes the link, the verdict and its history rows at once.
Publish(r) ==
    /\ links' = [links EXCEPT ![report[r].account] = token[r]]
    /\ verdicts' = verdicts \cup {VerdictRow(r)}
    /\ history' = history \cup rows[r]
    /\ UNCHANGED revoked

\* tx.Commit and the 201; or the commit whose acknowledgement is lost, which
\* the handler answers with the same 500 as a failed one.
Commit(r) ==
    /\ pc[r] = "commit"
    /\ Publish(r)
    /\ pc' = [pc EXCEPT ![r] = "done"]
    /\ rows' = [rows EXCEPT ![r] = {}]
    /\ \E code \in {"created", "fault"} : answer' = [answer EXCEPT ![r] = code]
    /\ UNCHANGED <<report, token, baseline, todo, draft>>

\* Any statement may fail instead: the client went away and cancelled
\* r.Context(), the connection or the server process died.
Fail(r) ==
    /\ pc[r] \in Active
    /\ RollBack(r, "fault")

\* A link is killed by setting revoked_at: an UPDATE by its owner's tooling,
\* which waits for the row lock.  No code in the repository issues it yet.
Revoke(a) ==
    /\ links[a] # NoToken
    /\ links[a] \notin revoked
    /\ \A r \in Requests : ~LocksLink(r, a)
    /\ revoked' = revoked \cup {links[a]}
    /\ UNCHANGED <<links, verdicts, history, pc, report, token, baseline,
                   todo, draft, rows, answer>>

\* CreateVerdict running on, without a fault.
Proceed(r) ==
    \/ GetOrCreateShareLink(r)
    \/ PreviousAccountsSnapshot(r)
    \/ InsertVerdict(r)
    \/ InsertDuplicate(r)
    \/ InsertRefused(r)
    \/ LookUpFirstSeen(r)
    \/ InsertAccountHistory(r)
    \/ Commit(r)

\* Every request has been answered: nothing is left to do but to revoke.
Quiescent ==
    /\ \A r \in Requests : pc[r] = "done"
    /\ UNCHANGED vars

Next ==
    \/ \E r \in Requests : Begin(r) \/ Proceed(r) \/ Fail(r)
    \/ \E a \in Accounts : Revoke(a)
    \/ Quiescent

Spec == Init /\ [][Next]_vars

\* Postgres runs every statement of an open transaction to an end, and hands
\* a lock on when its holder ends.  Requests need not arrive, faults and
\* revocations need not happen.
FairSpec == Spec /\ \A r \in Requests : WF_vars(Proceed(r))
-----------------------------------------------------------------------------
\* The state of every table and of every CreateVerdict call.
TypeOK ==
    /\ links \in [Accounts -> Tokens \cup {NoToken}]
    /\ revoked \subseteq Tokens
    /\ verdicts \subseteq Verdict
    /\ history \subseteq HistoryRow
    /\ pc \in [Requests -> {"idle", "done"} \cup Active]
    /\ report \in [Requests -> Reports]
    /\ token \in [Requests -> Tokens \cup {NoToken}]
    /\ baseline \in [Requests -> VerdictIds \cup {NoVerdict}]
    /\ todo \in [Requests -> SUBSET Accounts]
    /\ draft \in [Requests -> SUBSET HistoryRow]
    /\ rows \in [Requests -> SUBSET HistoryRow]
    /\ answer \in [Requests ->
           {"none", "created", "duplicate", "refused", "fault"}]

\* A verdict is stored whole or not at all (CreateVerdict's one transaction):
\* it hangs off its account's share link, it has exactly one history row for
\* every account it lists, with the status it attests, there is no history
\* row of a verdict that is not stored, and no link without a verdict.
StoredWhole ==
    /\ \A v \in verdicts :
          /\ links[v.report.account] = v.token
          /\ \A x \in Accounts :
                LET mine == {h \in history : h.verdict = v.id /\ h.account = x}
                IN  IF x \in v.report.listed
                    THEN \E h \in mine :
                            /\ mine = {h}
                            /\ h.token = v.token
                            /\ h.observed = v.report.at
                            /\ h.status = "scanned" <=> x \in v.report.scanned
                    ELSE mine = {}
    /\ \A h \in history : \E v \in verdicts : v.id = h.verdict
    /\ \A a \in Accounts : links[a] # NoToken =>
           \E v \in verdicts : v.token = links[a]

\* A share token opens the evidence of one account: concurrent first scans of
\* an account agree on one token, and no two accounts share one
\* (getOrCreateShareLink's upsert).
OneTokenPerAccount ==
    \A v, w \in verdicts :
        v.token = w.token <=> v.report.account = w.report.account

\* Retries and races never store one scan twice, also when two accounts'
\* reports carry the same id (newScanID's fallback "unknown").
OneVerdictPerScan ==
    \A v, w \in verdicts : v.report.scan = w.report.scan => v = w

\* What a client may conclude from its answer: 201 and 409 both mean the scan
\* is in the ledger, 409 by another request, and a 500 for a refused
\* statement means this request stored nothing.
AnswersTruthful ==
    \A r \in Requests :
        LET mine  == {v \in verdicts : v.id = r}
            scans == {v.id : v \in {w \in verdicts :
                                      w.report.scan = report[r].scan}}
        IN  /\ answer[r] = "created" => mine # {}
            /\ answer[r] = "duplicate" => mine = {} /\ scans \ {r} # {}
            /\ answer[r] \in {"none", "refused"} => mine = {}

\* first_seen_at of an account under one token is settled by the first commit
\* that lists it and carried forward for ever: concurrent scans, reappearing
\* accounts and out-of-order arrivals cannot make two rows disagree
\* (insertAccountHistory).
FirstSeenSettled ==
    \A g, h \in history :
        g.token = h.token /\ g.account = h.account =>
            g.firstSeen = h.firstSeen

\* No request waits for ever: a transaction that ends in any way hands on the
\* row lock and the scan_id it held (defer tx.Rollback).
EveryRequestAnswered ==
    \A r \in Requests : pc[r] = "link" ~> answer[r] # "none"

\* internal/store, migrations/0001: "one row per successfully verified scan
\* report".  A request that met no fault leaves its scan in the ledger.
VerifiedReportIsStored ==
    \A r \in Requests :
        pc[r] = "done" /\ answer[r] # "fault" =>
            \E v \in verdicts : v.report.scan = report[r].scan
-----------------------------------------------------------------------------
\* The serial ledger the committed tables stand for.
VerdictOf(id) == CHOOSE v \in verdicts : v.id = id

SeenTime(a, x) ==
    MinTime({h.firstSeen : h \in {g \in history :
                                    g.token = links[a] /\ g.account = x}})

BaselineReport(v) ==
    IF v.baseline = NoVerdict THEN NoVerdict ELSE VerdictOf(v.baseline).report

Serial == INSTANCE SerialLedger WITH
    token     <- links,
    NoReport  <- NoVerdict,
    accepted  <- {[report |-> v.report, baseline |-> BaselineReport(v)] :
                     v \in verdicts},
    firstSeen <- [a \in Accounts |-> [x \in Accounts |-> SeenTime(a, x)]]

\* However requests interleave, fail and retry, the tables are those of a
\* ledger that took the stored reports one at a time, whole.
Serializable == Serial!Spec
=============================================================================
