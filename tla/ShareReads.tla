----------------------------- MODULE ShareReads -----------------------------
(***************************************************************************)
(* A buyer reading a share link while the ledger behind it moves on: the   *)
(* GET handlers of internal/api/handlers.go.  Every handler runs two SQL   *)
(* statements outside any transaction: resolveShareLink, then a query of   *)
(* the verdicts; reports are accepted and links revoked before, between    *)
(* and after them.  The tables are those of SerialLedger, which            *)
(* VerdictLedger implements.  Readers write nothing, so one stands for all.*)
(***************************************************************************)
EXTENDS SerialLedger, Integers, FiniteSets, SequencesExt

CONSTANTS
    Statuses,      \* what a control reports for an account
    NoStatus,      \* the previous_status of a first observation
    Limits,        \* values of ?limit=, -1 for one that does not parse
    DefaultLimit,  \* store.defaultHistoryLimit, 100
    MaxLimit       \* store.maxHistoryLimit, 500

\* Besides what the ledger keeps, a report carries the results of one control:
\* results maps accounts to statuses, summary is the control's overall status,
\* and included is FALSE when the scanner's version had no such control.
ASSUME ResultsAssumption ==
    \A rep \in Reports :
        /\ rep.account \in Accounts /\ rep.at \in Nat
        /\ rep.included \in BOOLEAN
        /\ rep.summary \in Statuses
        /\ DOMAIN rep.results \subseteq Accounts
        /\ \A x \in DOMAIN rep.results : rep.results[x] \in Statuses
ASSUME LimitsAssumption ==
    /\ DefaultLimit \in Nat \ {0} /\ MaxLimit \in Nat \ {0}
    /\ Limits \subseteq Nat \cup {-1}
    /\ NoStatus \notin Statuses

VARIABLES
    pc,        \* idle, resolve or query: where the request stands
    call,      \* [op, token, limit]
    asked,     \* [accepted, revoked] of the ledger when the request was sent
    answer     \* [code, page, transitions]

ledger == <<token, accepted, firstSeen, revoked>>
readerVars == <<pc, call, asked, answer>>
allVars == <<ledger, readerVars>>

Calls == [op : {"latest", "control"}, token : Tokens, limit : {0}]
         \cup [op : {"history"}, token : Tokens, limit : Limits]
Nothing == [code |-> "none", page |-> <<>>, transitions |-> <<>>]
-----------------------------------------------------------------------------
Exists(t) == \E a \in Accounts : token[a] = t

\* The reports stored under token t, in the ledger L.
Under(t, L) ==
    {e.report : e \in {f \in L : token[f.report.account] = t}}

EffectiveLimit(n) ==
    IF n <= 0 THEN DefaultLimit ELSE IF n > MaxLimit THEN MaxLimit ELSE n

NewestFirst(s) == \A i, j \in DOMAIN s : i < j => s[i].at >= s[j].at
OldestFirst(s) == \A i, j \in DOMAIN s : i < j => s[i].at <= s[j].at

FirstRows(s, n) == SubSeq(s, 1, IF n < Len(s) THEN n ELSE Len(s))

\* Mutant: ORDER BY attested_at without DESC.
PagesAscending(t, n) ==
    {FirstRows(q, n) : q \in {s \in SetToSeqs(Under(t, accepted)) :
                                  OldestFirst(s)}}

\* SELECT ... ORDER BY attested_at DESC LIMIT n: ties in any order.
Pages(t, n) ==
    {FirstRows(q, n) : q \in {s \in SetToSeqs(Under(t, accepted)) :
                                  NewestFirst(s)}}
-----------------------------------------------------------------------------
\* Mutant: the zero CheckOutput of a control the verdict does not include.
StatusesOfAny(rep) ==
    IF ~rep.included THEN [a \in {rep.account} |-> NoStatus]
    ELSE IF DOMAIN rep.results = {} THEN [a \in {rep.account} |-> rep.summary]
    ELSE rep.results

\* The statuses one verdict gives the control: per account, or the control's
\* one result, attributed to the reporting account.
StatusesOf(rep) ==
    IF ~rep.included THEN << >>
    ELSE IF DOMAIN rep.results = {} THEN [a \in {rep.account} |-> rep.summary]
    ELSE rep.results

\* Mutant: one previous status for all accounts.
PreviousShared(page, i, x) ==
    LET earlier == {j \in i + 1 .. Len(page) : DOMAIN StatusesOf(page[j]) # {}}
    IN  IF earlier = {} THEN NoStatus
        ELSE LET last == StatusesOf(page[Min(earlier)])
             IN  last[CHOOSE y \in DOMAIN last : TRUE]

\* previous[accountID] when the walk, oldest first, reaches verdict i of the page.
Previous(page, i, x) ==
    LET earlier == {j \in i + 1 .. Len(page) : x \in DOMAIN StatusesOf(page[j])}
    IN  IF earlier = {} THEN NoStatus ELSE StatusesOf(page[Min(earlier)])[x]

TransitionsAt(page, i) ==
    LET statuses == StatusesOf(page[i])
    IN  {[account |-> x, previous |-> Previous(page, i, x), current |-> statuses[x]] :
             x \in {y \in DOMAIN statuses : Previous(page, i, y) # statuses[y]}}

\* The transitions of each verdict of the page, listed account by account.
Transitions(page) == [i \in DOMAIN page |-> TransitionsAt(page, i)]
-----------------------------------------------------------------------------
ReadsInit ==
    /\ Init
    /\ pc = "idle"
    /\ call \in Calls
    /\ asked = [accepted |-> {}, revoked |-> {}]
    /\ answer = Nothing

Send(c) ==
    /\ pc' = "resolve"
    /\ call' = c
    /\ asked' = [accepted |-> accepted, revoked |-> revoked]
    /\ answer' = Nothing
    /\ UNCHANGED ledger

Ask == pc = "idle" /\ \E c \in Calls : Send(c)

Reply(code, page, transitions) ==
    /\ pc' = "idle"
    /\ answer' = [code |-> code, page |-> page, transitions |-> transitions]
    /\ UNCHANGED <<ledger, call, asked>>

Refuse(code) == Reply(code, << >>, << >>)

\* Mutant: the revoked result ignored.
ResolveRevoked ==
    /\ pc = "resolve"
    /\ Exists(call.token)
    /\ pc' = "query"
    /\ UNCHANGED <<ledger, call, asked, answer>>

\* resolveShareLink: a live link lets the handler go on ...
ResolveLive ==
    /\ pc = "resolve"
    /\ Exists(call.token)
    /\ call.token \notin revoked
    /\ pc' = "query"
    /\ UNCHANGED <<ledger, call, asked, answer>>

\* ... and an unknown or a revoked one ends it.
ResolveDead ==
    /\ pc = "resolve"
    /\ \/ ~Exists(call.token) /\ Refuse("unknown")
       \/ Exists(call.token) /\ call.token \in revoked /\ Refuse("gone")

HandleLatest ==
    /\ pc = "query"
    /\ call.op = "latest"
    /\ \E page \in Pages(call.token, 1) :
          IF page = << >> THEN Refuse("no verdicts yet")
                          ELSE Reply("ok", page, << >>)

HandleHistory ==
    /\ pc = "query"
    /\ call.op = "history"
    /\ IF call.limit < 0 THEN Refuse("bad limit")
       ELSE \E page \in Pages(call.token, EffectiveLimit(call.limit)) :
                Reply("ok", page, << >>)

HandleControlHistory ==
    /\ pc = "query"
    /\ call.op = "control"
    /\ \E page \in Pages(call.token, EffectiveLimit(0)) :
          Reply("ok", page, Transitions(page))

\* Either statement may fail: 500.
ReadFails == pc \in {"resolve", "query"} /\ Refuse("fault")

LedgerMoves == Next /\ UNCHANGED readerVars

ReadsNext ==
    \/ LedgerMoves
    \/ Ask
    \/ ResolveLive
    \/ ResolveDead
    \/ HandleLatest
    \/ HandleHistory
    \/ HandleControlHistory
    \/ ReadFails

ReadsSpec == ReadsInit /\ [][ReadsNext]_allVars
-----------------------------------------------------------------------------
\* The state of the one request and of what it has returned.
ReadsTypeOK ==
    /\ pc \in {"idle", "resolve", "query"}
    /\ call \in Calls
    /\ asked.revoked \subseteq revoked
    /\ asked.accepted \subseteq accepted
    /\ answer.code \in {"none", "ok", "unknown", "gone", "no verdicts yet",
                        "bad limit", "fault"}
    /\ Range(answer.page) \subseteq Reports
    /\ \A i \in DOMAIN answer.transitions : \A tr \in answer.transitions[i] :
          /\ tr.current \in Statuses
          /\ tr.previous \in Statuses \cup {NoStatus}

\* Once a link is revoked, a request sent afterwards is never shown evidence,
\* whatever the ledger accepts meanwhile (resolveShareLink).
RevokedStaysGone == call.token \in asked.revoked => answer.code # "ok"

\* An answer never skips and never goes back in time: a verdict the ledger held
\* when it was asked is on the page, unless the page is full of verdicts at
\* least as new; GET latest is a page of one.  Reports that arrive out of order,
\* or between the handler's two statements, change nothing about that.
PageHasNoHole ==
    answer.code = "ok" =>
        LET size == IF call.op = "latest" THEN 1 ELSE EffectiveLimit(call.limit)
        IN  \A rep \in Under(call.token, asked.accepted) \ Range(answer.page) :
               /\ Len(answer.page) = size
               /\ \A i \in DOMAIN answer.page : answer.page[i].at >= rep.at

\* A client that replays the transitions of a control, oldest first, gets
\* back the status each verdict of the window gave each account, although
\* controls and accounts come and go between scans (handleControlHistory).
TransitionsReplay ==
    call.op = "control" =>
        \A i \in DOMAIN answer.page :
            LET statuses == StatusesOf(answer.page[i])
                Told(j, x) == {tr \in answer.transitions[j] : tr.account = x}
            IN  \A x \in DOMAIN statuses :
                   \E j \in i .. Len(answer.page) :
                      /\ {tr.current : tr \in Told(j, x)} = {statuses[x]}
                      /\ \A k \in i .. j - 1 : Told(k, x) = {}
=============================================================================
