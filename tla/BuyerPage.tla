----------------------------- MODULE BuyerPage -----------------------------
(***************************************************************************)
(* The page a buyer opens under a share link (web/src/App.tsx): it loads   *)
(* the latest verdict, verifies it in the browser, then loads the history, *)
(* verifies every entry and recomputes what changed between two of them    *)
(* (ScopeSection.tsx), and has a questionnaire filled in on request        *)
(* (QuestionnaireAutofill.tsx).  The server answers each request as        *)
(* ShareReads says, while the ledger moves on, the clock advances and the  *)
(* published measurements may be out of reach.                             *)
(***************************************************************************)
EXTENDS ShareReads, ScopeDrift

CONSTANTS
    Window,        \* the freshness window
    HistoryLimit,  \* what fetchHistory asks for, 100
    MaxOpens,      \* bound: how often the page is loaded
    Times          \* bound: the times of the browser's clock

\* For the page a report also says: sealed, the time in its signed document;
\* nitro, whether that document chains to the Nitro root; released, whether
\* the PCR0 it names is the published one; org, whether an organization was
\* enumerated; found, the findings of the control for each account.
ASSUME DocumentsAssumption ==
    \A rep \in Reports :
        /\ rep.sealed \in Nat /\ rep.at <= rep.sealed
        /\ rep.nitro \in BOOLEAN /\ rep.released \in BOOLEAN
        /\ rep.org \in {"verified", "none", "unverified"}
        /\ DOMAIN rep.found \subseteq Accounts
\* A scan with the control has a result for every account it lists, an error
\* for one that it could not enter (ScanAccount, MemberRoleRefused of ScanScope).
ASSUME EnteredAssumption ==
    \A rep \in Reports : rep.included =>
        /\ rep.listed \subseteq DOMAIN StatusesOf(rep)
        /\ \A x \in rep.listed \ rep.scanned : StatusesOf(rep)[x] = "error"
ASSUME PageAssumption ==
    /\ Window \in Nat /\ HistoryLimit \in Limits \cap (1 .. MaxLimit) /\ MaxOpens \in Nat
    /\ Times \subseteq Nat

VARIABLES
    now,      \* the browser's clock
    opens,    \* how often the page may still be loaded
    page,     \* App: [phase, token, report, verdict]
    section,  \* ScopeSection: [phase, todo, verified, excluded, wanted]
    fill      \* QuestionnaireAutofill: [phase, report]

pageVars == <<now, opens, page, section, fill>>
buyerVars == <<ledger, readerVars, pageVars>>

Closed(t) == [phase |-> "closed", token |-> t, report |-> NoReport,
              verdict |-> "none"]
Hidden == [phase |-> "hidden", todo |-> << >>, verified |-> << >>,
           excluded |-> 0, wanted |-> << >>]
NotFilled == [phase |-> "idle", report |-> NoReport]
-----------------------------------------------------------------------------
Fresh(rep) == rep.sealed <= now /\ now - rep.sealed <= Window

\* The outcomes of verifyShareResponse: signature, chain and hash hold for a
\* stored report; the measurement must be fetched, which may fail.
Outcomes(rep, skipFreshness) ==
    IF rep.nitro /\ rep.released /\ (skipFreshness \/ Fresh(rep))
    THEN {"verified", "failed"} ELSE {"failed"}

\* accountResults with their findings.
ResultsOf(rep) ==
    LET statuses == StatusesOf(rep)
    IN  [x \in DOMAIN statuses |->
            [status |-> statuses[x],
             findings |-> IF x \in DOMAIN rep.found THEN rep.found[x] ELSE {}]]

IndexOf(scan) ==
    {i \in DOMAIN section.verified : section.verified[i].scan = scan}

Wanted ==
    IF section.wanted # << >> THEN section.wanted
    ELSE <<section.verified[1].scan, section.verified[2].scan>>

\* Mutant: the scan picked as the later one is taken to be it.
PairAsPicked ==
    IF section.phase # "ready" \/ Len(section.verified) < 2 THEN {}
    ELSE {[current |-> section.verified[p[1]], previous |-> section.verified[p[2]]] :
              p \in {q \in IndexOf(Wanted[1]) \X IndexOf(Wanted[2]) : q[1] # q[2]}}

\* The pair whose changes are shown, if any: the history is newest first, so
\* the smaller index is the current side.
Pair ==
    IF section.phase # "ready" \/ Len(section.verified) < 2 THEN {}
    ELSE {[current |-> section.verified[Min({p[1], p[2]})],
           previous |-> section.verified[Max({p[1], p[2]})]] :
              p \in {q \in IndexOf(Wanted[1]) \X IndexOf(Wanted[2]) : q[1] # q[2]}}

ChangesOf(pair) == DiffReports(ResultsOf(pair.previous), ResultsOf(pair.current))
ScopeChangesOf(pair) == Detect(pair.previous, pair.current)
-----------------------------------------------------------------------------
BuyerInit ==
    /\ ReadsInit
    /\ now \in Times
    /\ opens \in {0, MaxOpens}
    /\ \E t \in Tokens : page = Closed(t)
    /\ section = Hidden
    /\ fill = NotFilled

\* The browser loads the page, for the first time or again: whatever it had
\* asked for or shown is gone.
Open ==
    /\ opens > 0
    /\ opens' = opens - 1
    /\ page' = [Closed(page.token) EXCEPT !.phase = "loading"]
    /\ section' = Hidden
    /\ fill' = NotFilled
    /\ Send([op |-> "latest", token |-> page.token, limit |-> 0])
    /\ UNCHANGED now

\* The answer is taken over; the request is forgotten.
Consume ==
    /\ pc = "idle"
    /\ answer' = Nothing
    /\ asked' = [accepted |-> {}, revoked |-> {}]
    /\ UNCHANGED <<ledger, pc, call>>

\* Mutant: the page takes no notice of an error.
LoadedOrStuck ==
    /\ page.phase = "loading" /\ Consume /\ answer.code = "ok"
    /\ page' = [page EXCEPT !.phase = "checking", !.report = answer.page[1]]
    /\ UNCHANGED <<now, opens, section, fill>>

Loaded ==
    /\ page.phase = "loading" /\ Consume
    /\ page' = IF answer.code = "ok"
               THEN [page EXCEPT !.phase = "checking", !.report = answer.page[1]]
               ELSE [page EXCEPT !.phase = "fetch-error"]
    /\ UNCHANGED <<now, opens, section, fill>>

\* The page is rendered; the section about changes is part of it only when the
\* report is verified.
Verified ==
    /\ page.phase = "checking"
    /\ \E v \in Outcomes(page.report, FALSE) :
          /\ page' = [page EXCEPT !.phase = "done", !.verdict = v]
          /\ section' = IF v = "verified" THEN [Hidden EXCEPT !.phase = "start"]
                                          ELSE Hidden
    /\ UNCHANGED <<ledger, readerVars, now, opens, fill>>
-----------------------------------------------------------------------------
FetchHistory ==
    /\ section.phase = "start" /\ pc = "idle"
    /\ section' = [section EXCEPT !.phase = "loading"]
    /\ Send([op |-> "history", token |-> page.token, limit |-> HistoryLimit])
    /\ UNCHANGED <<now, opens, page, fill>>

HistoryArrives ==
    /\ section.phase = "loading" /\ Consume
    /\ section' = IF answer.code = "ok"
                  THEN [section EXCEPT !.phase = "checking", !.todo = answer.page]
                  ELSE [section EXCEPT !.phase = "error"]
    /\ UNCHANGED <<now, opens, page, fill>>

\* Mutant: an entry that fails is dropped without being counted.
VerifyEntrySilently ==
    /\ section.phase = "checking" /\ section.todo # << >>
    /\ \E v \in Outcomes(Head(section.todo), TRUE) :
          section' = [section EXCEPT
              !.todo = Tail(@),
              !.verified = IF v = "verified" THEN Append(@, Head(section.todo))
                                             ELSE @]
    /\ UNCHANGED <<ledger, readerVars, now, opens, page, fill>>

VerifyEntry ==
    /\ section.phase = "checking" /\ section.todo # << >>
    /\ \E v \in Outcomes(Head(section.todo), TRUE) :
          section' = [section EXCEPT
              !.todo = Tail(@),
              !.verified = IF v = "verified" THEN Append(@, Head(section.todo))
                                             ELSE @,
              !.excluded = IF v = "verified" THEN @ ELSE @ + 1]
    /\ UNCHANGED <<ledger, readerVars, now, opens, page, fill>>

SectionReady ==
    /\ section.phase = "checking" /\ section.todo = << >>
    /\ section' = [section EXCEPT !.phase = "ready"]
    /\ UNCHANGED <<ledger, readerVars, now, opens, page, fill>>

\* ScanPicker: either of the two lists is changed, to any verified scan.
Pick ==
    /\ section.phase = "ready" /\ Len(section.verified) > 1
    /\ \E i \in DOMAIN section.verified :
          LET scan == section.verified[i].scan
              old  == IF Pair = {} THEN <<section.verified[1].scan,
                                          section.verified[2].scan>>
                      ELSE LET p == CHOOSE q \in Pair : TRUE
                           IN  <<p.current.scan, p.previous.scan>>
          IN  section' \in {[section EXCEPT !.wanted = <<scan, old[2]>>],
                            [section EXCEPT !.wanted = <<old[1], scan>>]}
    /\ UNCHANGED <<ledger, readerVars, now, opens, page, fill>>
-----------------------------------------------------------------------------
\* runAutofill: the server reads the link and its latest verdict once more.  The
\* effect that asks for the history runs before anybody can click.
RunAutofill ==
    /\ page.verdict = "verified" /\ fill.phase # "running"
    /\ pc = "idle" /\ section.phase \notin {"start", "loading"}
    /\ fill' = [phase |-> "running", report |-> NoReport]
    /\ Send([op |-> "latest", token |-> page.token, limit |-> 0])
    /\ UNCHANGED <<now, opens, page, section>>

\* The buyer picks another file.
ChooseFile ==
    /\ fill.phase \in {"done", "error"}
    /\ fill' = NotFilled
    /\ UNCHANGED <<ledger, readerVars, now, opens, page, section>>

\* The answer, or a refusal: of the link, or of the file itself.
AutofillArrives ==
    /\ fill.phase = "running" /\ Consume
    /\ \/ /\ answer.code = "ok"
          /\ fill' = [phase |-> "done", report |-> answer.page[1]]
       \/ fill' = [phase |-> "error", report |-> NoReport]
    /\ UNCHANGED <<now, opens, page, section>>
-----------------------------------------------------------------------------
Tick ==
    /\ now + 1 \in Times
    /\ now' = now + 1
    /\ UNCHANGED <<ledger, readerVars, opens, page, section, fill>>

Serve ==
    /\ \/ ResolveLive
       \/ ResolveDead
       \/ HandleLatest
       \/ HandleHistory
       \/ HandleControlHistory
       \/ ReadFails
    /\ UNCHANGED pageVars

\* What the browser does by itself: App, and ScopeSection.
PageStep == Loaded \/ Verified
SectionStep == FetchHistory \/ HistoryArrives \/ VerifyEntry \/ SectionReady

\* A client of the API that has no page open.
ClientAsks == page.phase = "closed" /\ Ask /\ UNCHANGED pageVars

BuyerNext ==
    \/ Serve
    \/ PageStep
    \/ SectionStep
    \/ AutofillArrives
    \/ LedgerMoves /\ UNCHANGED pageVars
    \/ ClientAsks
    \/ Open
    \/ Pick
    \/ RunAutofill
    \/ ChooseFile
    \/ Tick

\* Requests end, with an answer or an error, and each part of the page goes on.
BuyerSpec ==
    /\ BuyerInit /\ [][BuyerNext]_buyerVars
    /\ WF_buyerVars(Serve)
    /\ WF_buyerVars(PageStep)
    /\ WF_buyerVars(SectionStep)
    /\ WF_buyerVars(AutofillArrives)
-----------------------------------------------------------------------------
\* The request, the page and its parts.
PageTypeOK ==
    /\ ReadsTypeOK
    /\ now \in Times /\ opens \in 0 .. MaxOpens
    /\ page.phase \in {"closed", "loading", "checking", "fetch-error", "done"}
    /\ page.report \in Reports \cup {NoReport}
    /\ page.verdict \in {"none", "verified", "failed"}
    /\ section.phase \in {"hidden", "start", "loading", "checking", "ready", "error"}
    /\ Range(section.todo) \cup Range(section.verified) \subseteq Reports
    /\ section.excluded + Len(section.verified) + Len(section.todo) <= HistoryLimit
    /\ section.phase # "hidden" => page.verdict = "verified"
    /\ fill.phase \in {"idle", "running", "done", "error"}
    /\ fill.report \in Reports \cup {NoReport}

Regressed(pair) ==
    {e.account : e \in {f \in ChangesOf(pair) : f.severity = "regression"}}

\* The changes shown lead from the earlier of two verified reports to the
\* later one: statuses, findings and the inventory replay.  An account that
\* the later scan listed and could no longer enter is among what needs
\* attention, unless the control was an error there before, and a drop that the
\* timeline marks is among the changes of the two scans (ScopeSection.tsx,
\* diff.ts, scope.ts).
ShownChanges ==
    \A pair \in Pair :
        LET old     == ResultsOf(pair.previous)
            new     == ResultsOf(pair.current)
            shown   == ChangesOf(pair)
            scope   == ScopeChangesOf(pair)
            Of(k, events) == {e \in events : e.kind = k}
        IN  /\ pair.previous.at <= pair.current.at
            /\ pair.previous.account = pair.current.account
            /\ \A x \in DOMAIN old \cap DOMAIN new :
                  /\ {e.current : e \in {f \in Of("status_changed", shown) :
                                             f.account = x}}
                       = {new[x].status} \ {old[x].status}
                  /\ new[x].findings =
                       (old[x].findings
                          \ {e.finding : e \in {f \in Of("resolved_finding", shown) :
                                                    f.account = x}})
                       \cup {e.finding : e \in {f \in Of("new_finding", shown) :
                                                    f.account = x}}
            /\ pair.previous.listed \cup pair.previous.scanned # {} =>
                  pair.current.listed =
                     (pair.previous.listed
                        \ {e.account : e \in Of("account_removed", scope)})
                     \cup {e.account : e \in Of("account_added", scope)}
            /\ \A x \in pair.current.listed \ pair.current.scanned :
                  \/ x \in DOMAIN old /\ old[x].status = "error"
                  \/ ~pair.previous.included \/ ~pair.current.included
                  \/ x \in Regressed(pair)
                  \/ \E e \in Of("account_added", scope) :
                        e.account = x /\ e.severity = "regression"
                  \/ pair.previous.listed \cup pair.previous.scanned = {}
            /\ Flagged(pair.previous, pair.current) =>
                  Of("coverage_decreased", scope) # {}

\* One page is one vendor's and does not contradict itself, although its parts
\* are read at different times: the verdict under the green banner is on the
\* timeline, unless excluded entries are announced or the history is cut off,
\* and a questionnaire is never answered from an older verdict than that.
PageHoldsTogether ==
    page.verdict = "verified" =>
        /\ section.phase = "ready" =>
              \/ page.report \in Range(section.verified)
              \/ section.excluded > 0
              \/ Len(section.verified) = HistoryLimit
        /\ \A rep \in Range(section.verified) : rep.account = page.report.account
        /\ fill.phase = "done" => /\ fill.report.account = page.report.account
                                  /\ fill.report.at >= page.report.at

Settled ==
    /\ page.phase \in {"closed", "fetch-error", "done"}
    /\ section.phase \in {"hidden", "ready", "error"}
    /\ fill.phase # "running"

\* A page that is not loaded again comes to rest: no spinner stays for ever,
\* whichever request fails and whatever is revoked (the effects of App.tsx and
\* ScopeSection.tsx, whose errors all end in a state).
PageSettles == []<>Settled

\* diff.ts:38: "compare only controls and accounts both reports observed": a
\* finding is shown as resolved only where the later scan could look.
ResolvedWasLookedFor ==
    \A pair \in Pair : \A e \in ChangesOf(pair) :
        e.kind = "resolved_finding" =>
            ResultsOf(pair.current)[e.account].status # "error"
=============================================================================
