--------------------------- MODULE Questionnaire ---------------------------
(***************************************************************************)
(* What a buyer is told of an accepted report: the answers that            *)
(* internal/questionnaire writes into an uploaded table, row by row, and   *)
(* the claims the page derives (web/src/components).  Both are computed    *)
(* from the summaries of the report; a question is the control id it gives *)
(* and the set of configured phrases it contains.                          *)
(***************************************************************************)
EXTENDS ScanScope, Integers, SequencesExt

CONSTANTS
    Mappings,          \* check -> [caiq, ids, groups, absence]
    Overrides,         \* check -> a mapping, or Disabled: the account's
    Disabled,
    TopicOrder,        \* restricted topics, by name
    PhrasesOf,         \* topic -> its phrases
    TechnicalPhrases,  \* technical_implementation_phrases
    Gaps,              \* the keyword groups of evidence_gaps
    NoId,              \* the row has no control id
    None,              \* nothing written
    PersistentChecks,  \* PERSISTENT_RESOURCE_CHECKS
    Sheets,            \* the tables a buyer may upload
    MaxFills           \* bound: uploads, the later ones of what came back

\* caiq, ids: the CAIQ and all control ids of a mapping; groups: its keyword
\* groups; absence: whether it has a statement for a service not in use.
ASSUME MappingsAssumption ==
    /\ DOMAIN Overrides \subseteq DOMAIN Mappings
    /\ \A c \in DOMAIN Mappings : Mappings[c].caiq \subseteq Mappings[c].ids
    /\ DOMAIN PhrasesOf = Range(TopicOrder)
    /\ PersistentChecks \subseteq AwsChecks
    /\ MaxFills \in Nat

\* A table is a sequence of lines [kinds, question, cells]: kinds says which
\* column each cell would head, the cells hold what the customer typed and what
\* was written: nothing in a table that was not filled in before.
Kinds == {"control", "question", "answer", "evidence", "status", "confidence", "other"}
IsCell(cell) == DOMAIN cell = {"typed", "ours"} /\ cell.typed \in BOOLEAN
IsLine(line) ==
    /\ DOMAIN line = {"kinds", "question", "cells"}
    /\ line.kinds \in Seq(Kinds) /\ line.cells \in Seq(Range(line.cells))
    /\ \A j \in DOMAIN line.cells : IsCell(line.cells[j])
IsTable(lines) ==
    lines \in Seq(Range(lines)) /\ \A i \in DOMAIN lines : IsLine(lines[i])

ASSUME SheetsAssumption ==
    \A lines \in Sheets :
        /\ IsTable(lines)
        /\ \A i \in DOMAIN lines : \A j \in DOMAIN lines[i].cells :
               lines[i].cells[j].ours = None

VARIABLES
    uploaded, \* the table of the last upload, or None
    sheet,    \* the table as it came back, or None
    totals,   \* X-ZeroDock-Autofill-Report: outcome -> rows
    fills     \* uploads left

sheetVars == <<uploaded, sheet, totals, fills>>

Outcomes == {"answered", "partial", "flagged", "needs_human"}
-----------------------------------------------------------------------------
\* restrictedTopic: the first by name.
RestrictedTopic(q) ==
    LET hit == {i \in DOMAIN TopicOrder : PhrasesOf[TopicOrder[i]] \cap q.phrases # {}}
    IN  IF hit = {} THEN "" ELSE TopicOrder[Min(hit)]

\* A question about a policy that also asks for the technical control.
CompoundPolicy(q) ==
    RestrictedTopic(q) = "policy" /\ TechnicalPhrases \cap q.phrases # {}

Restricted(q) == RestrictedTopic(q) # "" /\ ~CompoundPolicy(q)

MappingsForAccount ==
    [c \in {d \in DOMAIN Mappings : d \notin DOMAIN Overrides \/ Overrides[d] # Disabled} |->
        IF c \in DOMAIN Overrides THEN Overrides[c] ELSE Mappings[c]]

ExactMatches(q) ==
    {c \in DOMAIN MappingsForAccount : q.control \in MappingsForAccount[c].ids}

\* The size of the largest keyword group that the question contains.
Score(c, q) ==
    Max({0} \cup {Cardinality(g) : g \in {h \in MappingsForAccount[c].groups :
                                              h \subseteq q.phrases}})

ShareCAIQControl(found) ==
    \E id \in UNION {MappingsForAccount[c].caiq : c \in found} :
        \A c \in found : id \in MappingsForAccount[c].caiq

\* The best score, unless several unrelated checks have it.
KeywordMatches(q) ==
    LET best  == Max({0} \cup {Score(c, q) : c \in DOMAIN MappingsForAccount})
        found == {c \in DOMAIN MappingsForAccount : Score(c, q) = best}
    IN  IF best = 0 \/ (Cardinality(found) > 1 /\ ~ShareCAIQControl(found))
        THEN {} ELSE found

Matched(q) == IF ExactMatches(q) # {} THEN ExactMatches(q) ELSE KeywordMatches(q)

EvidenceGap(q) == \E g \in Gaps : g \subseteq q.phrases

Method(q) ==
    IF Restricted(q) THEN "restricted"
    ELSE IF ExactMatches(q) # {} THEN "exact"
    ELSE IF KeywordMatches(q) # {} THEN "keyword"
    ELSE IF EvidenceGap(q) THEN "gap" ELSE "unmatched"

\* auditRow: what the mapping alone says of a question.
AuditRow(q) ==
    [method |-> Method(q),
     partial |-> Method(q) \in {"exact", "keyword"} /\ CompoundPolicy(q),
     checks |-> IF Method(q) \in {"exact", "keyword"} THEN Matched(q) ELSE {}]
-----------------------------------------------------------------------------
SummaryOf(c) == IF c \in DOMAIN rep.summary THEN rep.summary[c] ELSE "absent"

\* Mutant: a check that the verdict does not include is passed over.
InconclusivePresent(c) ==
    \/ SummaryOf(c) = "error"
    \/ SummaryOf(c) = "not_in_use" /\ ~MappingsForAccount[c].absence

\* The check supports no answer: errorsOut.
Inconclusive(c) ==
    \/ SummaryOf(c) \in {"error", "absent"}
    \/ SummaryOf(c) = "not_in_use" /\ ~MappingsForAccount[c].absence

NeedsHuman(method) ==
    [outcome |-> "needs_human", method |-> method, answer |-> None, url |-> FALSE]

Decide(q) ==
    LET matched  == Matched(q)
        partial  == CompoundPolicy(q)
        Decision(outcome, answer) ==
            [outcome |-> outcome, method |-> Method(q), answer |-> answer, url |-> TRUE]
        Answer(text) == [text |-> text, partial |-> partial, checks |-> matched]
        positive == IF partial THEN "partial" ELSE "answered"
    IN  IF Method(q) \notin {"exact", "keyword"} THEN NeedsHuman(Method(q))
        ELSE IF \E c \in matched : Inconclusive(c) THEN Decision("flagged", None)
        ELSE IF \E c \in matched : SummaryOf(c) = "fail"
             THEN Decision("flagged", Answer("no"))
        ELSE IF \A c \in matched : SummaryOf(c) = "not_in_use"
             THEN Decision(positive, Answer("not applicable"))
        ELSE Decision(positive, Answer("yes"))
-----------------------------------------------------------------------------
Blank == [typed |-> FALSE, ours |-> None]
Cell(line, col) == IF col \in DOMAIN line.cells THEN line.cells[col] ELSE Blank

\* The last cell of a kind heads the column.
Column(kinds, k) == Max({0} \cup {i \in DOMAIN kinds : kinds[i] = k})

HeaderScore(kinds) ==
    Cardinality(Range(kinds) \cap {"control", "question", "answer", "evidence",
                                   "status", "confidence"})

\* detectTable: the first line of the best score, among those with a question.
Headers(lines) ==
    LET candidates == {i \in DOMAIN lines : "question" \in Range(lines[i].kinds)}
        best       == {i \in candidates : \A j \in candidates :
                           HeaderScore(lines[j].kinds) <= HeaderScore(lines[i].kinds)}
    IN  {i \in best : /\ \A j \in best : i <= j
                      /\ HeaderScore(lines[i].kinds) > 1 \/ i = 1}

AddColumn(kinds, k) == IF k \in Range(kinds) THEN kinds ELSE Append(kinds, k)

\* ensureCSVColumns, ensureXLSXColumns: the missing ones follow the header.
EnsureColumns(kinds) ==
    AddColumn(AddColumn(AddColumn(AddColumn(kinds, "answer"), "evidence"), "status"),
              "confidence")

Put(line, col, value) ==
    LET width == Max({col, Len(line.cells)})
        cells == [i \in 1 .. width |-> Cell(line, i)]
    IN  [line EXCEPT !.cells = [cells EXCEPT ![col] = value]]

\* set: whatever the cell held is gone.
Overwrite(line, col, what) == Put(line, col, [typed |-> FALSE, ours |-> what])

AddUrl(line, col) ==
    Put(line, col, [typed |-> Cell(line, col).typed, ours |-> "url"])

Skipped(q) == q.control = NoId /\ (q.phrases = {} \/ q.instruction)

\* Mutant: an answer that is there is not looked at.
AnsweredNever(kinds, line) == FALSE

Answered(kinds, line) == Cell(line, Column(kinds, "answer")) # Blank

\* One turn of the loop in processRows.
ProcessRow(kinds, line) ==
    LET decision == Decide(line.question)
        At(k)    == Column(kinds, k)
        Review(ln, status, confidence) ==
            Overwrite(Overwrite(ln, At("status"), status), At("confidence"), confidence)
        answered == IF decision.answer = None THEN line
                    ELSE Overwrite(line, At("answer"), decision.answer)
    IN  IF Skipped(line.question) THEN line
        ELSE IF Answered(kinds, line) THEN Review(line, "needs_human", "existing")
        ELSE Review(IF decision.url THEN AddUrl(answered, At("evidence")) ELSE answered,
                    decision.outcome, decision.method)

\* The lines below the header are rows; the others stay as they are.
Filled(lines, h) ==
    LET kinds == EnsureColumns(lines[h].kinds)
        Line(i) == IF i < h THEN lines[i]
                   ELSE IF i = h
                   THEN [lines[h] EXCEPT !.kinds = kinds,
                            !.cells = [j \in DOMAIN kinds |->
                                IF j <= Len(@) THEN @[j]
                                ELSE [typed |-> FALSE, ours |-> "header"]]]
                   ELSE ProcessRow(kinds, lines[i])
    IN  [i \in DOMAIN lines |-> Line(i)]

\* How the rows of a table that came back were counted.
Totals(lines, h) ==
    LET col == Column(lines[h].kinds, "status")
    IN  [o \in Outcomes |->
            Cardinality({i \in h + 1 .. Len(lines) :
                /\ ~Skipped(lines[i].question)
                /\ Cell(lines[i], col).ours = o})]
-----------------------------------------------------------------------------
FillInit ==
    /\ Init
    /\ uploaded = None /\ sheet = None
    /\ totals = [o \in Outcomes |-> 0]
    /\ fills = MaxFills

\* handleQuestionnaireAutofill answers from the stored verdict.
Autofill ==
    /\ pc = "accepted" /\ fills > 0
    /\ \E lines \in IF sheet = None THEN Sheets ELSE {sheet} :
          IF Headers(lines) = {} THEN UNCHANGED <<uploaded, sheet, totals>>
          ELSE \E h \in Headers(lines) :
                  /\ uploaded' = lines
                  /\ sheet' = Filled(lines, h)
                  /\ totals' = Totals(sheet', h)
    /\ fills' = fills - 1
    /\ UNCHANGED vars

FillNext == (Next /\ UNCHANGED sheetVars) \/ Autofill

FillSpec == FillInit /\ [][FillNext]_<<vars, sheetVars>>
-----------------------------------------------------------------------------
\* summarizeCoverage, summarizeGCPCoverage, summarizeAzureCoverage announce
\* that everything listed was scanned.
CoverageComplete ==
    rep.orgVerified /\ rep.listed # {} /\ Cardinality(rep.scanned) = Cardinality(rep.listed)
ProviderComplete(p) ==
    /\ rep.scopes[p].listed # {}
    /\ Cardinality(rep.scopes[p].scanned) = Cardinality(rep.scopes[p].listed)

\* deriveAIPosture: "No persistent AI/ML resources observed".  A result counts
\* resources if it is a pass or a failure.
PostureClear ==
    \A c \in PersistentChecks : /\ Range(rep.checks[c]) \cap {"pass", "fail"} = {}
                                /\ rep.summary[c] # "error"
-----------------------------------------------------------------------------
\* The state of the scan, and what a buyer gets back.
SheetTypeOK ==
    /\ TypeOK
    /\ fills \in 0 .. MaxFills
    /\ sheet # None =>
          \A i \in DOMAIN sheet :
             \A j \in DOMAIN sheet[i].cells : sheet[i].cells[j].typed \in BOOLEAN
    /\ \A o \in Outcomes : totals[o] \in Nat

\* What a buyer is told holds of every account and project, not of the
\* summaries it is computed from: complete coverage means that every unit was
\* observed under every check, and a clear AI posture that every listed account
\* was looked at and has no such resource.
ClaimsObserved ==
    pc = "accepted" =>
        /\ CoverageComplete =>
              \A c \in AwsChecks : DOMAIN rep.checks[c] = rep.scanned
        /\ \A p \in Providers : ProviderComplete(p) =>
              \A c \in ChecksOf[p] :
                  /\ rep.scopes[p].listed \subseteq DOMAIN rep.checks[c]
                  /\ "error" \notin Range(rep.checks[c])
        /\ PostureClear /\ rep.orgVerified =>
              \A c \in PersistentChecks, x \in rep.listed :
                  x \in rep.scanned /\ rep.checks[c][x] = "not_in_use"

\* An answer rests on exactly the checks that the audit of the mapping names,
\* all of them conclusive in every account: yes means that none of the accounts
\* fails, no that one does, not applicable that the service is in use nowhere.
\* A restricted topic is answered only in its technical half (README, matching
\* rules 1, 4 and 5).
AnswersSupported ==
    sheet # None =>
        \A h \in Headers(sheet) : \A i \in h + 1 .. Len(sheet) :
            LET line   == sheet[i]
                answer == Cell(line, Column(sheet[h].kinds, "answer")).ours
                found  == UNION {Range(rep.checks[c]) : c \in answer.checks}
            IN  answer # None =>
                   /\ answer.checks = AuditRow(line.question).checks
                   /\ answer.checks # {} /\ answer.checks \subseteq DOMAIN rep.checks
                   /\ "error" \notin found
                   /\ answer.text = "no" <=> "fail" \in found
                   /\ answer.text = "not applicable" <=> found = {"not_in_use"}
                   /\ rep.orgVerified =>
                         \A c \in answer.checks \cap AwsChecks :
                             rep.listed = DOMAIN rep.checks[c]
                   /\ answer.partial <=> RestrictedTopic(line.question) = "policy"
                   /\ RestrictedTopic(line.question) \in {"", "policy"}

\* What the customer typed under a header comes back, but for a review status
\* or a confidence; an answer that was there, the customer's or one of an
\* earlier filling, comes back as it was; and every row that was looked at is
\* in exactly one of the totals (README, matching rule 6).
CustomerCellsKept ==
    sheet # None =>
        \A h \in Headers(uploaded) :
            LET kinds == uploaded[h].kinds
                rows  == h + 1 .. Len(uploaded)
            IN  /\ \A i \in DOMAIN uploaded, j \in DOMAIN kinds :
                      LET before == Cell(uploaded[i], j)
                          after  == Cell(sheet[i], j)
                      IN  /\ before.typed /\ kinds[j] \notin {"status", "confidence"}
                                => after.typed
                          /\ before # Blank /\ j = Column(kinds, "answer")
                                => after = before
                /\ MapThenSumSet(LAMBDA o : totals[o], Outcomes)
                     = Cardinality({i \in rows : ~Skipped(uploaded[i].question)})
=============================================================================
