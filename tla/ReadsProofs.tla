---------------------------- MODULE ReadsProofs ----------------------------
(***************************************************************************)
(* Theorems about reading a share link and about the page that does, for   *)
(* any reports, tokens, limits, opening times and moves of the ledger: a   *)
(* revoked link stays gone, a page has no hole, and its parts, read at     *)
(* different times, agree.                                                 *)
(***************************************************************************)
EXTENDS BuyerPage, FiniteSetTheorems, SequenceTheorems, WellFoundedInduction, TLAPS

\* What the readers rely on of the ledger behind them.
LedgerKeeps ==
    /\ token \in [Accounts -> Tokens \cup {NoToken}]
    /\ \A a, b \in Accounts : token[a] = token[b] /\ token[a] # NoToken => a = b
    /\ IsFiniteSet(accepted)
    /\ \A e \in accepted : e.report \in Reports /\ token[e.report.account] # NoToken

Size == IF call.op = "latest" THEN 1 ELSE EffectiveLimit(call.limit)

\* What is asked for was live, and what is returned is stored.
RequestInv ==
    /\ call \in Calls
    /\ asked.revoked \subseteq revoked
    /\ asked.accepted \subseteq accepted
    /\ pc = "query" => call.token \notin asked.revoked
    /\ answer.page \in Seq(Reports)
    /\ Range(answer.page) \subseteq Under(call.token, accepted)
    /\ answer.code = "ok" => Len(answer.page) <= Size
    /\ answer.code = "ok" /\ call.op = "latest" => answer.page # << >>
    /\ RevokedStaysGone
    /\ PageHasNoHole

Stored(rep) == rep \in Under(page.token, accepted)

\* Only one part of the page has a request under way, and it waits for its own.
Waiting ==
    /\ page.phase = "loading" => call.op = "latest" /\ call.token = page.token
    /\ section.phase = "loading" =>
          /\ call = [op |-> "history", token |-> page.token, limit |-> HistoryLimit]
          /\ page.report \in Under(page.token, asked.accepted)
    /\ fill.phase = "running" =>
          /\ call.op = "latest" /\ call.token = page.token
          /\ page.report \in Under(page.token, asked.accepted)

IsPage(p) == DOMAIN p = {"phase", "token", "report", "verdict"}
IsSection(x) == DOMAIN x = {"phase", "todo", "verified", "excluded", "wanted"}

\* The parts of the page appear one after another.
PartsInv ==
    /\ IsPage(page)
    /\ page.token \in Tokens
    /\ page.phase \in {"checking", "done"} => Stored(page.report)
    /\ page.verdict = "verified" => page.phase = "done"
    /\ section.phase \in {"hidden", "start", "loading", "checking", "ready", "error"}
    /\ section.phase # "hidden" <=> page.verdict = "verified"
    /\ fill.phase # "idle" => section.phase \in {"checking", "ready", "error"}

\* What the section has of the history is stored, and misses the report of the
\* page for no other reason than the two it shows.
SectionInv ==
    /\ IsSection(section)
    /\ section.todo \in Seq(Reports) /\ section.verified \in Seq(Reports)
    /\ section.excluded \in Nat
    /\ \A rep \in Range(section.todo) \cup Range(section.verified) : Stored(rep)
    /\ section.phase \in {"checking", "ready"} =>
          \/ page.report \in Range(section.todo) \cup Range(section.verified)
          \/ section.excluded > 0
          \/ Len(section.todo) + Len(section.verified) = HistoryLimit
    /\ section.phase = "ready" => section.todo = << >>
    /\ section.phase \in {"start", "loading"} =>
          section.todo = << >> /\ section.verified = << >>

FillInv ==
    fill.phase = "done" => Stored(fill.report) /\ fill.report.at >= page.report.at

PageInv == LedgerKeeps /\ RequestInv /\ Waiting /\ PartsInv /\ SectionInv /\ FillInv
-----------------------------------------------------------------------------
(* The ledger only grows. *)

LEMMA LedgerGrows ==
    ASSUME LedgerKeeps, [Next]_ledger
    PROVE  /\ LedgerKeeps'
           /\ accepted \subseteq accepted' /\ revoked \subseteq revoked'
           /\ \A e \in accepted : token'[e.report.account] = token[e.report.account]
<1>1. CASE UNCHANGED ledger
  BY <1>1 DEF ledger, LedgerKeeps
<1>2. ASSUME NEW a \in Accounts, Revoke(a)
      PROVE  /\ LedgerKeeps' /\ accepted' = accepted /\ token' = token /\ revoked \subseteq revoked'
  BY <1>2 DEF Revoke, LedgerKeeps
<1>3. ASSUME NEW rep \in Reports, Accept(rep)
      PROVE  /\ LedgerKeeps'
             /\ accepted \subseteq accepted' /\ revoked' = revoked
             /\ \A e \in accepted : token'[e.report.account] = token[e.report.account]
  <2>1. PICK b : accepted' = accepted \cup {[report |-> rep, baseline |-> b]}
    BY <1>3 DEF Accept
  <2>2. rep.account \in Accounts /\ \A e \in accepted : e.report.account \in Accounts
    BY ResultsAssumption DEF LedgerKeeps
  <2>3. IsFiniteSet(accepted')
    BY <2>1, FS_AddElement DEF LedgerKeeps
  <2>4. CASE token[rep.account] # NoToken /\ UNCHANGED token
    BY <1>3, <2>1, <2>3, <2>4 DEF LedgerKeeps, Accept
  <2>5. CASE /\ token[rep.account] = NoToken
             /\ \E t \in Tokens : /\ \A a \in Accounts : token[a] # t
                                  /\ token' = [token EXCEPT ![rep.account] = t]
    <3>1. PICK t \in Tokens : /\ \A a \in Accounts : token[a] # t
                              /\ token' = [token EXCEPT ![rep.account] = t]
      BY <2>5
    <3>2. t # NoToken
      BY <2>2, <2>5, <3>1
    <3>3. \A a \in Accounts : token'[a] = IF a = rep.account THEN t ELSE token[a]
      BY <3>1 DEF LedgerKeeps
    <3>4. \A e \in accepted : token'[e.report.account] = token[e.report.account]
      BY <2>2, <2>5, <3>3 DEF LedgerKeeps
    <3>5. token' \in [Accounts -> Tokens \cup {NoToken}]
      BY <3>1 DEF LedgerKeeps
    <3>6. \A a, c \in Accounts : token'[a] = token'[c] /\ token'[a] # NoToken => a = c
      BY <3>1, <3>3 DEF LedgerKeeps
    <3>7. \A e \in accepted' : e.report \in Reports /\ token'[e.report.account] # NoToken
      BY <2>1, <2>2, <3>2, <3>3, <3>4 DEF LedgerKeeps
    <3> QED BY <1>3, <2>1, <2>3, <3>4, <3>5, <3>6, <3>7 DEF LedgerKeeps, Accept
  <2> QED BY <1>3, <2>4, <2>5 DEF Accept
<1> QED BY <1>1, <1>2, <1>3 DEF Next

\* Under a token the stored reports are those of one account, and finitely many.
LEMMA UnderOne ==
    ASSUME LedgerKeeps, NEW t
    PROVE  /\ Under(t, accepted) \subseteq Reports
           /\ IsFiniteSet(Under(t, accepted))
           /\ \A r, q \in Under(t, accepted) : r.account = q.account
<1> DEFINE E == {f \in accepted : token[f.report.account] = t}
           g == [e \in E |-> e.report]
<1>1. IsFiniteSet(E)
  BY FS_Subset DEF LedgerKeeps
<1>2. g \in Surjection(E, Under(t, accepted))
  BY DEF Under, Surjection
<1>3. IsFiniteSet(Under(t, accepted))
  BY <1>1, <1>2, FS_Surjection
<1>4. Under(t, accepted) \subseteq Reports
  BY DEF Under, LedgerKeeps
<1>5. ASSUME NEW r \in Under(t, accepted), NEW q \in Under(t, accepted)
      PROVE  r.account = q.account
  <2>1. PICK e \in E : r = e.report
    BY DEF Under
  <2>2. PICK f \in E : q = f.report
    BY DEF Under
  <2>3. e.report.account \in Accounts /\ f.report.account \in Accounts
    BY ResultsAssumption DEF LedgerKeeps
  <2> QED BY <2>1, <2>2, <2>3 DEF LedgerKeeps
<1> QED BY <1>3, <1>4, <1>5

LEMMA UnderGrows ==
    ASSUME LedgerKeeps, [Next]_ledger, NEW t, NEW S \in SUBSET accepted
    PROVE  /\ Under(t, S) = Under(t, S)'
           /\ Under(t, accepted) \subseteq Under(t, accepted)'
<1>1. /\ accepted \subseteq accepted'
      /\ \A e \in accepted : token'[e.report.account] = token[e.report.account]
  BY LedgerGrows
<1> QED BY <1>1 DEF Under
-----------------------------------------------------------------------------
(* The pages a handler may return. *)

\* SetToSeqs lists every element: an injection between two finite sets of one
\* size is onto.
LEMMA ListsAll ==
    ASSUME NEW S, IsFiniteSet(S), NEW q \in SetToSeqs(S)
    PROVE  /\ Cardinality(S) \in Nat /\ q \in Seq(S) /\ Len(q) = Cardinality(S)
           /\ \A x \in S : \E k \in 1 .. Len(q) : q[k] = x
<1> DEFINE D == 1 .. Cardinality(S)
<1>1. Cardinality(S) \in Nat
  BY FS_CardinalityType
<1>2. q \in [D -> S] /\ \A i, j \in D : i # j => q[i] # q[j]
  BY DEF SetToSeqs
<1>3. q \in Seq(S) /\ Len(q) = Cardinality(S)
  BY <1>1, <1>2
<1>4. q \in Injection(D, S)
  BY <1>2 DEF Injection, IsInjective
<1>5. Cardinality(D) = Cardinality(S)
  BY <1>1, FS_Interval
<1>6. q \in Surjection(D, S)
  BY <1>4, <1>5, FS_Injection
<1> QED BY <1>1, <1>3, <1>6 DEF Surjection

LEMMA LimitsPositive ==
    /\ \A n \in Limits \cup {0} : EffectiveLimit(n) \in Nat \ {0}
    /\ EffectiveLimit(HistoryLimit) = HistoryLimit
BY LimitsAssumption, PageAssumption DEF EffectiveLimit

\* A page holds stored reports, the newest ones, in order, and is cut off only
\* when it is full.
LEMMA PageOfLedger ==
    ASSUME LedgerKeeps, NEW t, NEW n \in Nat \ {0}, NEW pg \in Pages(t, n)
    PROVE  /\ pg \in Seq(Reports)
           /\ Range(pg) \subseteq Under(t, accepted)
           /\ NewestFirst(pg) /\ Len(pg) <= n
           /\ \A rep \in Under(t, accepted) \ Range(pg) :
                 /\ Len(pg) = n
                 /\ \A i \in DOMAIN pg : pg[i].at >= rep.at
<1> DEFINE U == Under(t, accepted)
<1>1. U \subseteq Reports /\ IsFiniteSet(U)
  BY UnderOne
<1>2. PICK q \in SetToSeqs(U) : NewestFirst(q) /\ pg = FirstRows(q, n)
  BY DEF Pages
<1> HIDE DEF U
<1>3. /\ q \in Seq(U) /\ Len(q) \in Nat
      /\ \A x \in U : \E k \in 1 .. Len(q) : q[k] = x
  BY <1>1, ListsAll
<1> DEFINE m == IF n < Len(q) THEN n ELSE Len(q)
<1>4. m \in 0 .. Len(q) /\ pg = SubSeq(q, 1, m)
  BY <1>2, <1>3 DEF FirstRows
<1>5. /\ pg \in Seq(U) /\ Len(pg) = m
      /\ \A i \in 1 .. m : pg[i] = q[i]
  BY <1>3, <1>4
<1>6. DOMAIN pg = 1 .. m /\ DOMAIN q = 1 .. Len(q)
  BY <1>3, <1>5
<1>7. pg \in Seq(Reports)
  BY <1>1, <1>5, SeqMonotonic
<1>8. Range(pg) \subseteq U
  BY <1>5, <1>6 DEF Range
<1>9. NewestFirst(pg)
  BY <1>2, <1>4, <1>5, <1>6, <1>3 DEF NewestFirst
<1>10. ASSUME NEW rep \in U \ Range(pg)
       PROVE  Len(pg) = n /\ \A i \in DOMAIN pg : pg[i].at >= rep.at
  <2>1. PICK k \in 1 .. Len(q) : q[k] = rep
    BY <1>3
  <2>2. k > m
    <3>1. CASE k \in 1 .. m
      BY <1>5, <1>6, <2>1, <3>1 DEF Range
    <3> QED BY <1>4, <2>1, <3>1, <1>3
  <2>3. m = n
    BY <1>3, <2>1, <2>2
  <2>4. \A i \in 1 .. m : i < k /\ i \in DOMAIN q
    BY <1>3, <1>4, <1>6, <2>2
  <2> QED BY <1>2, <1>5, <1>6, <2>1, <2>3, <2>4 DEF NewestFirst
<1>11. Len(pg) <= n
  BY <1>3, <1>5
<1> QED BY <1>7, <1>8, <1>9, <1>10, <1>11 DEF U
-----------------------------------------------------------------------------
(* The one request. *)

LEMMA NothingShown ==
    ASSUME answer' = Nothing
    PROVE  /\ answer'.page = << >> /\ Range(answer'.page) = {} /\ answer'.page \in Seq(Reports)
           /\ answer'.code # "ok"
           /\ RevokedStaysGone' /\ PageHasNoHole'
BY DEF Nothing, Range, RevokedStaysGone, PageHasNoHole

LEMMA SendKeeps ==
    ASSUME LedgerKeeps, RequestInv, NEW c \in Calls, Send(c)
    PROVE  LedgerKeeps' /\ RequestInv'
<1>1. LedgerKeeps'
  BY LedgerGrows DEF Send
<1>2. /\ asked'.revoked \subseteq revoked' /\ asked'.accepted \subseteq accepted'
      /\ call' \in Calls /\ pc' # "query" /\ answer' = Nothing
  BY DEF Send, ledger
<1> QED BY <1>1, <1>2, NothingShown DEF RequestInv

LEMMA ConsumeKeeps ==
    ASSUME LedgerKeeps, RequestInv, Consume
    PROVE  LedgerKeeps' /\ RequestInv'
<1>1. LedgerKeeps'
  BY LedgerGrows DEF Consume
<1>2. /\ asked'.revoked \subseteq revoked' /\ asked'.accepted \subseteq accepted'
      /\ call' \in Calls /\ pc' # "query" /\ answer' = Nothing
  BY DEF Consume, ledger, RequestInv
<1> QED BY <1>1, <1>2, NothingShown DEF RequestInv

LEMMA MovesKeep ==
    ASSUME LedgerKeeps, RequestInv, [Next]_ledger, UNCHANGED readerVars
    PROVE  LedgerKeeps' /\ RequestInv'
<1>1. /\ LedgerKeeps' /\ accepted \subseteq accepted' /\ revoked \subseteq revoked'
  BY LedgerGrows
<1>2. asked.accepted \subseteq accepted
  BY DEF RequestInv
<1>3. /\ Under(call.token, asked.accepted)' = Under(call.token, asked.accepted)
      /\ Under(call.token, accepted) \subseteq Under(call.token, accepted)'
  <2>1. \A e \in accepted : token'[e.report.account] = token[e.report.account]
    BY LedgerGrows
  <2> QED BY <1>1, <1>2, <2>1 DEF Under, readerVars
<1>4. PageHasNoHole'
  BY <1>3 DEF readerVars, RequestInv, PageHasNoHole
<1> QED BY <1>1, <1>3, <1>4 DEF readerVars, RequestInv, RevokedStaysGone, Size

Answers ==
    \/ ResolveLive \/ ResolveDead \/ HandleLatest \/ HandleHistory
    \/ HandleControlHistory \/ ReadFails

\* An answer that shows nothing.
LEMMA RefuseKeeps ==
    ASSUME RequestInv, NEW code, code # "ok", Refuse(code)
    PROVE  RequestInv'
<1>1. /\ answer'.page = << >> /\ answer'.code # "ok"
      /\ UNCHANGED <<ledger, call, asked>> /\ pc' = "idle"
  BY DEF Refuse, Reply
<1>2. RevokedStaysGone' /\ PageHasNoHole' /\ Range(answer'.page) = {}
  BY <1>1 DEF RevokedStaysGone, PageHasNoHole, Range
<1> QED BY <1>1, <1>2 DEF RequestInv, ledger

\* An answer that shows a page.
LEMMA ReplyKeeps ==
    ASSUME LedgerKeeps, RequestInv, pc = "query", NEW pg \in Pages(call.token, Size), NEW tr,
           Size \in Nat \ {0}, call.op = "latest" => pg # << >>, Reply("ok", pg, tr)
    PROVE  RequestInv'
<1>1. /\ answer'.page = pg /\ answer'.code = "ok"
      /\ UNCHANGED <<ledger, call, asked>> /\ pc' = "idle"
  BY DEF Reply
<1>2. /\ pg \in Seq(Reports) /\ Len(pg) <= Size
      /\ Range(pg) \subseteq Under(call.token, accepted)
      /\ \A rep \in Under(call.token, accepted) \ Range(pg) :
            /\ Len(pg) = Size
            /\ \A i \in DOMAIN pg : pg[i].at >= rep.at
  BY PageOfLedger
<1>3. Under(call.token, asked.accepted) \subseteq Under(call.token, accepted)
  BY DEF RequestInv, Under
<1>4. /\ Under(call.token, asked.accepted)' = Under(call.token, asked.accepted)
      /\ Under(call.token, accepted)' = Under(call.token, accepted)
  BY <1>1 DEF ledger, Under
<1>5. PageHasNoHole'
  BY <1>1, <1>2, <1>3, <1>4 DEF PageHasNoHole, Size
<1>6. RevokedStaysGone'
  BY <1>1 DEF RevokedStaysGone, RequestInv
<1>7. Size' = Size
  BY <1>1 DEF Size
<1> QED BY <1>1, <1>2, <1>4, <1>5, <1>6, <1>7 DEF RequestInv, ledger

LEMMA AnswersKeep ==
    ASSUME LedgerKeeps, RequestInv, Answers
    PROVE  LedgerKeeps' /\ RequestInv' /\ UNCHANGED <<ledger, call, asked>>
<1>1. UNCHANGED <<ledger, call, asked>>
  BY DEF Answers, ResolveLive, ResolveDead, HandleLatest, HandleHistory, HandleControlHistory,
         ReadFails, Refuse, Reply
<1>2. LedgerKeeps'
  BY <1>1, LedgerGrows
<1>3. CASE ResolveLive
  <2>1. UNCHANGED <<ledger, call, asked, answer>> /\ call.token \notin asked.revoked
    BY <1>3 DEF ResolveLive, RequestInv
  <2>2. Under(call.token, accepted)' = Under(call.token, accepted)
        /\ Under(call.token, asked.accepted)' = Under(call.token, asked.accepted)
    BY <2>1 DEF ledger, Under
  <2>3. RevokedStaysGone' /\ PageHasNoHole'
    BY <2>1, <2>2 DEF RequestInv, RevokedStaysGone, PageHasNoHole
  <2>4. Size' = Size
    BY <2>1 DEF Size
  <2> QED BY <1>2, <2>1, <2>2, <2>3, <2>4 DEF RequestInv, ledger
<1>4. CASE ResolveDead \/ ReadFails
  <2>1. Refuse("unknown") \/ Refuse("gone") \/ Refuse("fault")
    BY <1>4 DEF ResolveDead, ReadFails
  <2>2. RequestInv'
    BY <2>1, RefuseKeeps
  <2> QED BY <1>1, <1>2, <2>2
<1>5. call.limit \in Limits \cup {0}
  BY DEF RequestInv, Calls
<1>6. CASE HandleLatest
  <2>1. Size = 1
    BY <1>6 DEF HandleLatest, Size
  <2>2. PICK pg \in Pages(call.token, Size) :
           IF pg = << >> THEN Refuse("no verdicts yet") ELSE Reply("ok", pg, << >>)
    BY <1>6, <2>1 DEF HandleLatest
  <2>3. CASE pg = << >>
    BY <1>1, <1>2, <2>2, <2>3, RefuseKeeps
  <2>4. CASE pg # << >>
    <3>1. Reply("ok", pg, << >>)
      BY <2>2, <2>4, Zenon
    <3>2. pc = "query" /\ Size \in Nat \ {0}
      <4>1. pc = "query"
        BY <1>6 DEF HandleLatest
      <4>2. Size \in Nat \ {0}
        BY <2>1
      <4> QED BY <4>1, <4>2
    <3>3. RequestInv'
      BY <2>4, <3>1, <3>2, ReplyKeeps
    <3> QED BY <1>1, <1>2, <3>3
  <2> QED BY <2>3, <2>4
<1>7. CASE HandleHistory
  <2>1. Size = EffectiveLimit(call.limit) /\ Size \in Nat \ {0} /\ call.op # "latest"
    BY <1>5, <1>7, LimitsPositive DEF HandleHistory, Size
  <2>2. CASE Refuse("bad limit")
    BY <1>1, <1>2, <2>2, RefuseKeeps
  <2>3. ASSUME NEW pg \in Pages(call.token, Size), Reply("ok", pg, << >>)
        PROVE  RequestInv'
    BY <1>7, <2>1, <2>3, ReplyKeeps DEF HandleHistory
  <2> QED BY <1>1, <1>2, <1>7, <2>1, <2>2, <2>3 DEF HandleHistory
<1>8. CASE HandleControlHistory
  <2>1. call.op # "latest" /\ call.limit = 0 /\ Size = EffectiveLimit(0) /\ Size \in Nat \ {0}
    BY <1>8, LimitsPositive DEF HandleControlHistory, RequestInv, Calls, Size
  <2>2. ASSUME NEW pg \in Pages(call.token, Size), Reply("ok", pg, Transitions(pg))
        PROVE  RequestInv'
    BY <1>8, <2>1, <2>2, ReplyKeeps DEF HandleControlHistory
  <2> QED BY <1>1, <1>2, <1>8, <2>1, <2>2 DEF HandleControlHistory
<1> QED BY <1>1, <1>2, <1>3, <1>4, <1>6, <1>7, <1>8 DEF Answers
-----------------------------------------------------------------------------
(* The page and its parts. *)

LEMMA FreshParts ==
    /\ IsSection(Hidden) /\ Hidden.phase = "hidden" /\ Hidden.todo = << >>
    /\ Hidden.verified = << >> /\ Hidden.excluded = 0
    /\ \A t : /\ IsPage(Closed(t)) /\ Closed(t).phase = "closed" /\ Closed(t).token = t
              /\ Closed(t).verdict = "none"
    /\ NotFilled.phase = "idle"
    /\ Range(<< >>) = {} /\ << >> \in Seq(Reports) /\ Len(<< >>) = 0
BY DEF Hidden, Closed, NotFilled, IsSection, IsPage, Range

\* The page is the same, and what was stored still is.
LEMMA QuietKeeps ==
    ASSUME PageInv, [Next]_ledger, UNCHANGED <<pageVars, call, asked>>,
           LedgerKeeps', RequestInv'
    PROVE  PageInv'
<1>1. /\ asked.accepted \subseteq accepted
      /\ \A t : /\ Under(t, asked.accepted)' = Under(t, asked.accepted)
                /\ Under(t, accepted) \subseteq Under(t, accepted)'
  <2>1. asked.accepted \subseteq accepted
    BY DEF PageInv, RequestInv
  <2>2. accepted \subseteq accepted' /\ \A e \in accepted : token'[e.report.account] = token[e.report.account]
    BY LedgerGrows DEF PageInv
  <2> QED BY <2>1, <2>2 DEF Under
<1>2. /\ UNCHANGED <<page, section, fill, call, asked>>
      /\ \A rep : Stored(rep) => Stored(rep)'
  BY <1>1 DEF pageVars, Stored
<1>3. Waiting'
  BY <1>1, <1>2 DEF PageInv, Waiting
<1>4. PartsInv'
  BY <1>2 DEF PageInv, PartsInv
<1>5. SectionInv'
  BY <1>2 DEF PageInv, SectionInv
<1>6. FillInv'
  BY <1>2 DEF PageInv, FillInv
<1> QED BY <1>3, <1>4, <1>5, <1>6 DEF PageInv

LEMMA ServeKeeps == PageInv /\ Serve => PageInv'
<1> SUFFICES ASSUME PageInv, Serve PROVE PageInv'
  OBVIOUS
<1>1. LedgerKeeps' /\ RequestInv' /\ UNCHANGED <<ledger, call, asked>>
  BY AnswersKeep DEF PageInv, Serve, Answers
<1> QED BY <1>1, QuietKeeps DEF Serve

LEMMA MovesKeepPage == PageInv /\ LedgerMoves /\ UNCHANGED pageVars => PageInv'
<1> SUFFICES ASSUME PageInv, Next, UNCHANGED readerVars, UNCHANGED pageVars PROVE PageInv'
  BY DEF LedgerMoves
<1>1. LedgerKeeps' /\ RequestInv'
  BY MovesKeep DEF PageInv
<1> QED BY <1>1, QuietKeeps DEF readerVars

LEMMA StillPage ==
    ASSUME PageInv, UNCHANGED ledger
    PROVE  /\ \A t : Under(t, accepted)' = Under(t, accepted)
           /\ \A rep : page'.token = page.token => (Stored(rep)' <=> Stored(rep))
BY DEF ledger, Under, Stored

LEMMA StutterKeeps == PageInv /\ UNCHANGED buyerVars => PageInv'
<1> SUFFICES ASSUME PageInv, UNCHANGED buyerVars PROVE PageInv'
  OBVIOUS
<1>1. LedgerKeeps' /\ RequestInv'
  BY MovesKeep DEF PageInv, buyerVars
<1> QED BY <1>1, QuietKeeps DEF buyerVars, readerVars

LEMMA TickKeeps == PageInv /\ Tick => PageInv'
<1> SUFFICES ASSUME PageInv, Tick PROVE PageInv'
  OBVIOUS
<1>1. LedgerKeeps' /\ RequestInv'
  BY MovesKeep DEF PageInv, Tick
<1>2. UNCHANGED <<ledger, page, section, fill, call, asked>>
  BY DEF Tick, readerVars
<1>3. /\ \A t : Under(t, asked.accepted)' = Under(t, asked.accepted)
      /\ \A rep : Stored(rep)' <=> Stored(rep)
  BY <1>2 DEF ledger, Under, Stored
<1> QED BY <1>1, <1>2, <1>3 DEF PageInv, Waiting, PartsInv, SectionInv, FillInv

LEMMA ClientAsksKeeps == PageInv /\ ClientAsks => PageInv'
<1> SUFFICES ASSUME PageInv, ClientAsks PROVE PageInv'
  OBVIOUS
<1>1. PICK c \in Calls : Send(c)
  BY DEF ClientAsks, Ask
<1>2. LedgerKeeps' /\ RequestInv'
  BY <1>1, SendKeeps DEF PageInv
<1>3. UNCHANGED <<ledger, page, section, fill>> /\ page.phase = "closed"
  BY <1>1 DEF Send, ClientAsks, pageVars
<1>4. section.phase = "hidden" /\ fill.phase = "idle"
  BY <1>3 DEF PageInv, PartsInv
<1>5. \A rep : Stored(rep)' <=> Stored(rep)
  BY <1>3, StillPage
<1>6. Waiting'
  BY <1>3, <1>4 DEF Waiting
<1> QED BY <1>2, <1>3, <1>5, <1>6 DEF PageInv, PartsInv, SectionInv, FillInv

LEMMA OpenKeeps == PageInv /\ Open => PageInv'
<1> SUFFICES ASSUME PageInv, Open PROVE PageInv'
  OBVIOUS
<1> DEFINE c == [op |-> "latest", token |-> page.token, limit |-> 0]
<1>1. Send(c) /\ c \in Calls /\ call' = c
  BY DEF Open, PageInv, PartsInv, Calls, Send
<1>2. LedgerKeeps' /\ RequestInv'
  BY <1>1, SendKeeps DEF PageInv
<1>3. /\ IsPage(page') /\ page'.phase = "loading" /\ page'.token = page.token
      /\ page'.verdict = "none"
  BY DEF Open, Closed, IsPage
<1>4. section' = Hidden /\ fill' = NotFilled
  BY DEF Open
<1>5. Waiting'
  BY <1>1, <1>3, <1>4, FreshParts DEF Waiting
<1>6. PartsInv' /\ SectionInv' /\ FillInv'
  BY <1>3, <1>4, FreshParts DEF PageInv, PartsInv, SectionInv, FillInv
<1> QED BY <1>2, <1>5, <1>6 DEF PageInv

LEMMA LoadedKeeps == PageInv /\ Loaded => PageInv'
<1> SUFFICES ASSUME PageInv, Loaded PROVE PageInv'
  OBVIOUS
<1>1. LedgerKeeps' /\ RequestInv'
  BY ConsumeKeeps DEF Loaded, PageInv
<1>2. /\ page.phase = "loading" /\ page.verdict # "verified" /\ section.phase = "hidden"
      /\ fill.phase = "idle" /\ UNCHANGED <<ledger, section, fill>>
  BY DEF Loaded, Consume, PageInv, PartsInv
<1>3. CASE answer.code = "ok"
  <2>1. page' = [page EXCEPT !.phase = "checking", !.report = answer.page[1]]
    BY <1>3 DEF Loaded
  <2>2. /\ IsPage(page') /\ page'.phase = "checking" /\ page'.report = answer.page[1]
        /\ page'.token = page.token /\ page'.verdict = page.verdict
    BY <2>1 DEF PageInv, PartsInv, IsPage
  <2>3. answer.page[1] \in Range(answer.page)
    <3>1. answer.page \in Seq(Reports) /\ answer.page # << >>
      BY <1>2, <1>3 DEF PageInv, RequestInv, Waiting
    <3> QED BY <3>1, EmptySeq, LenProperties DEF Range
  <2>4. Stored(page.report)'
    <3>1. page'.report \in Under(page.token, accepted)
      BY <1>2, <2>2, <2>3 DEF PageInv, RequestInv, Waiting
    <3> QED BY <1>2, <2>2, <3>1, StillPage DEF Stored
  <2>5. Waiting' /\ FillInv'
    BY <1>2, <2>2 DEF Waiting, FillInv
  <2>6. PartsInv'
    BY <1>2, <2>2, <2>4 DEF PageInv, PartsInv
  <2>7. SectionInv'
    BY <1>2, <2>2, StillPage DEF PageInv, SectionInv
  <2> QED BY <1>1, <2>5, <2>6, <2>7 DEF PageInv
<1>4. CASE answer.code # "ok"
  <2>1. page' = [page EXCEPT !.phase = "fetch-error"]
    BY <1>4 DEF Loaded
  <2>2. /\ IsPage(page') /\ page'.phase = "fetch-error"
        /\ page'.token = page.token /\ page'.verdict = page.verdict
    BY <2>1 DEF PageInv, PartsInv, IsPage
  <2> QED BY <1>1, <1>2, <2>2, StillPage DEF PageInv, Waiting, PartsInv, SectionInv, FillInv
<1> QED BY <1>3, <1>4

LEMMA VerifiedKeeps == PageInv /\ Verified => PageInv'
<1> SUFFICES ASSUME PageInv, Verified PROVE PageInv'
  OBVIOUS
<1>1. LedgerKeeps' /\ RequestInv'
  BY MovesKeep DEF Verified, PageInv
<1>2. /\ page.phase = "checking" /\ page.verdict # "verified" /\ section.phase = "hidden"
      /\ fill.phase = "idle" /\ UNCHANGED <<ledger, fill, call, asked>>
      /\ Stored(page.report)
  BY DEF Verified, readerVars, PageInv, PartsInv
<1>3. PICK v \in {"verified", "failed"} :
         /\ page' = [page EXCEPT !.phase = "done", !.verdict = v]
         /\ section' = IF v = "verified" THEN [Hidden EXCEPT !.phase = "start"] ELSE Hidden
  BY DEF Verified, Outcomes
<1>4. /\ IsPage(page') /\ page'.phase = "done" /\ page'.report = page.report
      /\ page'.token = page.token /\ page'.verdict = v
  BY <1>3 DEF PageInv, PartsInv, IsPage
<1>5. /\ IsSection(section') /\ section'.todo = << >> /\ section'.verified = << >>
      /\ section'.excluded = 0 /\ section'.phase \in {"hidden", "start"}
      /\ section'.phase = "start" <=> v = "verified"
  BY <1>3 DEF Hidden, IsSection
<1>6. Waiting' /\ FillInv'
  BY <1>2, <1>4, <1>5 DEF Waiting, FillInv
<1>7. PartsInv'
  BY <1>2, <1>4, <1>5, StillPage DEF PageInv, PartsInv
<1>8. SectionInv'
  BY <1>5, FreshParts DEF SectionInv
<1> QED BY <1>1, <1>6, <1>7, <1>8 DEF PageInv

LEMMA FetchHistoryKeeps == PageInv /\ FetchHistory => PageInv'
<1> SUFFICES ASSUME PageInv, FetchHistory PROVE PageInv'
  OBVIOUS
<1> DEFINE c == [op |-> "history", token |-> page.token, limit |-> HistoryLimit]
<1>1. Send(c) /\ c \in Calls /\ call' = c /\ asked'.accepted = accepted
  BY PageAssumption DEF FetchHistory, PageInv, PartsInv, Calls, Send
<1>2. LedgerKeeps' /\ RequestInv'
  BY <1>1, SendKeeps DEF PageInv
<1>3. /\ section.phase = "start" /\ UNCHANGED <<ledger, page, fill>>
      /\ section' = [section EXCEPT !.phase = "loading"]
  BY DEF FetchHistory, Send
<1>4. /\ IsSection(section') /\ section'.phase = "loading" /\ section'.todo = section.todo
      /\ section'.verified = section.verified /\ section'.excluded = section.excluded
  BY <1>3 DEF PageInv, SectionInv, IsSection
<1>5. /\ page.phase = "done" /\ page.verdict = "verified" /\ fill.phase = "idle"
      /\ Stored(page.report)
  BY <1>3 DEF PageInv, PartsInv
<1>6. Waiting'
  <2>1. page'.report \in Under(page.token, accepted)'
    BY <1>3, <1>5, StillPage DEF Stored
  <2>2. Under(page.token, asked.accepted)' = Under(page.token, accepted)'
    BY <1>1, <1>3 DEF Under, ledger
  <2> QED BY <1>1, <1>3, <1>4, <1>5, <2>1, <2>2 DEF Waiting
<1>7. PartsInv' /\ SectionInv' /\ FillInv'
  BY <1>3, <1>4, <1>5, StillPage DEF PageInv, PartsInv, SectionInv, FillInv
<1> QED BY <1>2, <1>6, <1>7 DEF PageInv

LEMMA HistoryArrivesKeeps == PageInv /\ HistoryArrives => PageInv'
<1> SUFFICES ASSUME PageInv, HistoryArrives PROVE PageInv'
  OBVIOUS
<1>1. LedgerKeeps' /\ RequestInv'
  BY ConsumeKeeps DEF HistoryArrives, PageInv
<1>2. /\ section.phase = "loading" /\ UNCHANGED <<ledger, page, fill>>
      /\ section.todo = << >> /\ section.verified = << >>
      /\ page.phase = "done" /\ page.verdict = "verified" /\ fill.phase = "idle"
  BY DEF HistoryArrives, Consume, PageInv, PartsInv, SectionInv
<1>3. call = [op |-> "history", token |-> page.token, limit |-> HistoryLimit]
      /\ page.report \in Under(page.token, asked.accepted)
  BY <1>2 DEF PageInv, Waiting
<1>4. CASE answer.code = "ok"
  <2>1. section' = [section EXCEPT !.phase = "checking", !.todo = answer.page]
    BY <1>4 DEF HistoryArrives
  <2>2. /\ IsSection(section') /\ section'.phase = "checking" /\ section'.todo = answer.page
        /\ section'.verified = << >> /\ section'.excluded = section.excluded
    BY <1>2, <2>1 DEF PageInv, SectionInv, IsSection
  <2>3. /\ answer.page \in Seq(Reports)
        /\ \A rep \in Range(answer.page) : Stored(rep)
    BY <1>3 DEF PageInv, RequestInv, Stored
  <2>4. page.report \in Range(answer.page) \/ Len(answer.page) = HistoryLimit
    BY <1>3, <1>4, LimitsPositive DEF PageInv, RequestInv, PageHasNoHole
  <2>5. Len(answer.page) + Len(<< >>) = Len(answer.page)
    BY <2>3, LenProperties
  <2>6. SectionInv'
    BY <1>2, <2>2, <2>3, <2>4, <2>5, FreshParts, StillPage DEF PageInv, SectionInv
  <2>7. Waiting' /\ PartsInv' /\ FillInv'
    BY <1>2, <2>2, StillPage DEF PageInv, Waiting, PartsInv, FillInv
  <2> QED BY <1>1, <2>6, <2>7 DEF PageInv
<1>5. CASE answer.code # "ok"
  <2>1. section' = [section EXCEPT !.phase = "error"]
    BY <1>5 DEF HistoryArrives
  <2>2. /\ IsSection(section') /\ section'.phase = "error" /\ section'.todo = section.todo
        /\ section'.verified = section.verified /\ section'.excluded = section.excluded
    BY <2>1 DEF PageInv, SectionInv, IsSection
  <2> QED BY <1>1, <1>2, <2>2, StillPage DEF PageInv, Waiting, PartsInv, SectionInv, FillInv
<1> QED BY <1>4, <1>5

\* An entry moves from one list of the section to the other, or is counted.
LEMMA TakeHead ==
    ASSUME NEW s \in Seq(Reports), s # << >>, NEW q \in Seq(Reports)
    PROVE  /\ Head(s) \in Range(s) /\ Tail(s) \in Seq(Reports) /\ Append(q, Head(s)) \in Seq(Reports)
           /\ Range(s) = {Head(s)} \cup Range(Tail(s))
           /\ Range(Append(q, Head(s))) = Range(q) \cup {Head(s)}
           /\ Len(Tail(s)) + Len(Append(q, Head(s))) = Len(s) + Len(q)
<1>1. /\ Len(s) \in Nat \ {0} /\ DOMAIN s = 1 .. Len(s) /\ s[1] = Head(s)
      /\ Len(q) \in Nat /\ DOMAIN q = 1 .. Len(q)
      /\ \A i \in 1 .. Len(q) : q[i] \in Reports
      /\ \A i \in 1 .. Len(s) : s[i] \in Reports
  BY EmptySeq, LenProperties
<1>2. /\ Tail(s) \in Seq(Reports) /\ Len(Tail(s)) = Len(s) - 1 /\ DOMAIN Tail(s) = 1 .. Len(s) - 1
      /\ \A i \in 1 .. Len(s) - 1 : Tail(s)[i] = s[i + 1]
  BY <1>1
<1> DEFINE a == Append(q, Head(s))
<1>3. /\ a \in Seq(Reports) /\ Len(a) = Len(q) + 1 /\ DOMAIN a = 1 .. Len(q) + 1
      /\ a[Len(q) + 1] = Head(s) /\ \A i \in 1 .. Len(q) : a[i] = q[i]
  BY <1>1
<1> HIDE DEF a
<1>4. Range(s) = {Head(s)} \cup Range(Tail(s))
  <2>1. ASSUME NEW i \in 1 .. Len(s) PROVE s[i] \in {Head(s)} \cup Range(Tail(s))
    <3>1. CASE i = 1
      BY <1>1, <3>1
    <3>2. CASE i # 1
      <4>1. i - 1 \in 1 .. Len(s) - 1 /\ (i - 1) + 1 = i
        BY <1>1, <3>2
      <4> QED BY <1>2, <4>1 DEF Range
    <3> QED BY <3>1, <3>2
  <2>2. ASSUME NEW i \in 1 .. Len(s) - 1 PROVE Tail(s)[i] \in Range(s)
    <3>1. i + 1 \in 1 .. Len(s)
      BY <1>1
    <3> QED BY <1>1, <1>2, <3>1 DEF Range
  <2>3. Head(s) \in Range(s)
    BY <1>1 DEF Range
  <2> QED BY <1>1, <1>2, <2>1, <2>2, <2>3 DEF Range
<1>5. Range(a) = Range(q) \cup {Head(s)}
  <2>1. \A i \in 1 .. Len(q) + 1 : i \in 1 .. Len(q) \/ i = Len(q) + 1
    BY <1>1
  <2>2. 1 .. Len(q) \subseteq 1 .. Len(q) + 1 /\ Len(q) + 1 \in 1 .. Len(q) + 1
    BY <1>1
  <2> QED BY <1>1, <1>3, <2>1, <2>2 DEF Range
<1>6. Head(s) \in Range(s)
  BY <1>1 DEF Range
<1>7. Len(Tail(s)) + Len(a) = Len(s) + Len(q)
  BY <1>1, <1>2, <1>3
<1> QED BY <1>2, <1>3, <1>4, <1>5, <1>6, <1>7 DEF a

LEMMA VerifyEntryKeeps == PageInv /\ VerifyEntry => PageInv'
<1> SUFFICES ASSUME PageInv, VerifyEntry PROVE PageInv'
  OBVIOUS
<1>1. LedgerKeeps' /\ RequestInv'
  BY MovesKeep DEF VerifyEntry, PageInv
<1>2. /\ section.phase = "checking" /\ section.todo # << >>
      /\ UNCHANGED <<ledger, page, fill, call, asked>>
      /\ section.todo \in Seq(Reports) /\ section.verified \in Seq(Reports)
      /\ section.excluded \in Nat
  BY DEF VerifyEntry, readerVars, PageInv, SectionInv
<1> DEFINE h == Head(section.todo)
<1>3. PICK v \in {"verified", "failed"} :
         section' = [section EXCEPT
              !.todo = Tail(@),
              !.verified = IF v = "verified" THEN Append(@, h) ELSE @,
              !.excluded = IF v = "verified" THEN @ ELSE @ + 1]
  BY DEF VerifyEntry, Outcomes
<1>4. /\ IsSection(section') /\ section'.phase = "checking"
      /\ section'.todo = Tail(section.todo)
      /\ section'.verified = IF v = "verified" THEN Append(section.verified, h)
                             ELSE section.verified
      /\ section'.excluded = IF v = "verified" THEN section.excluded ELSE section.excluded + 1
  BY <1>2, <1>3 DEF PageInv, SectionInv, IsSection
<1>5. /\ h \in Range(section.todo) /\ Tail(section.todo) \in Seq(Reports)
      /\ Append(section.verified, h) \in Seq(Reports)
      /\ Range(section.todo) = {h} \cup Range(Tail(section.todo))
      /\ Range(Append(section.verified, h)) = Range(section.verified) \cup {h}
      /\ Len(Tail(section.todo)) + Len(Append(section.verified, h))
            = Len(section.todo) + Len(section.verified)
  BY <1>2, TakeHead
<1> HIDE DEF h
<1>6. UNCHANGED <<page, fill, call, asked>> /\ \A rep : Stored(rep)' <=> Stored(rep)
  BY <1>2, StillPage
<1>7. Waiting'
  <2>1. Under(page.token, asked.accepted)' = Under(page.token, asked.accepted)
    BY <1>2 DEF Under, ledger
  <2> QED BY <1>4, <1>6, <2>1 DEF PageInv, Waiting
<1>8. PartsInv' /\ FillInv'
  BY <1>2, <1>4, <1>6 DEF PageInv, PartsInv, FillInv
<1>9. SectionInv'
  <2>1. CASE v = "verified"
    <3>1. Range(section'.todo) \cup Range(section'.verified)
             = Range(section.todo) \cup Range(section.verified)
      BY <1>4, <1>5, <2>1
    <3> QED BY <1>2, <1>4, <1>5, <1>6, <2>1, <3>1 DEF PageInv, SectionInv
  <2>2. CASE v # "verified"
    <3>1. section'.excluded \in Nat /\ section'.excluded > 0
      BY <1>2, <1>4, <2>2
    <3> QED BY <1>2, <1>4, <1>5, <1>6, <2>2, <3>1 DEF PageInv, SectionInv
  <2> QED BY <2>1, <2>2
<1> QED BY <1>1, <1>7, <1>8, <1>9 DEF PageInv

LEMMA SectionReadyKeeps == PageInv /\ SectionReady => PageInv'
<1> SUFFICES ASSUME PageInv, SectionReady PROVE PageInv'
  OBVIOUS
<1>1. LedgerKeeps' /\ RequestInv'
  BY MovesKeep DEF SectionReady, PageInv
<1>2. /\ section.phase = "checking" /\ section.todo = << >>
      /\ UNCHANGED <<ledger, page, fill, call, asked>>
      /\ section' = [section EXCEPT !.phase = "ready"]
  BY DEF SectionReady, readerVars
<1>3. /\ IsSection(section') /\ section'.phase = "ready" /\ section'.todo = section.todo
      /\ section'.verified = section.verified /\ section'.excluded = section.excluded
  BY <1>2 DEF PageInv, SectionInv, IsSection
<1>4. Under(page.token, asked.accepted)' = Under(page.token, asked.accepted)
  BY <1>2 DEF Under, ledger
<1> QED BY <1>1, <1>2, <1>3, <1>4, StillPage DEF PageInv, Waiting, PartsInv, SectionInv, FillInv

LEMMA PickKeeps == PageInv /\ Pick => PageInv'
<1> SUFFICES ASSUME PageInv, Pick PROVE PageInv'
  OBVIOUS
<1>1. LedgerKeeps' /\ RequestInv'
  BY MovesKeep DEF Pick, PageInv
<1>2. /\ section.phase = "ready" /\ UNCHANGED <<ledger, page, fill, call, asked>>
      /\ \E w : section' = [section EXCEPT !.wanted = w]
  BY DEF Pick, readerVars
<1>3. /\ IsSection(section') /\ section'.phase = "ready" /\ section'.todo = section.todo
      /\ section'.verified = section.verified /\ section'.excluded = section.excluded
  BY <1>2 DEF PageInv, SectionInv, IsSection
<1>4. Under(page.token, asked.accepted)' = Under(page.token, asked.accepted)
  BY <1>2 DEF Under, ledger
<1> QED BY <1>1, <1>2, <1>3, <1>4, StillPage DEF PageInv, Waiting, PartsInv, SectionInv, FillInv

LEMMA RunAutofillKeeps == PageInv /\ RunAutofill => PageInv'
<1> SUFFICES ASSUME PageInv, RunAutofill PROVE PageInv'
  OBVIOUS
<1> DEFINE c == [op |-> "latest", token |-> page.token, limit |-> 0]
<1>1. Send(c) /\ c \in Calls /\ call' = c /\ asked'.accepted = accepted
  BY DEF RunAutofill, PageInv, PartsInv, Calls, Send
<1>2. LedgerKeeps' /\ RequestInv'
  BY <1>1, SendKeeps DEF PageInv
<1>3. /\ UNCHANGED <<ledger, page, section>> /\ fill'.phase = "running"
      /\ page.verdict = "verified" /\ section.phase \notin {"start", "loading", "hidden"}
  BY DEF RunAutofill, Send, PageInv, PartsInv
<1>4. page.phase = "done" /\ Stored(page.report)
      /\ section.phase \in {"checking", "ready", "error"}
  BY <1>3 DEF PageInv, PartsInv
<1>5. Waiting'
  <2>1. page'.report \in Under(page.token, accepted)'
    BY <1>3, <1>4, StillPage DEF Stored
  <2>2. Under(page.token, asked.accepted)' = Under(page.token, accepted)'
    BY <1>1, <1>3 DEF Under, ledger
  <2> QED BY <1>1, <1>3, <1>4, <2>1, <2>2 DEF Waiting
<1>6. PartsInv' /\ SectionInv' /\ FillInv'
  BY <1>3, <1>4, StillPage DEF PageInv, PartsInv, SectionInv, FillInv
<1> QED BY <1>2, <1>5, <1>6 DEF PageInv

LEMMA ChooseFileKeeps == PageInv /\ ChooseFile => PageInv'
<1> SUFFICES ASSUME PageInv, ChooseFile PROVE PageInv'
  OBVIOUS
<1>1. LedgerKeeps' /\ RequestInv'
  BY MovesKeep DEF ChooseFile, PageInv
<1>2. /\ UNCHANGED <<ledger, page, section, call, asked>> /\ fill'.phase = "idle"
  BY FreshParts DEF ChooseFile, readerVars
<1>3. Under(page.token, asked.accepted)' = Under(page.token, asked.accepted)
  BY <1>2 DEF Under, ledger
<1> QED BY <1>1, <1>2, <1>3, StillPage DEF PageInv, Waiting, PartsInv, SectionInv, FillInv

LEMMA AutofillArrivesKeeps == PageInv /\ AutofillArrives => PageInv'
<1> SUFFICES ASSUME PageInv, AutofillArrives PROVE PageInv'
  OBVIOUS
<1>1. LedgerKeeps' /\ RequestInv'
  BY ConsumeKeeps DEF AutofillArrives, PageInv
<1>2. /\ UNCHANGED <<ledger, page, section>> /\ fill.phase = "running"
      /\ section.phase \in {"checking", "ready", "error"} /\ page.phase = "done"
      /\ page.verdict = "verified"
      /\ call.op = "latest" /\ call.token = page.token
      /\ page.report \in Under(page.token, asked.accepted)
  BY DEF AutofillArrives, Consume, PageInv, PartsInv, Waiting
<1>3. CASE fill' = [phase |-> "error", report |-> NoReport]
  BY <1>1, <1>2, <1>3, StillPage DEF PageInv, Waiting, PartsInv, SectionInv, FillInv
<1>4. CASE answer.code = "ok" /\ fill' = [phase |-> "done", report |-> answer.page[1]]
  <2>1. fill'.phase = "done" /\ fill'.report = answer.page[1]
    BY <1>4
  <2>2. answer.page \in Seq(Reports) /\ answer.page # << >>
    BY <1>2, <1>4 DEF PageInv, RequestInv
  <2>3. 1 \in DOMAIN answer.page /\ answer.page[1] \in Range(answer.page)
    BY <2>2, EmptySeq, LenProperties DEF Range
  <2>4. answer.page[1] \in Under(page.token, accepted)
    BY <1>2, <2>3 DEF PageInv, RequestInv
  <2>5. answer.page[1].at >= page.report.at
    <3>1. CASE page.report \in Range(answer.page)
      <4>1. Len(answer.page) = 1
        <5>1. Len(answer.page) <= 1
          BY <1>2, <1>4 DEF PageInv, RequestInv, Size
        <5>2. Len(answer.page) \in Nat /\ Len(answer.page) # 0
          BY <2>2, EmptySeq, LenProperties
        <5>3. \A n \in Nat : n <= 1 /\ n # 0 => n = 1
          OBVIOUS
        <5> QED BY <5>1, <5>2, <5>3
      <4>2. answer.page[1] = page.report
        BY <2>2, <3>1, <4>1, LenProperties DEF Range
      <4>3. page.report \in Reports
        BY <2>2, <2>3, <4>2, LenProperties
      <4> QED BY <4>2, <4>3, ResultsAssumption
    <3>2. CASE page.report \notin Range(answer.page)
      BY <1>2, <1>4, <2>3, <3>2 DEF PageInv, RequestInv, PageHasNoHole
    <3> QED BY <3>1, <3>2
  <2>6. FillInv'
    BY <1>2, <2>1, <2>4, <2>5, StillPage DEF FillInv, Stored
  <2>7. Waiting' /\ PartsInv' /\ SectionInv'
    BY <1>2, <2>1, StillPage DEF PageInv, Waiting, PartsInv, SectionInv
  <2> QED BY <1>1, <2>6, <2>7 DEF PageInv
<1> QED BY <1>3, <1>4 DEF AutofillArrives
-----------------------------------------------------------------------------
LEMMA InitPageInv == BuyerInit => PageInv
<1> SUFFICES ASSUME BuyerInit PROVE PageInv
  OBVIOUS
<1>1. /\ token = [a \in Accounts |-> NoToken] /\ accepted = {} /\ revoked = {}
      /\ pc = "idle" /\ call \in Calls
      /\ asked = [accepted |-> {}, revoked |-> {}] /\ answer = Nothing
  BY DEF BuyerInit, ReadsInit, Init
<1>2. LedgerKeeps
  BY <1>1, FS_EmptySet DEF LedgerKeeps
<1>3. RequestInv
  <2>1. /\ answer.page = << >> /\ answer.code = "none" /\ Range(answer.page) = {}
        /\ answer.page \in Seq(Reports)
    BY <1>1 DEF Nothing, Range
  <2> QED BY <1>1, <2>1 DEF RequestInv, RevokedStaysGone, PageHasNoHole
<1>4. PICK t \in Tokens : page = Closed(t)
  BY DEF BuyerInit
<1>5. section = Hidden /\ fill = NotFilled
  BY DEF BuyerInit
<1>6. Waiting /\ PartsInv /\ SectionInv /\ FillInv
  BY <1>4, <1>5, FreshParts DEF Waiting, PartsInv, SectionInv, FillInv
<1> QED BY <1>2, <1>3, <1>6 DEF PageInv

LEMMA NextPageInv == PageInv /\ [BuyerNext]_buyerVars => PageInv'
<1> SUFFICES ASSUME PageInv, [BuyerNext]_buyerVars PROVE PageInv'
  OBVIOUS
<1>1. CASE Serve
  BY <1>1, ServeKeeps
<1>2. CASE PageStep
  BY <1>2, LoadedKeeps, VerifiedKeeps DEF PageStep
<1>3. CASE SectionStep
  BY <1>3, FetchHistoryKeeps, HistoryArrivesKeeps, VerifyEntryKeeps, SectionReadyKeeps
     DEF SectionStep
<1>4. CASE AutofillArrives
  BY <1>4, AutofillArrivesKeeps
<1>5. CASE LedgerMoves /\ UNCHANGED pageVars
  BY <1>5, MovesKeepPage
<1>6. CASE ClientAsks
  BY <1>6, ClientAsksKeeps
<1>7. CASE Open
  BY <1>7, OpenKeeps
<1>8. CASE Pick
  BY <1>8, PickKeeps
<1>9. CASE RunAutofill
  BY <1>9, RunAutofillKeeps
<1>10. CASE ChooseFile
  BY <1>10, ChooseFileKeeps
<1>11. CASE Tick
  BY <1>11, TickKeeps
<1>12. CASE UNCHANGED buyerVars
  BY <1>12, StutterKeeps
<1> QED BY <1>1, <1>2, <1>3, <1>4, <1>5, <1>6, <1>7, <1>8, <1>9, <1>10, <1>11, <1>12
        DEF BuyerNext

LEMMA PageInvHolds == BuyerSpec => []PageInv
BY InitPageInv, NextPageInv, PTL DEF BuyerSpec

-----------------------------------------------------------------------------
(* Types, the order of what is shown, and the transitions of an answer. *)

Codes == {"none", "ok", "unknown", "gone", "no verdicts yet", "bad limit", "fault"}

\* What a step does to the answer.
AnswerMoves ==
    \/ UNCHANGED <<answer, call>>
    \/ \E code \in Codes : answer' = [code |-> code, page |-> << >>, transitions |-> << >>]
    \/ /\ UNCHANGED call
       /\ \E n \in Nat \ {0} : \E pg \in Pages(call.token, n) : \E tr :
             /\ answer' = [code |-> "ok", page |-> pg, transitions |-> tr]
             /\ tr = Transitions(pg) \/ (tr = << >> /\ call.op # "control")

LEMMA AnswerStep ==
    ASSUME PageInv, [BuyerNext]_buyerVars, pc \in {"idle", "resolve", "query"}
    PROVE  AnswerMoves /\ pc' \in {"idle", "resolve", "query"}
<1>1. /\ \A c : Send(c) => answer' = Nothing /\ pc' = "resolve"
      /\ Consume => answer' = Nothing /\ pc' = pc
      /\ \A code : Refuse(code) =>
            /\ answer' = [code |-> code, page |-> << >>, transitions |-> << >>]
            /\ pc' = "idle"
      /\ answer' = Nothing => AnswerMoves
  BY DEF Send, Consume, Refuse, Reply, AnswerMoves, Nothing, Codes
<1>2. CASE Serve
  <2>1. CASE ResolveLive
    BY <2>1 DEF ResolveLive, AnswerMoves
  <2>2. CASE ResolveDead \/ ReadFails
    BY <1>1, <2>2 DEF ResolveDead, ReadFails, AnswerMoves, Codes
  <2>3. CASE HandleLatest
    <3>1. PICK pg \in Pages(call.token, 1) :
             IF pg = << >> THEN Refuse("no verdicts yet") ELSE Reply("ok", pg, << >>)
      BY <2>3 DEF HandleLatest
    <3>2. CASE pg = << >>
      BY <1>1, <3>1, <3>2 DEF AnswerMoves, Codes
    <3>3. CASE pg # << >>
      <4>1. Reply("ok", pg, << >>)
        BY <3>1, <3>3, Zenon
      <4>2. /\ call.op # "control" /\ UNCHANGED call /\ pc' = "idle"
            /\ answer' = [code |-> "ok", page |-> pg, transitions |-> << >>]
        BY <2>3, <4>1 DEF Reply, HandleLatest
      <4>3. 1 \in Nat \ {0}
        OBVIOUS
      <4> QED BY <4>2, <4>3 DEF AnswerMoves
    <3> QED BY <3>2, <3>3
  <2>4. CASE HandleHistory
    <3>1. call.op # "control" /\ EffectiveLimit(call.limit) \in Nat \ {0}
      BY <2>4, LimitsPositive DEF HandleHistory, PageInv, RequestInv, Calls
    <3>2. CASE Refuse("bad limit")
      BY <1>1, <3>2 DEF AnswerMoves, Codes
    <3>3. ASSUME NEW pg \in Pages(call.token, EffectiveLimit(call.limit)),
                 Reply("ok", pg, << >>)
          PROVE  AnswerMoves /\ pc' = "idle"
      BY <3>1, <3>3 DEF Reply, AnswerMoves
    <3> QED BY <2>4, <3>2, <3>3, <1>1 DEF HandleHistory
  <2>5. CASE HandleControlHistory
    <3>1. EffectiveLimit(0) \in Nat \ {0}
      BY LimitsPositive
    <3>2. PICK pg \in Pages(call.token, EffectiveLimit(0)) : Reply("ok", pg, Transitions(pg))
      BY <2>5 DEF HandleControlHistory
    <3> QED BY <3>1, <3>2 DEF Reply, AnswerMoves
  <2> QED BY <1>2, <2>1, <2>2, <2>3, <2>4, <2>5 DEF Serve
<1>3. CASE \/ Loaded \/ HistoryArrives \/ AutofillArrives \/ Open \/ FetchHistory
           \/ RunAutofill \/ ClientAsks
  <2>1. Consume \/ \E c : Send(c)
    BY <1>3 DEF Loaded, HistoryArrives, AutofillArrives, Open, FetchHistory, RunAutofill,
                ClientAsks, Ask
  <2> QED BY <1>1, <2>1
<1>4. CASE UNCHANGED readerVars
  BY <1>4 DEF readerVars, AnswerMoves
<1>5. \/ Serve
      \/ Loaded \/ HistoryArrives \/ AutofillArrives \/ Open \/ FetchHistory
      \/ RunAutofill \/ ClientAsks
      \/ UNCHANGED readerVars
  BY DEF BuyerNext, PageStep, SectionStep, Verified, VerifyEntry, SectionReady, Pick,
         ChooseFile, Tick, LedgerMoves, buyerVars
<1> QED BY <1>2, <1>3, <1>4, <1>5

\* What a step does to the lists of the section.
SectionMoves ==
    \/ /\ section'.todo = section.todo /\ section'.verified = section.verified
       /\ section'.excluded = section.excluded
       /\ section'.phase \in {"hidden", "start", "loading"}
             => section.phase \in {"hidden", "start", "loading"}
    \/ section'.todo = << >> /\ section'.verified = << >> /\ section'.excluded = 0
    \/ /\ section.phase = "loading" /\ answer.code = "ok" /\ call.op = "history"
       /\ call.limit = HistoryLimit
       /\ section'.phase = "checking" /\ section'.todo = answer.page
       /\ section.verified = << >> /\ section'.verified = << >>
       /\ section'.excluded = section.excluded
    \/ /\ section.todo # << >> /\ section'.phase = "checking"
       /\ section'.todo = Tail(section.todo)
       /\ \/ /\ section'.verified = Append(section.verified, Head(section.todo))
             /\ section'.excluded = section.excluded
          \/ /\ section'.verified = section.verified
             /\ section'.excluded = section.excluded + 1

LEMMA SectionStepIs ==
    ASSUME PageInv, [BuyerNext]_buyerVars
    PROVE  SectionMoves
<1>1. IsSection(section)
  BY DEF PageInv, SectionInv
<1>2. CASE UNCHANGED section
  BY <1>2 DEF SectionMoves
<1>3. CASE Open \/ Verified
  <2>1. section' \in {Hidden, [Hidden EXCEPT !.phase = "start"]}
    BY <1>3 DEF Open, Verified
  <2>2. section'.todo = << >> /\ section'.verified = << >> /\ section'.excluded = 0
    BY <2>1 DEF Hidden
  <2> QED BY <2>2 DEF SectionMoves
<1>4. CASE FetchHistory \/ SectionReady
  BY <1>1, <1>4 DEF FetchHistory, SectionReady, SectionMoves, IsSection
<1>5. CASE Pick
  <2>1. \E w : section' = [section EXCEPT !.wanted = w]
    BY <1>5 DEF Pick
  <2> QED BY <1>1, <2>1 DEF SectionMoves, IsSection
<1>6. CASE HistoryArrives
  <2>1. section.phase = "loading" /\ section.verified = << >>
        /\ call.op = "history" /\ call.limit = HistoryLimit
    BY <1>6 DEF HistoryArrives, PageInv, SectionInv, Waiting
  <2>2. CASE answer.code = "ok"
    <3>1. section' = [section EXCEPT !.phase = "checking", !.todo = answer.page]
      BY <1>6, <2>2 DEF HistoryArrives
    <3> QED BY <1>1, <2>1, <2>2, <3>1 DEF SectionMoves, IsSection
  <2>3. CASE answer.code # "ok"
    <3>1. section' = [section EXCEPT !.phase = "error"]
      BY <1>6, <2>3 DEF HistoryArrives
    <3> QED BY <1>1, <3>1 DEF SectionMoves, IsSection
  <2> QED BY <2>2, <2>3
<1>7. CASE VerifyEntry
  <2>1. section.phase = "checking" /\ section.todo # << >>
    BY <1>7 DEF VerifyEntry
  <2>2. PICK v \in {"verified", "failed"} :
         section' = [section EXCEPT
              !.todo = Tail(@),
              !.verified = IF v = "verified" THEN Append(@, Head(section.todo)) ELSE @,
              !.excluded = IF v = "verified" THEN @ ELSE @ + 1]
    BY <1>7 DEF VerifyEntry, Outcomes
  <2>3. /\ section'.phase = section.phase /\ section'.todo = Tail(section.todo)
        /\ section'.verified = IF v = "verified"
                               THEN Append(section.verified, Head(section.todo))
                               ELSE section.verified
        /\ section'.excluded = IF v = "verified" THEN section.excluded
                               ELSE section.excluded + 1
    BY <1>1, <2>2 DEF IsSection
  <2> QED BY <2>1, <2>3 DEF SectionMoves
<1>8. \/ UNCHANGED section \/ Open \/ Verified \/ FetchHistory \/ SectionReady \/ Pick
      \/ HistoryArrives \/ VerifyEntry
  BY DEF BuyerNext, PageStep, SectionStep, Serve, Loaded, AutofillArrives, ClientAsks,
         RunAutofill, ChooseFile, Tick, pageVars, buyerVars
<1> QED BY <1>2, <1>3, <1>4, <1>5, <1>6, <1>7, <1>8
-----------------------------------------------------------------------------
\* The entries are shown and verified as they came, newest first.
OrderInv ==
    /\ NewestFirst(answer.page)
    /\ NewestFirst(section.todo) /\ NewestFirst(section.verified)
    /\ \A i \in DOMAIN section.verified, j \in DOMAIN section.todo :
          section.verified[i].at >= section.todo[j].at

LEMMA EmptyOrder == NewestFirst(<< >>) /\ DOMAIN << >> = {}
BY DEF NewestFirst

LEMMA OrderOfHead ==
    ASSUME NEW s \in Seq(Reports), s # << >>, NEW q \in Seq(Reports),
           NewestFirst(s), NewestFirst(q),
           \A i \in DOMAIN q, j \in DOMAIN s : q[i].at >= s[j].at
    PROVE  /\ NewestFirst(Tail(s)) /\ NewestFirst(Append(q, Head(s)))
           /\ \A i \in DOMAIN q, j \in DOMAIN Tail(s) : q[i].at >= Tail(s)[j].at
           /\ \A i \in DOMAIN Append(q, Head(s)), j \in DOMAIN Tail(s) :
                 Append(q, Head(s))[i].at >= Tail(s)[j].at
<1> DEFINE a == Append(q, Head(s))
           t == Tail(s)
<1>1. /\ Len(s) \in Nat \ {0} /\ DOMAIN s = 1 .. Len(s) /\ s[1] = Head(s)
      /\ Len(q) \in Nat /\ DOMAIN q = 1 .. Len(q)
      /\ \A i \in 1 .. Len(q) : q[i] \in Reports
      /\ \A i \in 1 .. Len(s) : s[i] \in Reports
  BY EmptySeq, LenProperties
<1>2. /\ DOMAIN t = 1 .. Len(s) - 1
      /\ \A i \in 1 .. Len(s) - 1 : t[i] = s[i + 1] /\ i + 1 \in 2 .. Len(s)
  BY <1>1
<1>3. /\ DOMAIN a = 1 .. Len(q) + 1
      /\ a[Len(q) + 1] = s[1] /\ \A i \in 1 .. Len(q) : a[i] = q[i]
  BY <1>1
<1> HIDE DEF a, t
<1>4. NewestFirst(t)
  <2> SUFFICES ASSUME NEW i \in 1 .. Len(s) - 1, NEW j \in 1 .. Len(s) - 1, i < j
               PROVE  t[i].at >= t[j].at
    BY <1>2 DEF NewestFirst
  <2>1. i + 1 \in 1 .. Len(s) /\ j + 1 \in 1 .. Len(s) /\ i + 1 < j + 1
    BY <1>1
  <2> QED BY <1>1, <1>2, <2>1 DEF NewestFirst
<1>5. NewestFirst(a)
  <2> SUFFICES ASSUME NEW i \in 1 .. Len(q) + 1, NEW j \in 1 .. Len(q) + 1, i < j
               PROVE  a[i].at >= a[j].at
    BY <1>3 DEF NewestFirst
  <2>1. i \in 1 .. Len(q) /\ a[i] = q[i]
    BY <1>1, <1>3
  <2>2. CASE j = Len(q) + 1
    BY <1>1, <1>3, <2>1, <2>2
  <2>3. CASE j # Len(q) + 1
    <3>1. j \in 1 .. Len(q)
      BY <1>1, <2>3
    <3>2. a[j] = q[j]
      BY <1>3, <3>1
    <3> QED BY <1>1, <2>1, <3>1, <3>2 DEF NewestFirst
  <2> QED BY <2>2, <2>3
<1>6. ASSUME NEW i \in DOMAIN q, NEW j \in DOMAIN t PROVE q[i].at >= t[j].at
  <2>1. j + 1 \in DOMAIN s /\ t[j] = s[j + 1]
    BY <1>1, <1>2
  <2>2. q[i].at >= s[j + 1].at
    BY <1>6, <2>1
  <2> QED BY <2>1, <2>2
<1>7. ASSUME NEW i \in DOMAIN a, NEW j \in DOMAIN t PROVE a[i].at >= t[j].at
  <2>1. CASE i = Len(q) + 1
    <3>1. 1 \in 1 .. Len(s) /\ j + 1 \in 1 .. Len(s) /\ 1 < j + 1
      BY <1>1, <1>2
    <3>2. a[i] = s[1] /\ t[j] = s[j + 1]
      BY <1>2, <1>3, <2>1
    <3> QED BY <1>1, <3>1, <3>2 DEF NewestFirst
  <2>2. CASE i # Len(q) + 1
    <3>1. i \in DOMAIN q /\ a[i] = q[i]
      BY <1>1, <1>3, <2>2
    <3> QED BY <1>6, <1>7, <3>1
  <2> QED BY <2>1, <2>2
<1> QED BY <1>4, <1>5, <1>6, <1>7 DEF a, t

LEMMA NextOrder ==
    ASSUME PageInv, OrderInv, AnswerMoves, SectionMoves
    PROVE  OrderInv'
<1>1. NewestFirst(answer.page)'
  <2>1. ASSUME NEW n \in Nat \ {0}, NEW pg \in Pages(call.token, n) PROVE NewestFirst(pg)
    BY PageOfLedger DEF PageInv
  <2> QED BY <2>1, EmptyOrder DEF AnswerMoves, OrderInv
<1>2. section.todo \in Seq(Reports) /\ section.verified \in Seq(Reports)
  BY DEF PageInv, SectionInv
<1>3. /\ NewestFirst(section'.todo) /\ NewestFirst(section'.verified)
      /\ \A i \in DOMAIN section'.verified, j \in DOMAIN section'.todo :
            section'.verified[i].at >= section'.todo[j].at
  <2>1. CASE section.todo # << >> /\ section'.todo = Tail(section.todo)
             /\ section'.verified \in {section.verified, Append(section.verified, Head(section.todo))}
    BY <1>2, <2>1, OrderOfHead DEF OrderInv
  <2>2. CASE section'.verified = << >> /\ section'.todo \in {<< >>, answer.page}
    BY <2>2, EmptyOrder DEF OrderInv
  <2>3. CASE section'.todo = section.todo /\ section'.verified = section.verified
    BY <2>3 DEF OrderInv
  <2> QED BY <2>1, <2>2, <2>3 DEF SectionMoves
<1> QED BY <1>1, <1>3 DEF OrderInv
-----------------------------------------------------------------------------
(* The transitions of a control. *)

LEMMA LeastNumber ==
    ASSUME NEW T, T \subseteq Nat, T # {}
    PROVE  \E n \in T : \A m \in T : n <= m
<1>1. PICK n \in T : \A m \in T : <<m, n>> \notin OpToRel(<, Nat)
  BY WFMin, NatLessThanWellFounded
<1>2. ASSUME NEW m \in T PROVE n <= m
  <2>1. ~ (m < n)
    BY <1>1 DEF OpToRel
  <2> QED BY <2>1
<1> QED BY <1>2

LEMMA StatusesAre ==
    ASSUME NEW rep \in Reports, NEW x \in DOMAIN StatusesOf(rep)
    PROVE  /\ rep.included /\ StatusesOf(rep)[x] \in Statuses
           /\ StatusesOf(rep)[x] # NoStatus
<1>1. /\ rep.summary \in Statuses
      /\ \A y \in DOMAIN rep.results : rep.results[y] \in Statuses
  BY ResultsAssumption
<1>2. rep.included
  BY DEF StatusesOf
<1> QED BY <1>1, <1>2, LimitsAssumption DEF StatusesOf

\* The status remembered of an account is that of the verdict before which has it.
LEMMA PreviousIs ==
    ASSUME NEW pg \in Seq(Reports), NEW i \in 1 .. Len(pg), NEW x
    PROVE  \/ Previous(pg, i, x) = NoStatus
           \/ \E j \in i + 1 .. Len(pg) :
                 /\ x \in DOMAIN StatusesOf(pg[j])
                 /\ Previous(pg, i, x) = StatusesOf(pg[j])[x]
                 /\ \A k \in i + 1 .. j - 1 : x \notin DOMAIN StatusesOf(pg[k])
<1> DEFINE earlier == {j \in i + 1 .. Len(pg) : x \in DOMAIN StatusesOf(pg[j])}
<1>1. Len(pg) \in Nat /\ earlier \subseteq Nat
  BY LenProperties
<1>2. Previous(pg, i, x) = IF earlier = {} THEN NoStatus ELSE StatusesOf(pg[Min(earlier)])[x]
  BY DEF Previous
<1>3. CASE earlier # {}
  <2>1. \E n \in earlier : \A m \in earlier : n <= m
    BY <1>1, <1>3, LeastNumber
  <2>2. Min(earlier) \in earlier /\ \A m \in earlier : Min(earlier) <= m
    BY <2>1 DEF Min
  <2>3. Min(earlier) \in i + 1 .. Len(pg) /\ x \in DOMAIN StatusesOf(pg[Min(earlier)])
    BY <2>2
  <2>4. ASSUME NEW k \in i + 1 .. Min(earlier) - 1 PROVE x \notin DOMAIN StatusesOf(pg[k])
    <3>1. k \in i + 1 .. Len(pg) /\ ~(Min(earlier) <= k)
      BY <1>1, <2>3
    <3> QED BY <2>2, <3>1
  <2> QED BY <1>2, <1>3, <2>3, <2>4
<1> QED BY <1>2, <1>3

Told(pg, i, x) == {tr \in TransitionsAt(pg, i) : tr.account = x}

LEMMA ToldIs ==
    ASSUME NEW pg, NEW i, NEW x
    PROVE  /\ x \in DOMAIN StatusesOf(pg[i]) /\ Previous(pg, i, x) # StatusesOf(pg[i])[x]
                 => {tr.current : tr \in Told(pg, i, x)} = {StatusesOf(pg[i])[x]}
           /\ x \notin DOMAIN StatusesOf(pg[i]) \/ Previous(pg, i, x) = StatusesOf(pg[i])[x]
                 => Told(pg, i, x) = {}
<1> DEFINE S == StatusesOf(pg[i])
           Tr(y) == [account |-> y, previous |-> Previous(pg, i, y), current |-> S[y]]
           New == {y \in DOMAIN S : Previous(pg, i, y) # S[y]}
<1>1. TransitionsAt(pg, i) = {Tr(y) : y \in New}
  BY DEF TransitionsAt
<1>2. \A y : Tr(y).account = y /\ Tr(y).current = S[y]
  OBVIOUS
<1> HIDE DEF Tr
<1>3. Told(pg, i, x) = IF x \in New THEN {Tr(x)} ELSE {}
  BY <1>1, <1>2 DEF Told
<1>4. {tr.current : tr \in {Tr(x)}} = {S[x]}
  BY <1>2
<1> QED BY <1>3, <1>4

\* By the oldest verdict that does not replay.
LEMMA Replays ==
    ASSUME NEW pg \in Seq(Reports), NEW i \in 1 .. Len(pg), NEW x \in DOMAIN StatusesOf(pg[i])
    PROVE  \E j \in i .. Len(pg) :
              /\ {tr.current : tr \in Told(pg, j, x)} = {StatusesOf(pg[i])[x]}
              /\ \A k \in i .. j - 1 : Told(pg, k, x) = {}
<1> DEFINE n == Len(pg)
           Good(m) == \E j \in m .. n :
                         /\ {tr.current : tr \in Told(pg, j, x)} = {StatusesOf(pg[m])[x]}
                         /\ \A k \in m .. j - 1 : Told(pg, k, x) = {}
           Wrong == {d \in 0 .. n : n - d \in 1 .. n /\ x \in DOMAIN StatusesOf(pg[n - d])
                                    /\ ~Good(n - d)}
<1>1. n \in Nat /\ \A k \in 1 .. n : pg[k] \in Reports
  BY LenProperties
<1> HIDE DEF n, Good
<1>2. ASSUME Wrong # {} PROVE FALSE
  <2>1. PICK d \in Wrong : \A e \in Wrong : d <= e
    <3>1. Wrong \subseteq Nat
      BY <1>1
    <3> HIDE DEF Wrong
    <3> QED BY <1>2, <3>1, LeastNumber
  <2> DEFINE m == n - d
  <2>2. m \in 1 .. n /\ x \in DOMAIN StatusesOf(pg[m]) /\ ~Good(m)
    OBVIOUS
  <2>3. CASE Previous(pg, m, x) # StatusesOf(pg[m])[x]
    <3>1. m \in m .. n /\ m .. m - 1 = {}
      BY <1>1, <2>2
    <3> QED BY <2>2, <2>3, <3>1, ToldIs DEF Good
  <2>4. CASE Previous(pg, m, x) = StatusesOf(pg[m])[x]
    <3>1. Previous(pg, m, x) # NoStatus
      BY <1>1, <2>2, <2>4, StatusesAre
    <3>2. PICK j \in m + 1 .. n :
             /\ x \in DOMAIN StatusesOf(pg[j])
             /\ StatusesOf(pg[m])[x] = StatusesOf(pg[j])[x]
             /\ \A k \in m + 1 .. j - 1 : x \notin DOMAIN StatusesOf(pg[k])
      BY <2>2, <2>4, <3>1, PreviousIs DEF n
    <3>3. Good(j)
      <4>1. n - j \in 0 .. n /\ n - (n - j) = j /\ j \in 1 .. n /\ ~(d <= n - j)
        BY <1>1, <2>2
      <4>2. n - j \notin Wrong
        BY <2>1, <4>1
      <4> QED BY <3>2, <4>1, <4>2
    <3>4. PICK l \in j .. n :
             /\ {tr.current : tr \in Told(pg, l, x)} = {StatusesOf(pg[j])[x]}
             /\ \A k \in j .. l - 1 : Told(pg, k, x) = {}
      BY <3>3 DEF Good
    <3>5. ASSUME NEW k \in m .. l - 1 PROVE Told(pg, k, x) = {}
      <4>1. k = m \/ k \in m + 1 .. j - 1 \/ k \in j .. l - 1
        BY <1>1, <2>2
      <4> QED BY <2>4, <3>2, <3>4, <4>1, ToldIs
    <3>6. l \in m .. n
      BY <1>1, <2>2
    <3>7. {tr.current : tr \in Told(pg, l, x)} = {StatusesOf(pg[m])[x]}
      BY <3>2, <3>4
    <3> QED BY <2>2, <3>5, <3>6, <3>7 DEF Good
  <2> QED BY <2>3, <2>4
<1>3. n - i \in 0 .. n /\ n - (n - i) = i /\ i \in 1 .. n
  BY <1>1 DEF n
<1>4. Good(i)
  BY <1>2, <1>3
<1> QED BY <1>4 DEF Good, n

LEMMA TransitionsTyped ==
    ASSUME NEW pg \in Seq(Reports)
    PROVE  \A i \in DOMAIN Transitions(pg) : \A tr \in Transitions(pg)[i] :
              tr.current \in Statuses /\ tr.previous \in Statuses \cup {NoStatus}
<1>1. /\ DOMAIN pg = 1 .. Len(pg) /\ Len(pg) \in Nat
      /\ \A i \in 1 .. Len(pg) : pg[i] \in Reports
  BY LenProperties
<1>2. ASSUME NEW i \in 1 .. Len(pg), NEW x \in DOMAIN StatusesOf(pg[i])
      PROVE  /\ StatusesOf(pg[i])[x] \in Statuses
             /\ Previous(pg, i, x) \in Statuses \cup {NoStatus}
  <2>1. StatusesOf(pg[i])[x] \in Statuses
    BY <1>1, StatusesAre
  <2>2. ASSUME NEW j \in i + 1 .. Len(pg), x \in DOMAIN StatusesOf(pg[j])
        PROVE  StatusesOf(pg[j])[x] \in Statuses
    <3>1. pg[j] \in Reports
      BY <1>1
    <3> QED BY <2>2, <3>1, StatusesAre
  <2> QED BY <2>1, <2>2, PreviousIs
<1> QED BY <1>1, <1>2 DEF Transitions, TransitionsAt
-----------------------------------------------------------------------------
StoryInv ==
    /\ PageTypeOK /\ TransitionsReplay
    /\ section.phase \in {"hidden", "start", "loading"} => section.excluded = 0

\* TransitionsReplay, of any page and its transitions.
ReplayedBy(pg, trs) ==
    \A i \in DOMAIN pg :
        LET statuses == StatusesOf(pg[i])
            T(j, x) == {tr \in trs[j] : tr.account = x}
        IN  \A x \in DOMAIN statuses :
               \E j \in i .. Len(pg) :
                  /\ {tr.current : tr \in T(j, x)} = {statuses[x]}
                  /\ \A k \in i .. j - 1 : T(k, x) = {}

LEMMA ReplayIs ==
    /\ TransitionsReplay <=>
          (call.op = "control" => ReplayedBy(answer.page, answer.transitions))
    /\ TransitionsReplay' <=>
          (call'.op = "control" => ReplayedBy(answer'.page, answer'.transitions))
BY DEF TransitionsReplay, ReplayedBy

LEMMA NextStory ==
    ASSUME PageInv, StoryInv, [BuyerNext]_buyerVars, AnswerMoves, SectionMoves,
           pc' \in {"idle", "resolve", "query"}, PageInv'
    PROVE  StoryInv'
<1>1. ReadsTypeOK'
  <2>1. answer'.code \in Codes
    <3>1. answer.code \in Codes
      BY DEF StoryInv, PageTypeOK, ReadsTypeOK, Codes
    <3>2. "ok" \in Codes
      BY DEF Codes
    <3> QED BY <3>1, <3>2 DEF AnswerMoves
  <2>2. \A i \in DOMAIN answer'.transitions : \A tr \in answer'.transitions[i] :
           tr.current \in Statuses /\ tr.previous \in Statuses \cup {NoStatus}
    <3>1. ASSUME NEW n \in Nat \ {0}, NEW pg \in Pages(call.token, n) PROVE pg \in Seq(Reports)
      BY PageOfLedger DEF PageInv
    <3>2. CASE UNCHANGED answer
      BY <3>2 DEF StoryInv, PageTypeOK, ReadsTypeOK
    <3>3. CASE answer'.transitions = << >>
      BY <3>3
    <3>4. CASE \E n \in Nat \ {0} : \E pg \in Pages(call.token, n) :
                  answer'.transitions = Transitions(pg)
      BY <3>1, <3>4, TransitionsTyped
    <3> QED BY <3>2, <3>3, <3>4 DEF AnswerMoves
  <2>3. answer'.page \in Seq(Reports)
    BY DEF PageInv, RequestInv
  <2>4. Range(answer'.page) \subseteq Reports
    BY <2>3, LenProperties DEF Range
  <2> QED BY <2>1, <2>2, <2>4 DEF PageInv, RequestInv, ReadsTypeOK, Codes
<1>2. TransitionsReplay'
  <2>1. CASE UNCHANGED <<answer, call>>
    BY <2>1, ReplayIs DEF StoryInv
  <2>2. CASE answer'.page = << >>
    BY <2>2, ReplayIs DEF ReplayedBy
  <2>3. ASSUME NEW n \in Nat \ {0}, NEW pg \in Pages(call.token, n), UNCHANGED call,
               answer'.page = pg, call.op = "control" => answer'.transitions = Transitions(pg)
        PROVE  TransitionsReplay'
    <3>1. pg \in Seq(Reports) /\ DOMAIN pg = 1 .. Len(pg)
      BY PageOfLedger, LenProperties DEF PageInv
    <3>2. \A j \in DOMAIN pg : Transitions(pg)[j] = TransitionsAt(pg, j)
      BY DEF Transitions
    <3>3. ASSUME NEW i \in 1 .. Len(pg), NEW j \in i .. Len(pg) PROVE j \in DOMAIN pg
      BY <3>1
    <3>4. ASSUME NEW i \in 1 .. Len(pg), NEW j \in i .. Len(pg), NEW k \in i .. j - 1
          PROVE  k \in DOMAIN pg
      BY <3>1
    <3>5. ASSUME NEW i \in 1 .. Len(pg), NEW x \in DOMAIN StatusesOf(pg[i])
          PROVE  \E j \in i .. Len(pg) :
                    /\ {tr.current : tr \in {r \in Transitions(pg)[j] : r.account = x}}
                          = {StatusesOf(pg[i])[x]}
                    /\ \A k \in i .. j - 1 : {r \in Transitions(pg)[k] : r.account = x} = {}
      <4>1. PICK j \in i .. Len(pg) :
              /\ {tr.current : tr \in Told(pg, j, x)} = {StatusesOf(pg[i])[x]}
              /\ \A k \in i .. j - 1 : Told(pg, k, x) = {}
        BY <3>1, Replays
      <4>2. \A k \in DOMAIN pg : {r \in Transitions(pg)[k] : r.account = x} = Told(pg, k, x)
        BY <3>2 DEF Told
      <4> QED BY <3>3, <3>4, <4>1, <4>2
    <3>6. ReplayedBy(pg, Transitions(pg))
      BY <3>1, <3>5 DEF ReplayedBy
    <3> QED BY <2>3, <3>6, ReplayIs
  <2> QED BY <2>1, <2>2, <2>3 DEF AnswerMoves
<1>3. now' \in Times /\ opens' \in 0 .. MaxOpens
  <2>1. now \in Times /\ opens \in 0 .. MaxOpens /\ MaxOpens \in Nat
    BY PageAssumption DEF StoryInv, PageTypeOK
  <2>2. CASE Tick
    BY <2>1, <2>2 DEF Tick
  <2>3. CASE Open
    BY <2>1, <2>3 DEF Open
  <2>4. CASE UNCHANGED <<now, opens>>
    BY <2>1, <2>4
  <2> QED BY <2>2, <2>3, <2>4
        DEF BuyerNext, PageStep, SectionStep, Serve, Loaded, Verified, FetchHistory,
            HistoryArrives, VerifyEntry, SectionReady, AutofillArrives, ClientAsks, Pick,
            RunAutofill, ChooseFile, pageVars, buyerVars
<1>4. /\ page'.phase \in {"closed", "loading", "checking", "fetch-error", "done"}
      /\ page'.report \in Reports \cup {NoReport}
      /\ page'.verdict \in {"none", "verified", "failed"}
  <2>1. /\ page.phase \in {"closed", "loading", "checking", "fetch-error", "done"}
        /\ page.report \in Reports \cup {NoReport}
        /\ page.verdict \in {"none", "verified", "failed"} /\ IsPage(page)
    BY DEF StoryInv, PageTypeOK, PageInv, PartsInv
  <2>2. CASE Open
    <3>1. page' = [Closed(page.token) EXCEPT !.phase = "loading"]
      BY <2>2 DEF Open
    <3> QED BY <3>1 DEF Closed
  <2>3. CASE Loaded
    <3>1. CASE answer.code = "ok"
      <4>1. answer.page \in Seq(Reports) /\ answer.page # << >>
        BY <2>3, <3>1 DEF Loaded, PageInv, RequestInv, Waiting
      <4>2. answer.page[1] \in Reports
        BY <4>1, EmptySeq, LenProperties
      <4>3. page' = [page EXCEPT !.phase = "checking", !.report = answer.page[1]]
        BY <2>3, <3>1 DEF Loaded
      <4> QED BY <2>1, <4>2, <4>3 DEF IsPage
    <3>2. CASE answer.code # "ok"
      <4>1. page' = [page EXCEPT !.phase = "fetch-error"]
        BY <2>3, <3>2 DEF Loaded
      <4> QED BY <2>1, <4>1 DEF IsPage
    <3> QED BY <3>1, <3>2
  <2>4. CASE Verified
    <3>1. PICK v \in {"verified", "failed"} : page' = [page EXCEPT !.phase = "done", !.verdict = v]
      BY <2>4 DEF Verified, Outcomes
    <3> QED BY <2>1, <3>1 DEF IsPage
  <2>5. CASE UNCHANGED page
    BY <2>1, <2>5
  <2> QED BY <2>2, <2>3, <2>4, <2>5
        DEF BuyerNext, PageStep, SectionStep, Serve, FetchHistory, Tick,
            HistoryArrives, VerifyEntry, SectionReady, AutofillArrives, ClientAsks, Pick,
            RunAutofill, ChooseFile, pageVars, buyerVars
<1>5. /\ fill'.phase \in {"idle", "running", "done", "error"}
      /\ fill'.report \in Reports \cup {NoReport}
  <2>1. CASE UNCHANGED fill
    BY <2>1 DEF StoryInv, PageTypeOK
  <2>2. CASE Open \/ ChooseFile \/ RunAutofill
    BY <2>2 DEF Open, ChooseFile, RunAutofill, NotFilled
  <2>3. CASE AutofillArrives
    <3>1. CASE answer.code = "ok" /\ fill' = [phase |-> "done", report |-> answer.page[1]]
      <4>1. answer.page \in Seq(Reports) /\ answer.page # << >>
        BY <2>3, <3>1 DEF AutofillArrives, PageInv, RequestInv, Waiting
      <4>2. answer.page[1] \in Reports
        BY <4>1, EmptySeq, LenProperties
      <4> QED BY <3>1, <4>2
    <3>2. CASE fill' = [phase |-> "error", report |-> NoReport]
      BY <3>2
    <3> QED BY <2>3, <3>1, <3>2 DEF AutofillArrives
  <2> QED BY <2>1, <2>2, <2>3
        DEF BuyerNext, PageStep, SectionStep, Serve, Loaded, Verified, FetchHistory, Tick,
            HistoryArrives, VerifyEntry, SectionReady, ClientAsks, Pick, pageVars, buyerVars
<1>6. /\ section'.excluded + Len(section'.verified) + Len(section'.todo) <= HistoryLimit
      /\ section'.phase \in {"hidden", "start", "loading"} => section'.excluded = 0
  <2>1. /\ section.todo \in Seq(Reports) /\ section.verified \in Seq(Reports)
        /\ section.excluded \in Nat /\ answer.page \in Seq(Reports)
        /\ section.excluded + Len(section.verified) + Len(section.todo) <= HistoryLimit
        /\ section.phase \in {"hidden", "start", "loading"} => section.excluded = 0
        /\ Len(<< >>) = 0 /\ HistoryLimit \in Nat
    BY PageAssumption DEF PageInv, RequestInv, SectionInv, StoryInv, PageTypeOK
  <2>2. Len(section.todo) \in Nat /\ Len(section.verified) \in Nat /\ Len(answer.page) \in Nat
    BY <2>1, LenProperties
  <2>3. CASE /\ section.todo # << >> /\ section'.phase = "checking"
             /\ section'.todo = Tail(section.todo)
             /\ \/ /\ section'.verified = Append(section.verified, Head(section.todo))
                   /\ section'.excluded = section.excluded
                \/ /\ section'.verified = section.verified
                   /\ section'.excluded = section.excluded + 1
    <3>1. /\ Len(Tail(section.todo)) = Len(section.todo) - 1
          /\ Len(Append(section.verified, Head(section.todo))) = Len(section.verified) + 1
      BY <2>1, <2>3
    <3> DEFINE e == section.excluded
               v == Len(section.verified)
               t == Len(section.todo)
    <3>2. \/ /\ section'.excluded = e /\ Len(section'.verified) = v + 1
             /\ Len(section'.todo) = t - 1
          \/ /\ section'.excluded = e + 1 /\ Len(section'.verified) = v
             /\ Len(section'.todo) = t - 1
      BY <2>3, <3>1
    <3>3. e \in Nat /\ v \in Nat /\ t \in Nat /\ e + v + t <= HistoryLimit
      BY <2>1, <2>2
    <3> HIDE DEF e, v, t
    <3>4. HistoryLimit \in Nat /\ section'.phase = "checking"
      BY <2>1, <2>3
    <3>5. section'.excluded + Len(section'.verified) + Len(section'.todo) <= HistoryLimit
      BY <3>2, <3>3, <3>4
    <3> QED BY <3>4, <3>5
  <2>4. CASE section'.todo = << >> /\ section'.verified = << >> /\ section'.excluded = 0
    BY <2>1, <2>4
  <2>5. CASE /\ section.phase = "loading" /\ answer.code = "ok" /\ call.op = "history"
             /\ call.limit = HistoryLimit
             /\ section'.phase = "checking" /\ section'.todo = answer.page
             /\ section'.verified = << >> /\ section'.excluded = section.excluded
    <3>1. Len(answer.page) <= HistoryLimit
      BY <2>5, LimitsPositive DEF PageInv, RequestInv, Size
    <3> QED BY <2>1, <2>2, <2>5, <3>1
  <2>6. CASE /\ section'.todo = section.todo /\ section'.verified = section.verified
             /\ section'.excluded = section.excluded
             /\ section'.phase \in {"hidden", "start", "loading"}
                   => section.phase \in {"hidden", "start", "loading"}
    BY <2>1, <2>2, <2>6
  <2> QED BY <2>3, <2>4, <2>5, <2>6 DEF SectionMoves
<1>7. Range(section'.todo) \cup Range(section'.verified) \subseteq Reports
  <2>1. section'.todo \in Seq(Reports) /\ section'.verified \in Seq(Reports)
    BY DEF PageInv, SectionInv
  <2> QED BY <2>1, LenProperties DEF Range
<1>8. /\ section'.phase \in {"hidden", "start", "loading", "checking", "ready", "error"}
      /\ section'.phase # "hidden" => page'.verdict = "verified"
  BY DEF PageInv, PartsInv
<1> QED BY <1>1, <1>2, <1>3, <1>4, <1>5, <1>6, <1>7, <1>8 DEF StoryInv, PageTypeOK

LEMMA InitStory == BuyerInit => OrderInv /\ StoryInv
<1> SUFFICES ASSUME BuyerInit PROVE OrderInv /\ StoryInv
  OBVIOUS
<1>1. /\ answer.page = << >> /\ answer.transitions = << >> /\ answer.code = "none"
      /\ section = Hidden /\ fill = NotFilled /\ \E t \in Tokens : page = Closed(t)
      /\ accepted = {} /\ revoked = {} /\ pc = "idle" /\ call \in Calls
      /\ asked = [accepted |-> {}, revoked |-> {}]
      /\ now \in Times /\ opens \in 0 .. MaxOpens
  BY PageAssumption DEF BuyerInit, ReadsInit, Init, Nothing
<1>2. /\ section.todo = << >> /\ section.verified = << >> /\ section.excluded = 0
      /\ section.phase = "hidden" /\ fill.phase = "idle" /\ fill.report = NoReport
      /\ page.phase = "closed" /\ page.report = NoReport /\ page.verdict = "none"
      /\ Len(<< >>) = 0 /\ Range(<< >>) = {} /\ DOMAIN << >> = {}
  BY <1>1 DEF Hidden, NotFilled, Closed, Range
<1>3. OrderInv
  BY <1>1, <1>2, EmptyOrder DEF OrderInv
<1>4. ReadsTypeOK
  BY <1>1, <1>2 DEF ReadsTypeOK
<1>5. TransitionsReplay
  BY <1>1, <1>2 DEF TransitionsReplay
<1>6. 0 + 0 + 0 <= HistoryLimit
  BY PageAssumption
<1> QED BY <1>1, <1>2, <1>3, <1>4, <1>5, <1>6 DEF StoryInv, PageTypeOK

LEMMA StoryHolds == BuyerSpec => [](PageInv /\ OrderInv /\ StoryInv)
<1>1. BuyerInit => PageInv /\ OrderInv /\ StoryInv
  BY InitPageInv, InitStory
<1>2. PageInv /\ OrderInv /\ StoryInv /\ [BuyerNext]_buyerVars
         => (PageInv /\ OrderInv /\ StoryInv)'
  <2> SUFFICES ASSUME PageInv, OrderInv, StoryInv, [BuyerNext]_buyerVars
               PROVE  (PageInv /\ OrderInv /\ StoryInv)'
    OBVIOUS
  <2>1. PageInv'
    BY NextPageInv
  <2>2. AnswerMoves /\ pc' \in {"idle", "resolve", "query"}
    BY AnswerStep DEF StoryInv, PageTypeOK, ReadsTypeOK
  <2>3. SectionMoves
    BY SectionStepIs
  <2>4. OrderInv' /\ StoryInv'
    BY <2>1, <2>2, <2>3, NextOrder, NextStory
  <2> QED BY <2>1, <2>4
<1> QED BY <1>1, <1>2, PTL DEF BuyerSpec
-----------------------------------------------------------------------------
(* The changes between two scans. *)

\* The pair that is compared: the later scan stands first on the timeline.
LEMMA PairIs ==
    ASSUME PageInv, OrderInv, NEW pair \in Pair
    PROVE  /\ Stored(pair.current) /\ Stored(pair.previous)
           /\ pair.current \in Reports /\ pair.previous \in Reports
           /\ pair.previous.at <= pair.current.at
           /\ pair.previous.account = pair.current.account
<1> DEFINE v == section.verified
<1>1. v \in Seq(Reports) /\ NewestFirst(v) /\ \A rep \in Range(v) : Stored(rep)
  BY DEF PageInv, SectionInv, OrderInv
<1>2. PICK p \in IndexOf(Wanted[1]) \X IndexOf(Wanted[2]) :
         /\ p[1] # p[2]
         /\ pair = [current |-> v[Min({p[1], p[2]})], previous |-> v[Max({p[1], p[2]})]]
  BY DEF Pair
<1>3. p[1] \in DOMAIN v /\ p[2] \in DOMAIN v
  BY <1>2 DEF IndexOf
<1> HIDE DEF v
<1>4. DOMAIN v = 1 .. Len(v) /\ Len(v) \in Nat
  BY <1>1, LenProperties
<1>5. /\ Min({p[1], p[2]}) \in {p[1], p[2]} /\ Max({p[1], p[2]}) \in {p[1], p[2]}
      /\ Min({p[1], p[2]}) < Max({p[1], p[2]})
  <2>1. p[1] \in Nat /\ p[2] \in Nat /\ p[1] # p[2]
    BY <1>2, <1>3, <1>4
  <2>2. CASE p[1] < p[2]
    <3>1. /\ p[1] \in {p[1], p[2]} /\ \A y \in {p[1], p[2]} : p[1] <= y
          /\ \A x \in {p[1], p[2]} : (\A y \in {p[1], p[2]} : x <= y) => x = p[1]
      BY <2>1, <2>2
    <3>2. /\ p[2] \in {p[1], p[2]} /\ \A y \in {p[1], p[2]} : p[2] >= y
          /\ \A x \in {p[1], p[2]} : (\A y \in {p[1], p[2]} : x >= y) => x = p[2]
      BY <2>1, <2>2
    <3> QED BY <2>1, <2>2, <3>1, <3>2 DEF Min, Max
  <2>3. CASE p[2] < p[1]
    <3>1. /\ p[2] \in {p[1], p[2]} /\ \A y \in {p[1], p[2]} : p[2] <= y
          /\ \A x \in {p[1], p[2]} : (\A y \in {p[1], p[2]} : x <= y) => x = p[2]
      BY <2>1, <2>3
    <3>2. /\ p[1] \in {p[1], p[2]} /\ \A y \in {p[1], p[2]} : p[1] >= y
          /\ \A x \in {p[1], p[2]} : (\A y \in {p[1], p[2]} : x >= y) => x = p[1]
      BY <2>1, <2>3
    <3> QED BY <2>1, <2>3, <3>1, <3>2 DEF Min, Max
  <2> QED BY <2>1, <2>2, <2>3
<1>6. PICK i \in DOMAIN v, j \in DOMAIN v :
         i < j /\ pair.current = v[i] /\ pair.previous = v[j]
  BY <1>2, <1>3, <1>5
<1>7. v[i] \in Reports /\ v[j] \in Reports /\ v[i] \in Range(v) /\ v[j] \in Range(v)
  BY <1>1, <1>4 DEF Range
<1>8. v[i].at >= v[j].at /\ v[i].at \in Nat /\ v[j].at \in Nat
  BY <1>1, <1>6, <1>7, ResultsAssumption DEF NewestFirst
<1>9. v[i].account = v[j].account
  BY <1>1, <1>7, UnderOne DEF PageInv, Stored
<1> QED BY <1>1, <1>6, <1>7, <1>8, <1>9

Events(k, S, x) == {f \in {e \in S : e.kind = k} : f.account = x}

\* Of one account DiffReports has the status, if it changed, and the findings
\* that came and went.
LEMMA DiffIs ==
    ASSUME NEW old, NEW new, NEW x \in DOMAIN old \cap DOMAIN new
    PROVE  LET shown == DiffReports(old, new)
           IN  /\ {e.current : e \in Events("status_changed", shown, x)}
                     = {new[x].status} \ {old[x].status}
               /\ {e.finding : e \in Events("resolved_finding", shown, x)}
                     = old[x].findings \ new[x].findings
               /\ {e.finding : e \in Events("new_finding", shown, x)}
                     = new[x].findings \ old[x].findings
               /\ new[x].status \in Bad \ {old[x].status} =>
                     \E e \in shown : e.severity = "regression" /\ e.account = x
<1> DEFINE shown == DiffReports(old, new)
           St(y) == [kind |-> "status_changed", account |-> y, previous |-> old[y].status,
                     current |-> new[y].status,
                     severity |-> StatusSeverity(old[y].status, new[y].status)]
           Fnd(y, f) == [kind |-> "new_finding", account |-> y, finding |-> f,
                         severity |-> "regression"]
           Rsv(y, f) == [kind |-> "resolved_finding", account |-> y, finding |-> f,
                         severity |-> "improvement"]
           D == DOMAIN old \cap DOMAIN new
<1>1. \A e : e \in shown <=>
         \E y \in D : \/ new[y].status # old[y].status /\ e = St(y)
                      \/ \E f \in new[y].findings \ old[y].findings : e = Fnd(y, f)
                      \/ \E f \in old[y].findings \ new[y].findings : e = Rsv(y, f)
  BY DEF DiffReports, StatusChanged, FindingsChanged
<1>2. /\ \A y : St(y).kind = "status_changed" /\ St(y).account = y /\ St(y).current = new[y].status
      /\ \A y, f : Fnd(y, f).kind = "new_finding" /\ Fnd(y, f).account = y /\ Fnd(y, f).finding = f
      /\ \A y, f : Rsv(y, f).kind = "resolved_finding" /\ Rsv(y, f).account = y
                   /\ Rsv(y, f).finding = f
  OBVIOUS
<1>3. new[x].status \in Bad => St(x).severity = "regression"
  BY DEF StatusSeverity
<1> HIDE DEF shown, St, Fnd, Rsv
<1>4. \A e : e \in Events("status_changed", shown, x)
               <=> new[x].status # old[x].status /\ e = St(x)
  BY <1>1, <1>2 DEF Events
<1>5. \A e : e \in Events("new_finding", shown, x)
               <=> \E f \in new[x].findings \ old[x].findings : e = Fnd(x, f)
  BY <1>1, <1>2 DEF Events
<1>6. \A e : e \in Events("resolved_finding", shown, x)
               <=> \E f \in old[x].findings \ new[x].findings : e = Rsv(x, f)
  BY <1>1, <1>2 DEF Events
<1>7. {e.current : e \in Events("status_changed", shown, x)} = {new[x].status} \ {old[x].status}
  BY <1>2, <1>4
<1>8. {e.finding : e \in Events("resolved_finding", shown, x)} = old[x].findings \ new[x].findings
  BY <1>2, <1>6
<1>9. {e.finding : e \in Events("new_finding", shown, x)} = new[x].findings \ old[x].findings
  BY <1>2, <1>5
<1>10. new[x].status \in Bad \ {old[x].status} =>
          \E e \in shown : e.severity = "regression" /\ e.account = x
  BY <1>1, <1>2, <1>3
<1> QED BY <1>7, <1>8, <1>9, <1>10 DEF shown

\* The inventory: what Detect adds and removes.
LEMMA DetectIs ==
    ASSUME NEW prev, NEW cur, prev.listed \cup prev.scanned # {}
    PROVE  LET scope == Detect(prev, cur)
           IN  /\ {e.account : e \in {f \in scope : f.kind = "account_added"}}
                     = cur.listed \ prev.listed
               /\ {e.account : e \in {f \in scope : f.kind = "account_removed"}}
                     = prev.listed \ cur.listed
               /\ \A x \in (cur.listed \ prev.listed) \ cur.scanned :
                     \E e \in {f \in scope : f.kind = "account_added"} :
                        e.account = x /\ e.severity = "regression"
               /\ RatioDropped(prev, cur) => {f \in scope : f.kind = "coverage_decreased"} # {}
<1> DEFINE scope == Detect(prev, cur)
           Drop == [kind |-> "coverage_decreased", severity |-> "regression"]
<1>1. \A e : e \in scope <=>
         \/ \E x \in cur.listed \ prev.listed : e = Added(x, cur)
         \/ \E x \in prev.listed \ cur.listed : e = Removed(x)
         \/ RatioDropped(prev, cur) /\ e = Drop
  BY DEF Detect
<1>2. /\ \A x : /\ Added(x, cur).kind = "account_added" /\ Added(x, cur).account = x
                /\ x \notin cur.scanned => Added(x, cur).severity = "regression"
      /\ \A x : Removed(x).kind = "account_removed" /\ Removed(x).account = x
      /\ Drop.kind = "coverage_decreased"
  BY DEF Added, Removed
<1> HIDE DEF scope, Drop
<1>3. \A e : e \in {f \in scope : f.kind = "account_added"}
               <=> \E x \in cur.listed \ prev.listed : e = Added(x, cur)
  BY <1>1, <1>2
<1>4. \A e : e \in {f \in scope : f.kind = "account_removed"}
               <=> \E x \in prev.listed \ cur.listed : e = Removed(x)
  BY <1>1, <1>2
<1>5. {e.account : e \in {f \in scope : f.kind = "account_added"}} = cur.listed \ prev.listed
  BY <1>2, <1>3
<1>6. {e.account : e \in {f \in scope : f.kind = "account_removed"}} = prev.listed \ cur.listed
  BY <1>2, <1>4
<1>7. RatioDropped(prev, cur) => Drop \in {f \in scope : f.kind = "coverage_decreased"}
  BY <1>1, <1>2
<1> QED BY <1>2, <1>3, <1>5, <1>6, <1>7 DEF scope

LEMMA ResultsAre ==
    ASSUME NEW rep
    PROVE  /\ DOMAIN ResultsOf(rep) = DOMAIN StatusesOf(rep)
           /\ \A x \in DOMAIN StatusesOf(rep) : ResultsOf(rep)[x].status = StatusesOf(rep)[x]
BY DEF ResultsOf

LEMMA ChangesShown ==
    ASSUME PageInv, OrderInv
    PROVE  ShownChanges
<1> SUFFICES ASSUME NEW pair \in Pair
             PROVE  LET old     == ResultsOf(pair.previous)
                        new     == ResultsOf(pair.current)
                        shown   == ChangesOf(pair)
                        scope   == ScopeChangesOf(pair)
                        Of(k, events) == {e \in events : e.kind = k}
                    IN  /\ pair.previous.at <= pair.current.at
                        /\ pair.previous.account = pair.current.account
                        /\ \A x \in DOMAIN old \cap DOMAIN new :
                              /\ {e.current : e \in {f \in Of("status_changed", shown) :
                                                         f.account = x}}
                                   = {new[x].status} \ {old[x].status}
                              /\ new[x].findings =
                                   (old[x].findings
                                      \ {e.finding : e \in {f \in Of("resolved_finding", shown) :
                                                                f.account = x}})
                                   \cup {e.finding : e \in {f \in Of("new_finding", shown) :
                                                                f.account = x}}
                        /\ pair.previous.listed \cup pair.previous.scanned # {} =>
                              pair.current.listed =
                                 (pair.previous.listed
                                    \ {e.account : e \in Of("account_removed", scope)})
                                 \cup {e.account : e \in Of("account_added", scope)}
                        /\ \A x \in pair.current.listed \ pair.current.scanned :
                              \/ x \in DOMAIN old /\ old[x].status = "error"
                              \/ ~pair.previous.included \/ ~pair.current.included
                              \/ x \in Regressed(pair)
                              \/ \E e \in Of("account_added", scope) :
                                    e.account = x /\ e.severity = "regression"
                              \/ pair.previous.listed \cup pair.previous.scanned = {}
                        /\ Flagged(pair.previous, pair.current) =>
                              Of("coverage_decreased", scope) # {}
  BY DEF ShownChanges
<1> DEFINE prev == pair.previous
           cur == pair.current
           old == ResultsOf(prev)
           new == ResultsOf(cur)
           shown == ChangesOf(pair)
           scope == ScopeChangesOf(pair)
           Of(k, events) == {e \in events : e.kind = k}
<1>1. /\ prev \in Reports /\ cur \in Reports
      /\ prev.at <= cur.at /\ prev.account = cur.account
  BY PairIs
<1>2. shown = DiffReports(old, new) /\ scope = Detect(prev, cur)
  BY DEF ChangesOf, ScopeChangesOf
<1>3. Regressed(pair) = {e.account : e \in {f \in shown : f.severity = "regression"}}
  BY DEF Regressed
<1>4. /\ DOMAIN old = DOMAIN StatusesOf(prev) /\ DOMAIN new = DOMAIN StatusesOf(cur)
      /\ \A x \in DOMAIN new : new[x].status = StatusesOf(cur)[x]
  BY ResultsAre
<1> HIDE DEF prev, cur, old, new, shown, scope
<1>5. ASSUME NEW x \in DOMAIN old \cap DOMAIN new
      PROVE  /\ {e.current : e \in {f \in Of("status_changed", shown) : f.account = x}}
                   = {new[x].status} \ {old[x].status}
             /\ new[x].findings =
                   (old[x].findings
                      \ {e.finding : e \in {f \in Of("resolved_finding", shown) : f.account = x}})
                   \cup {e.finding : e \in {f \in Of("new_finding", shown) : f.account = x}}
  <2>1. /\ {e.current : e \in Events("status_changed", shown, x)}
              = {new[x].status} \ {old[x].status}
        /\ {e.finding : e \in Events("resolved_finding", shown, x)}
              = old[x].findings \ new[x].findings
        /\ {e.finding : e \in Events("new_finding", shown, x)}
              = new[x].findings \ old[x].findings
    BY <1>2, DiffIs
  <2>2. \A k : {f \in Of(k, shown) : f.account = x} = Events(k, shown, x)
    BY DEF Events
  <2>3. new[x].findings = (old[x].findings \ (old[x].findings \ new[x].findings))
                          \cup (new[x].findings \ old[x].findings)
    OBVIOUS
  <2> QED BY <2>1, <2>2, <2>3
<1>6. ASSUME prev.listed \cup prev.scanned # {}
      PROVE  cur.listed = (prev.listed \ {e.account : e \in Of("account_removed", scope)})
                          \cup {e.account : e \in Of("account_added", scope)}
  <2>1. /\ {e.account : e \in Of("account_added", scope)} = cur.listed \ prev.listed
        /\ {e.account : e \in Of("account_removed", scope)} = prev.listed \ cur.listed
    BY <1>2, <1>6, DetectIs
  <2> HIDE DEF Of
  <2> QED BY <2>1
<1>7. ASSUME NEW x \in cur.listed \ cur.scanned
      PROVE  \/ x \in DOMAIN old /\ old[x].status = "error"
             \/ ~prev.included \/ ~cur.included
             \/ x \in Regressed(pair)
             \/ \E e \in Of("account_added", scope) : e.account = x /\ e.severity = "regression"
             \/ prev.listed \cup prev.scanned = {}
  <2> SUFFICES ASSUME prev.included, cur.included, prev.listed \cup prev.scanned # {},
                      ~(x \in DOMAIN old /\ old[x].status = "error")
               PROVE  \/ x \in Regressed(pair)
                      \/ \E e \in Of("account_added", scope) :
                            e.account = x /\ e.severity = "regression"
    OBVIOUS
  <2>1. x \in DOMAIN new /\ new[x].status = "error"
    BY <1>1, <1>4, EnteredAssumption
  <2>2. CASE x \in DOMAIN old
    <3>1. new[x].status \in Bad \ {old[x].status}
      BY <2>1, <2>2 DEF Bad
    <3>2. \E e \in shown : e.severity = "regression" /\ e.account = x
      BY <1>2, <2>1, <2>2, <3>1, DiffIs
    <3> QED BY <1>3, <3>2
  <2>3. CASE x \notin DOMAIN old
    <3>1. x \notin prev.listed
      BY <1>1, <1>4, <2>3, EnteredAssumption
    <3> QED BY <1>2, <3>1, DetectIs
  <2> QED BY <2>2, <2>3
<1>8. Flagged(prev, cur) => Of("coverage_decreased", scope) # {}
  <2>1. Flagged(prev, cur) => RatioDropped(prev, cur) /\ prev.listed # {}
    BY DEF Flagged, RatioDropped
  <2> QED BY <1>2, <2>1, DetectIs
<1> QED BY <1>1, <1>5, <1>6, <1>7, <1>8 DEF prev, cur, old, new, shown, scope
-----------------------------------------------------------------------------
\* Evidence is never shown for a request sent after its link was revoked,
\* whatever is accepted, revoked and asked meanwhile (resolveShareLink).
THEOREM RevokedLinkStaysGone == BuyerSpec => []RevokedStaysGone
<1>1. PageInv => RevokedStaysGone
  BY DEF PageInv, RequestInv
<1> QED BY <1>1, PageInvHolds, PTL

\* A verdict that was stored when a page of verdicts was asked for is on it,
\* unless the page is full of verdicts at least as new, although the reading is
\* not one transaction (handleLatestVerdict, handleVerdictHistory).
THEOREM NoHoleInAPage == BuyerSpec => []PageHasNoHole
<1>1. PageInv => PageHasNoHole
  BY DEF PageInv, RequestInv
<1> QED BY <1>1, PageInvHolds, PTL

\* The banner, the timeline and the questionnaire of one page, read by three
\* requests while reports arrive, are of one account and do not contradict each
\* other (App.tsx, ScopeSection.tsx, QuestionnaireAutofill.tsx).
THEOREM PartsOfAPageAgree == BuyerSpec => []PageHoldsTogether
<1>1. ASSUME PageInv PROVE PageHoldsTogether
  <2> SUFFICES ASSUME page.verdict = "verified" PROVE PageHoldsTogether
    BY DEF PageHoldsTogether
  <2>1. page.phase = "done" /\ Stored(page.report)
    BY <1>1 DEF PageInv, PartsInv
  <2>2. \A r, q : Stored(r) /\ Stored(q) => r.account = q.account
    BY <1>1, UnderOne DEF PageInv, Stored
  <2>3. \A rep \in Range(section.verified) : Stored(rep)
    BY <1>1 DEF PageInv, SectionInv
  <2>4. ASSUME section.phase = "ready"
        PROVE  \/ page.report \in Range(section.verified)
               \/ section.excluded > 0
               \/ Len(section.verified) = HistoryLimit
    <3>1. section.todo = << >> /\ Len(section.verified) \in Nat
      BY <1>1, <2>4, LenProperties DEF PageInv, SectionInv
    <3>2. Range(section.todo) = {}
          /\ Len(section.todo) + Len(section.verified) = Len(section.verified)
      BY <3>1 DEF Range
    <3> QED BY <1>1, <2>4, <3>2 DEF PageInv, SectionInv
  <2>5. fill.phase = "done" => Stored(fill.report) /\ fill.report.at >= page.report.at
    BY <1>1 DEF PageInv, FillInv
  <2> QED BY <2>1, <2>2, <2>3, <2>4, <2>5 DEF PageHoldsTogether
<1> QED BY <1>1, PageInvHolds, PTL

\* The request, the page and its parts are what they should be, and the section
\* never holds more than it asked for (ScopeSection.tsx, handleControlHistory).
THEOREM PageIsTyped == BuyerSpec => []PageTypeOK
<1>1. StoryInv => PageTypeOK
  BY DEF StoryInv
<1> QED BY <1>1, StoryHolds, PTL

\* Replaying the transitions of a control gives back every status of the window,
\* whichever accounts and controls come and go in it (handleControlHistory).
THEOREM TransitionsTellAll == BuyerSpec => []TransitionsReplay
<1>1. StoryInv => TransitionsReplay
  BY DEF StoryInv
<1> QED BY <1>1, StoryHolds, PTL

\* The changes shown lead from the earlier to the later of two scans of one
\* vendor, and an account that could no longer be entered is among those that
\* need attention (ScopeSection.tsx, diff.ts, scope.ts).
THEOREM ChangesLeadOn == BuyerSpec => []ShownChanges
<1>1. PageInv /\ OrderInv /\ StoryInv => ShownChanges
  BY ChangesShown
<1> QED BY <1>1, StoryHolds, PTL
=============================================================================
