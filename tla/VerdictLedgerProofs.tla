------------------------ MODULE VerdictLedgerProofs ------------------------
(***************************************************************************)
(* Theorems about VerdictLedger for every number of requests, accounts and *)
(* reports.  The inductive invariant IInv says what the two locks protect: *)
(* while a transaction holds its account's share_links row, nobody else    *)
(* changes that account's link, verdicts or history, so what it read still *)
(* holds when it commits.                                                  *)
(***************************************************************************)
EXTENDS VerdictLedger, TLAPS

\* At most one open transaction per account, and per scan_id.
LocksExclusive ==
    \A r, o \in Requests :
        /\ pc[r] \in Linked /\ pc[o] \in Linked
              /\ report[r].account = report[o].account => r = o
        /\ pc[r] \in Inserted /\ pc[o] \in Inserted
              /\ report[r].scan = report[o].scan => r = o

\* An account's token was drawn by a request for that account that committed;
\* an open transaction works with its account's token, or with its own
\* candidate while there is none.
TokensOwned ==
    /\ \A a \in Accounts : links[a] # NoToken =>
          /\ report[links[a]].account = a
          /\ pc[links[a]] = "done"
    /\ \A r \in Requests : pc[r] \in Linked =>
          token[r] = IF links[report[r].account] = NoToken
                     THEN r ELSE links[report[r].account]

\* A stored verdict is the one its request carried, under its account's link;
\* its scan is not about to be stored again.
VerdictsOwned ==
    /\ \A v \in verdicts :
          /\ v.report = report[v.id]
          /\ pc[v.id] = "done"
          /\ v.token = links[v.report.account]
    /\ \A v, w \in verdicts : v.id = w.id => v = w
    /\ \A a \in Accounts : links[a] # NoToken =>
           \E v \in verdicts : v.token = links[a]
    /\ OneVerdictPerScan
    /\ \A r \in Requests, v \in verdicts :
           pc[r] \in Inserted => v.report.scan # report[r].scan

\* The shape of a history row written for the request that inserts verdict id.
RowOf(h, id) ==
    /\ h.verdict = id
    /\ h.account \in report[id].listed
    /\ h.observed = report[id].at
    /\ h.status = "scanned" <=> h.account \in report[id].scanned

\* Pending rows exist only in an open transaction and cover, account by
\* account, the part of the listing already visited.
PendingRows ==
    \A r \in Requests :
        /\ \A h \in rows[r] \cup draft[r] :
              RowOf(h, r) /\ h.token = token[r] /\ pc[r] \in Inserted
        /\ \A g, h \in rows[r] : g.account = h.account => g = h
        /\ \A h \in draft[r] : h.account \in todo[r]
        /\ draft[r] # {} <=> pc[r] = "record"
        /\ \A g, h \in draft[r] : g = h
        /\ pc[r] \in Inserted =>
              /\ todo[r] \subseteq report[r].listed
              /\ \A x \in report[r].listed :
                    x \notin todo[r] <=> \E h \in rows[r] : h.account = x
        /\ pc[r] = "commit" => todo[r] = {}

\* Committed rows belong to committed verdicts and cover their listing.
CommittedRows ==
    /\ \A h \in history : \E v \in verdicts :
          /\ v.id = h.verdict
          /\ v.token = h.token
          /\ RowOf(h, v.id)
    /\ \A v \in verdicts : \A x \in v.report.listed :
          \E h \in history : h.verdict = v.id /\ h.account = x
    /\ \A g, h \in history :
          g.verdict = h.verdict /\ g.account = h.account => g = h

\* Whatever a transaction can see agrees on when an account was first seen.
SeenAgree ==
    \A r \in Requests : \A g, h \in history \cup rows[r] \cup draft[r] :
        g.token = h.token /\ g.account = h.account =>
            g.firstSeen = h.firstSeen

\* A 201 is written after the commit; nothing is stored for a request that
\* is unanswered, was a duplicate or was refused.
AnswersOwned ==
    \A r \in Requests :
        /\ answer[r] = "created" => \E v \in verdicts : v.id = r
        /\ answer[r] = "duplicate" =>
              \E v \in verdicts : v.id # r /\ v.report.scan = report[r].scan
        /\ answer[r] \in {"none", "duplicate", "refused"} =>
              \A v \in verdicts : v.id # r
        /\ pc[r] # "done" => answer[r] = "none"

IInv == /\ TypeOK
        /\ LocksExclusive
        /\ TokensOwned
        /\ VerdictsOwned
        /\ PendingRows
        /\ CommittedRows
        /\ SeenAgree
        /\ AnswersOwned
-----------------------------------------------------------------------------
\* Open transactions never share a token: the lock on the share_links row is
\* a lock on the token.
LEMMA TokensDistinct ==
    ASSUME TypeOK, LocksExclusive, TokensOwned,
           NEW r \in Requests, NEW o \in Requests,
           pc[r] \in Linked, pc[o] \in Linked, token[r] = token[o]
    PROVE  r = o
<1> DEFINE ar == report[r].account
           ao == report[o].account
<1>1. ar \in Accounts /\ ao \in Accounts
  BY ReportsAssumption DEF TypeOK, Report
<1>2. CASE links[ar] = NoToken
  BY <1>1, <1>2, NullsAssumption DEF TokensOwned, LocksExclusive, Linked, TypeOK
<1>3. CASE links[ar] # NoToken
  BY <1>1, <1>3, NullsAssumption DEF TokensOwned, LocksExclusive, Linked, TypeOK
<1> QED BY <1>2, <1>3

\* The least element of a set whose elements are all equal.
LEMMA MinOfAgreeing ==
    ASSUME NEW S, S # {}, S \subseteq Nat, \A m, n \in S : m = n
    PROVE  MinTime(S) \in S
<1>1. PICK m \in S : TRUE
  OBVIOUS
<1>2. \A n \in S : m <= n
  BY <1>1
<1> QED BY <1>1, <1>2 DEF MinTime

\* The time given to a new history row is a time, and agrees with every row
\* of that account the transaction sees.
LEMMA FirstSeenAgrees ==
    ASSUME TypeOK, SeenAgree, NEW r \in Requests, NEW x
    PROVE  /\ FirstSeen(r, x) \in Nat
           /\ \A h \in history \cup rows[r] :
                 h.token = token[r] /\ h.account = x =>
                     h.firstSeen = FirstSeen(r, x)
<1> DEFINE mine == {g \in history \cup rows[r] :
                       g.token = token[r] /\ g.account = x}
           times == {h.firstSeen : h \in mine}
<1>1. PriorFirstSeen(r, x) = MinTime(times)
  BY DEF PriorFirstSeen
<1>2. report[r].at \in Nat
  BY ReportsAssumption DEF TypeOK, Report
<1>3. times \subseteq Nat
  BY DEF TypeOK, HistoryRow
<1>4. \A m, n \in times : m = n
  BY DEF SeenAgree
<1>5. CASE times = {}
  <2>1. PriorFirstSeen(r, x) = NoTime
    BY <1>1, <1>5 DEF MinTime
  <2>2. mine = {}
    BY <1>5
  <2> QED BY <2>1, <2>2, <1>2 DEF FirstSeen
<1>6. CASE times # {}
  <2>1. MinTime(times) \in times
    BY <1>3, <1>4, <1>6, MinOfAgreeing
  <2>2. FirstSeen(r, x) = MinTime(times)
    BY <1>1, <1>3, <2>1, NullsAssumption DEF FirstSeen
  <2>3. \A h \in mine : h.firstSeen \in times
    OBVIOUS
  <2> QED BY <1>3, <1>4, <2>1, <2>2, <2>3
<1> QED BY <1>5, <1>6

LEMMA InitIInv == Init => IInv
<1> SUFFICES ASSUME Init PROVE IInv
  OBVIOUS
<1>1. TypeOK
  BY DEF Init, TypeOK, Active, Linked
<1>2. LocksExclusive /\ TokensOwned
  BY DEF Init, LocksExclusive, TokensOwned, Linked, Inserted
<1>3. VerdictsOwned
  BY DEF Init, VerdictsOwned, OneVerdictPerScan
<1>4. PendingRows
  BY DEF Init, PendingRows, Inserted
<1>5. CommittedRows /\ SeenAgree /\ AnswersOwned
  BY DEF Init, CommittedRows, SeenAgree, AnswersOwned
<1> QED BY <1>1, <1>2, <1>3, <1>4, <1>5 DEF IInv
-----------------------------------------------------------------------------
\* Statements before the INSERT take the link lock and read; they write no row.
LEMMA BeginIInv == ASSUME IInv, NEW r \in Requests, Begin(r) PROVE IInv'
<1> USE DEF IInv, Begin, tables
<1>1. TypeOK'
  BY DEF TypeOK, Active, Linked
<1>2. LocksExclusive'
  BY DEF TypeOK, LocksExclusive, Linked, Inserted
<1>3. TokensOwned'
  BY DEF TypeOK, TokensOwned, Linked
<1>4. VerdictsOwned'
  BY DEF TypeOK, VerdictsOwned, OneVerdictPerScan, Inserted, Verdict, VerdictIds
<1>5. PendingRows'
  BY DEF TypeOK, PendingRows, RowOf, Inserted
<1>6. CommittedRows'
  BY DEF CommittedRows, RowOf
<1>7. SeenAgree'
  BY DEF SeenAgree
<1>8. AnswersOwned'
  BY DEF TypeOK, AnswersOwned
<1> QED BY <1>1, <1>2, <1>3, <1>4, <1>5, <1>6, <1>7, <1>8

LEMMA LinkIInv ==
    ASSUME IInv, NEW r \in Requests, GetOrCreateShareLink(r) PROVE IInv'
<1> USE DEF IInv, GetOrCreateShareLink, tables
<1>1. TypeOK'
  BY ReportsAssumption DEF TypeOK, Active, Linked, Report, Tokens
<1>2. LocksExclusive'
  BY DEF TypeOK, LocksExclusive, LocksLink, Linked, Inserted
<1>3. TokensOwned'
  BY DEF TypeOK, TokensOwned, Linked
<1>4. VerdictsOwned'
  BY DEF TypeOK, VerdictsOwned, OneVerdictPerScan, Inserted, Verdict, VerdictIds
<1>5. PendingRows'
  BY DEF TypeOK, PendingRows, RowOf, Inserted
<1>6. CommittedRows'
  BY DEF CommittedRows, RowOf
<1>7. SeenAgree'
  BY DEF SeenAgree
<1>8. AnswersOwned'
  BY DEF TypeOK, AnswersOwned
<1> QED BY <1>1, <1>2, <1>3, <1>4, <1>5, <1>6, <1>7, <1>8

LEMMA SnapshotIInv ==
    ASSUME IInv, NEW r \in Requests, PreviousAccountsSnapshot(r) PROVE IInv'
<1> USE DEF IInv, PreviousAccountsSnapshot, tables
<1>1. TypeOK'
  BY DEF TypeOK, Active, Linked, LatestOf, Verdict
<1>2. LocksExclusive'
  BY DEF TypeOK, LocksExclusive, Linked, Inserted
<1>3. TokensOwned'
  BY DEF TypeOK, TokensOwned, Linked
<1>4. VerdictsOwned'
  BY DEF TypeOK, VerdictsOwned, OneVerdictPerScan, Inserted, Verdict, VerdictIds
<1>5. PendingRows'
  BY DEF TypeOK, PendingRows, RowOf, Inserted
<1>6. CommittedRows'
  BY DEF CommittedRows, RowOf
<1>7. SeenAgree'
  BY DEF SeenAgree
<1>8. AnswersOwned'
  BY DEF TypeOK, AnswersOwned
<1> QED BY <1>1, <1>2, <1>3, <1>4, <1>5, <1>6, <1>7, <1>8

\* The INSERT takes the scan_id and starts the walk over the listing.
LEMMA InsertIInv ==
    ASSUME IInv, NEW r \in Requests, InsertVerdict(r) PROVE IInv'
<1> USE DEF IInv, InsertVerdict, tables
<1>1. TypeOK'
  BY ReportsAssumption DEF TypeOK, Active, Linked, Report
<1>2. LocksExclusive'
  BY DEF TypeOK, LocksExclusive, LocksScan, Linked, Inserted
<1>3. TokensOwned'
  BY DEF TypeOK, TokensOwned, Linked
<1>4. VerdictsOwned'
  BY DEF TypeOK, VerdictsOwned, OneVerdictPerScan, Inserted, Verdict, VerdictIds
<1>5. PendingRows'
  BY DEF TypeOK, PendingRows, RowOf, Inserted
<1>6. CommittedRows'
  BY DEF CommittedRows, RowOf
<1>7. SeenAgree'
  BY DEF SeenAgree
<1>8. AnswersOwned'
  BY DEF TypeOK, AnswersOwned
<1> QED BY <1>1, <1>2, <1>3, <1>4, <1>5, <1>6, <1>7, <1>8

\* A transaction that ends without a commit leaves the tables as they were.
LEMMA RollBackIInv ==
    ASSUME IInv, NEW r \in Requests, pc[r] \in Active,
           NEW code \in {"duplicate", "refused", "fault"},
           code = "duplicate" =>
               \E v \in verdicts : v.report.scan = report[r].scan,
           RollBack(r, code)
    PROVE  IInv'
<1> USE DEF IInv, RollBack, tables
<1>1. TypeOK'
  BY DEF TypeOK, Active, Linked
<1>2. LocksExclusive'
  BY DEF TypeOK, LocksExclusive, Linked, Inserted
<1>3. TokensOwned'
  BY DEF TypeOK, TokensOwned, Linked
<1>4. VerdictsOwned'
  BY DEF TypeOK, VerdictsOwned, OneVerdictPerScan, Inserted, Verdict, VerdictIds
<1>5. PendingRows'
  BY DEF TypeOK, PendingRows, RowOf, Inserted
<1>6. CommittedRows'
  BY DEF CommittedRows, RowOf
<1>7. SeenAgree'
  BY DEF TypeOK, SeenAgree
<1>8. AnswersOwned'
  <2>1. \A v \in verdicts : v.id # r
    BY DEF VerdictsOwned, Active, Linked
  <2> QED BY <2>1 DEF TypeOK, AnswersOwned
<1> QED BY <1>1, <1>2, <1>3, <1>4, <1>5, <1>6, <1>7, <1>8

\* The two halves of one turn of insertAccountHistory.
LEMMA LookUpIInv ==
    ASSUME IInv, NEW r \in Requests, LookUpFirstSeen(r) PROVE IInv'
<1> USE DEF IInv, tables
<1>1. PICK x \in todo[r] : draft' = [draft EXCEPT ![r] =
              {[verdict |-> r, token |-> token[r], account |-> x,
                status |-> IF x \in report[r].scanned THEN "scanned"
                           ELSE "listed_unreachable",
                firstSeen |-> FirstSeen(r, x),
                observed |-> report[r].at]}]
  BY DEF LookUpFirstSeen
<1> DEFINE row == [verdict |-> r, token |-> token[r], account |-> x,
                   status |-> IF x \in report[r].scanned THEN "scanned"
                              ELSE "listed_unreachable",
                   firstSeen |-> FirstSeen(r, x),
                   observed |-> report[r].at]
<1>2. draft' = [draft EXCEPT ![r] = {row}]
  BY <1>1
<1>3. /\ pc[r] = "lookup"
      /\ pc' = [pc EXCEPT ![r] = "record"]
      /\ UNCHANGED <<tables, report, token, baseline, todo, rows, answer>>
  BY DEF LookUpFirstSeen
<1>4. row \in HistoryRow
  <2>1. FirstSeen(r, x) \in Nat
    BY FirstSeenAgrees
  <2>2. token[r] \in Tokens
    BY <1>3, ReportsAssumption
    DEF TypeOK, TokensOwned, Linked, Tokens, Report
  <2>3. x \in Accounts /\ report[r].at \in Nat
    BY ReportsAssumption DEF TypeOK, Report
  <2> QED BY <2>1, <2>2, <2>3 DEF HistoryRow, VerdictIds
<1>5. /\ row.verdict = r /\ row.token = token[r] /\ row.account = x
      /\ row.observed = report[r].at
      /\ row.status = "scanned" <=> x \in report[r].scanned
      /\ row.firstSeen = FirstSeen(r, x)
  OBVIOUS
<1> HIDE DEF row
<1>6. TypeOK'
  BY <1>2, <1>3, <1>4 DEF TypeOK, Active, Linked
<1>7. LocksExclusive'
  BY <1>3 DEF TypeOK, LocksExclusive, Linked, Inserted
<1>8. TokensOwned'
  BY <1>3 DEF TypeOK, TokensOwned, Linked
<1>9. VerdictsOwned'
  BY <1>3 DEF TypeOK, VerdictsOwned, OneVerdictPerScan, Inserted, Verdict,
              VerdictIds
<1>10. PendingRows'
  BY <1>2, <1>3, <1>5 DEF TypeOK, PendingRows, RowOf, Inserted
<1>11. CommittedRows'
  BY <1>3 DEF CommittedRows, RowOf
<1>12. SeenAgree'
  <2>1. draft[r] = {}
    BY <1>3 DEF PendingRows
  <2>2. \A h \in history \cup rows[r] :
           h.token = row.token /\ h.account = row.account =>
               h.firstSeen = row.firstSeen
    BY <1>5, FirstSeenAgrees
  <2> QED BY <1>2, <1>3, <2>1, <2>2 DEF TypeOK, SeenAgree
<1>13. AnswersOwned'
  BY <1>3 DEF TypeOK, AnswersOwned
<1> QED BY <1>6, <1>7, <1>8, <1>9, <1>10, <1>11, <1>12, <1>13

LEMMA RecordIInv ==
    ASSUME IInv, NEW r \in Requests, InsertAccountHistory(r) PROVE IInv'
<1> USE DEF IInv, InsertAccountHistory, tables
<1>1. PICK row \in draft[r] : draft[r] = {row}
  BY DEF PendingRows
<1>2. row.account \in todo[r] /\ RowOf(row, r) /\ row.token = token[r]
  BY <1>1 DEF PendingRows
<1>3. /\ rows' = [rows EXCEPT ![r] = @ \cup {row}]
      /\ todo' = [todo EXCEPT ![r] = @ \ {row.account}]
  BY <1>1
<1>4. TypeOK'
  BY <1>3 DEF TypeOK, Active, Linked
<1>5. LocksExclusive'
  BY DEF TypeOK, LocksExclusive, Linked, Inserted
<1>6. TokensOwned'
  BY DEF TypeOK, TokensOwned, Linked
<1>7. VerdictsOwned'
  BY DEF TypeOK, VerdictsOwned, OneVerdictPerScan, Inserted, Verdict, VerdictIds
<1>8. PendingRows'
  <2>1. \A h \in rows[r] : h.account # row.account
    BY <1>2 DEF PendingRows, Inserted, RowOf
  <2> QED BY <1>1, <1>2, <1>3, <2>1 DEF TypeOK, PendingRows, RowOf, Inserted
<1>9. CommittedRows'
  BY DEF CommittedRows, RowOf
<1>10. SeenAgree'
  BY <1>1, <1>3 DEF TypeOK, SeenAgree
<1>11. AnswersOwned'
  BY DEF TypeOK, AnswersOwned
<1> QED BY <1>4, <1>5, <1>6, <1>7, <1>8, <1>9, <1>10, <1>11

\* The commit publishes a complete verdict.
LEMMA CommitIInv == ASSUME IInv, NEW r \in Requests, Commit(r) PROVE IInv'
<1> USE DEF IInv, Commit, Publish
<1> DEFINE a == report[r].account
           row == VerdictRow(r)
<1>1. a \in Accounts /\ report[r] \in Reports /\ report[r].listed \subseteq Accounts
  BY ReportsAssumption DEF TypeOK, Report
<1>2. token[r] \in Tokens /\ token[r] # NoToken
  BY <1>1, NullsAssumption DEF TypeOK, TokensOwned, Linked, Tokens
<1>3. /\ row.id = r /\ row.token = token[r] /\ row.report = report[r]
      /\ row \in Verdict
  BY <1>1, <1>2 DEF VerdictRow, Verdict, VerdictIds, TypeOK
<1>4. \A v \in verdicts : v.id # r
  BY DEF VerdictsOwned
<1>5. verdicts' = verdicts \cup {row} /\ history' = history \cup rows[r]
  OBVIOUS
<1>6. links' = [links EXCEPT ![a] = token[r]]
  OBVIOUS
<1> HIDE DEF row
<1>7. \A b \in Accounts : links[b] # NoToken => links'[b] = links[b]
  BY <1>1, <1>6 DEF TypeOK, TokensOwned, Linked
<1>8. draft[r] = {} /\ todo[r] = {}
  BY DEF PendingRows
<1>9. TypeOK'
  BY <1>1, <1>2, <1>3, <1>5, <1>6 DEF TypeOK, Active, Linked
<1>10. LocksExclusive'
  BY DEF TypeOK, LocksExclusive, Linked, Inserted
<1>11. TokensOwned'
  <2>1. ASSUME NEW b \in Accounts, links'[b] # NoToken
        PROVE  report'[links'[b]].account = b /\ pc'[links'[b]] = "done"
    BY <1>1, <1>6, <2>1 DEF TypeOK, TokensOwned, Linked, Tokens
  <2>2. ASSUME NEW o \in Requests, pc'[o] \in Linked
        PROVE  token'[o] = IF links'[report'[o].account] = NoToken
                           THEN o ELSE links'[report'[o].account]
    <3>1. o # r /\ pc[o] \in Linked
      BY <2>2 DEF TypeOK, Linked
    <3>2. report[o].account # a
      BY <3>1 DEF LocksExclusive, Linked
    <3>3. links'[report[o].account] = links[report[o].account]
      BY <1>6, <3>2, ReportsAssumption DEF TypeOK, Report
    <3> QED BY <3>1, <3>3 DEF TokensOwned
  <2> QED BY <2>1, <2>2 DEF TokensOwned
<1>12. VerdictsOwned'
  <2>1. ASSUME NEW v \in verdicts'
        PROVE  /\ v.report = report'[v.id]
               /\ pc'[v.id] = "done"
               /\ v.token = links'[v.report.account]
    <3>1. CASE v = row
      BY <1>1, <1>3, <1>6, <3>1 DEF TypeOK
    <3>2. CASE v \in verdicts
      <4>1. v.report.account \in Accounts /\ v.token # NoToken
        BY <3>2, ReportsAssumption, NullsAssumption
        DEF TypeOK, Verdict, Report, Tokens
      <4> QED BY <1>7, <3>2, <4>1 DEF TypeOK, VerdictsOwned, Verdict, VerdictIds
    <3> QED BY <1>5, <3>1, <3>2
  <2>2. \A v, w \in verdicts' : v.id = w.id => v = w
    BY <1>3, <1>4, <1>5 DEF VerdictsOwned
  <2>3. \A b \in Accounts : links'[b] # NoToken =>
           \E v \in verdicts' : v.token = links'[b]
    BY <1>1, <1>3, <1>5, <1>6 DEF TypeOK, VerdictsOwned
  <2>4. OneVerdictPerScan'
    BY <1>3, <1>5 DEF VerdictsOwned, OneVerdictPerScan, Inserted
  <2>5. \A o \in Requests, v \in verdicts' :
           pc'[o] \in Inserted => v.report.scan # report'[o].scan
    BY <1>3, <1>5 DEF TypeOK, VerdictsOwned, LocksExclusive, Inserted
  <2> QED BY <2>1, <2>2, <2>3, <2>4, <2>5 DEF VerdictsOwned
<1>13. PendingRows'
  BY <1>8 DEF TypeOK, PendingRows, RowOf, Inserted
<1>14. CommittedRows'
  <2>1. \A h \in rows[r] : h.verdict = r /\ h.token = token[r] /\ RowOf(h, r)
    BY DEF PendingRows, RowOf
  <2>2. \A h \in history : h.verdict # r
    BY <1>4 DEF CommittedRows
  <2>3. \A h \in history' : \E v \in verdicts' :
           v.id = h.verdict /\ v.token = h.token /\ RowOf(h, v.id)'
    BY <1>3, <1>5, <2>1 DEF CommittedRows, RowOf
  <2>4. \A v \in verdicts' : \A x \in v.report.listed :
           \E h \in history' : h.verdict = v.id /\ h.account = x
    <3>1. \A x \in report[r].listed :
             \E h \in rows[r] : h.verdict = r /\ h.account = x
      BY <1>8, <2>1 DEF PendingRows, Inserted
    <3> QED BY <1>3, <1>5, <3>1 DEF CommittedRows
  <2>5. \A g, h \in history' :
           g.verdict = h.verdict /\ g.account = h.account => g = h
    BY <1>5, <2>1, <2>2 DEF CommittedRows, PendingRows
  <2> QED BY <2>3, <2>4, <2>5 DEF CommittedRows
<1>15. SeenAgree'
  <2> SUFFICES ASSUME NEW o \in Requests,
                      NEW g \in history' \cup rows'[o] \cup draft'[o],
                      NEW h \in history' \cup rows'[o] \cup draft'[o],
                      g.token = h.token, g.account = h.account
               PROVE  g.firstSeen = h.firstSeen
    BY DEF SeenAgree
  <2>1. CASE o = r
    BY <1>5, <1>8, <2>1 DEF TypeOK, SeenAgree
  <2>2. CASE o # r
    <3>1. \A k \in rows[o] \cup draft[o], l \in rows[r] : k.token # l.token
      <4> SUFFICES ASSUME NEW k \in rows[o] \cup draft[o], NEW l \in rows[r],
                          token[o] = token[r]
                   PROVE  FALSE
        BY DEF PendingRows
      <4>1. pc[o] \in Linked /\ pc[r] \in Linked
        BY DEF PendingRows, Inserted, Linked
      <4> QED BY <2>2, <4>1, TokensDistinct
    <3> QED BY <1>5, <2>2, <3>1 DEF TypeOK, SeenAgree
  <2> QED BY <2>1, <2>2
<1>16. AnswersOwned'
  BY <1>3, <1>5 DEF TypeOK, AnswersOwned
<1> QED BY <1>9, <1>10, <1>11, <1>12, <1>13, <1>14, <1>15, <1>16

LEMMA RevokeIInv == ASSUME IInv, NEW a \in Accounts, Revoke(a) PROVE IInv'
<1> USE DEF IInv, Revoke
<1>1. TypeOK'
  BY DEF TypeOK
<1>2. LocksExclusive' /\ TokensOwned' /\ PendingRows'
  BY DEF LocksExclusive, TokensOwned, PendingRows, RowOf
<1>3. VerdictsOwned' /\ CommittedRows'
  BY DEF VerdictsOwned, OneVerdictPerScan, CommittedRows, RowOf
<1>4. SeenAgree' /\ AnswersOwned'
  BY DEF SeenAgree, AnswersOwned
<1> QED BY <1>1, <1>2, <1>3, <1>4

LEMMA StutterIInv == ASSUME IInv, UNCHANGED vars PROVE IInv'
<1> USE DEF IInv, vars
<1>1. TypeOK'
  BY DEF TypeOK
<1>2. LocksExclusive' /\ TokensOwned' /\ PendingRows'
  BY DEF LocksExclusive, TokensOwned, PendingRows, RowOf
<1>3. VerdictsOwned' /\ CommittedRows'
  BY DEF VerdictsOwned, OneVerdictPerScan, CommittedRows, RowOf
<1>4. SeenAgree' /\ AnswersOwned'
  BY DEF SeenAgree, AnswersOwned
<1> QED BY <1>1, <1>2, <1>3, <1>4

LEMMA NextIInv == IInv /\ [Next]_vars => IInv'
<1> SUFFICES ASSUME IInv, [Next]_vars PROVE IInv'
  OBVIOUS
<1>1. ASSUME NEW r \in Requests, Begin(r) PROVE IInv'
  BY <1>1, BeginIInv
<1>2. ASSUME NEW r \in Requests, Proceed(r) PROVE IInv'
  <2>1. CASE GetOrCreateShareLink(r)
    BY <2>1, LinkIInv
  <2>2. CASE PreviousAccountsSnapshot(r)
    BY <2>2, SnapshotIInv
  <2>3. CASE InsertVerdict(r)
    BY <2>3, InsertIInv
  <2>4. CASE InsertDuplicate(r)
    BY <2>4, RollBackIInv DEF InsertDuplicate, Active, Linked
  <2>5. CASE InsertRefused(r)
    BY <2>5, RollBackIInv DEF InsertRefused, Active, Linked
  <2>6. CASE LookUpFirstSeen(r)
    BY <2>6, LookUpIInv
  <2>7. CASE InsertAccountHistory(r)
    BY <2>7, RecordIInv
  <2>8. CASE Commit(r)
    BY <2>8, CommitIInv
  <2> QED BY <1>2, <2>1, <2>2, <2>3, <2>4, <2>5, <2>6, <2>7, <2>8 DEF Proceed
<1>3. ASSUME NEW r \in Requests, Fail(r) PROVE IInv'
  BY <1>3, RollBackIInv DEF Fail
<1>4. ASSUME NEW a \in Accounts, Revoke(a) PROVE IInv'
  BY <1>4, RevokeIInv
<1>5. CASE Quiescent
  BY <1>5, StutterIInv DEF Quiescent
<1>6. CASE UNCHANGED vars
  BY <1>6, StutterIInv
<1> QED BY <1>1, <1>2, <1>3, <1>4, <1>5, <1>6 DEF Next

\* The inductive invariant holds in every reachable state of every ledger.
THEOREM InductiveInvariant == Spec => []IInv
BY InitIInv, NextIInv, PTL DEF Spec
-----------------------------------------------------------------------------
\* Every table and every transaction of CreateVerdict stays well typed.
THEOREM TypeCorrect == Spec => []TypeOK
<1>1. IInv => TypeOK
  BY DEF IInv
<1> QED BY <1>1, InductiveInvariant, PTL

\* CreateVerdict never leaves half a verdict behind, whatever interleaves with
\* it and wherever it fails.
THEOREM VerdictsStoredWhole == Spec => []StoredWhole
<1>1. IInv => StoredWhole
  <2> SUFFICES ASSUME IInv PROVE StoredWhole
    OBVIOUS
  <2>1. ASSUME NEW v \in verdicts, NEW x \in Accounts
        PROVE  LET mine == {h \in history : h.verdict = v.id /\ h.account = x}
               IN  IF x \in v.report.listed
                   THEN \E h \in mine :
                           /\ mine = {h}
                           /\ h.token = v.token
                           /\ h.observed = v.report.at
                           /\ h.status = "scanned" <=> x \in v.report.scanned
                   ELSE mine = {}
    <3>1. \A h \in history : h.verdict = v.id =>
             /\ h.token = v.token
             /\ h.observed = v.report.at
             /\ h.account \in v.report.listed
             /\ h.status = "scanned" <=> h.account \in v.report.scanned
      BY DEF IInv, CommittedRows, VerdictsOwned, RowOf
    <3>2. CASE x \in v.report.listed
      <4>1. PICK h \in history : h.verdict = v.id /\ h.account = x
        BY <3>2 DEF IInv, CommittedRows
      <4>2. {g \in history : g.verdict = v.id /\ g.account = x} = {h}
        BY <4>1 DEF IInv, CommittedRows
      <4> QED BY <3>1, <3>2, <4>1, <4>2
    <3>3. CASE x \notin v.report.listed
      BY <3>1, <3>3
    <3> QED BY <3>2, <3>3
  <2> QED BY <2>1 DEF IInv, StoredWhole, VerdictsOwned, CommittedRows
<1> QED BY <1>1, InductiveInvariant, PTL

\* A scan is stored once, however often and by whomever it is posted.
THEOREM ScansStoredOnce == Spec => []OneVerdictPerScan
<1>1. IInv => OneVerdictPerScan
  BY DEF IInv, VerdictsOwned
<1> QED BY <1>1, InductiveInvariant, PTL

\* Racing first scans of an account end up under one token, and a token never
\* opens a second account's evidence.
THEOREM TokensIdentifyAccounts == Spec => []OneTokenPerAccount
<1>1. IInv => OneTokenPerAccount
  <2> SUFFICES ASSUME IInv, NEW v \in verdicts, NEW w \in verdicts
               PROVE  v.token = w.token <=> v.report.account = w.report.account
    BY DEF OneTokenPerAccount
  <2>1. /\ v.report.account \in Accounts /\ w.report.account \in Accounts
        /\ v.token # NoToken /\ w.token # NoToken
    BY ReportsAssumption, NullsAssumption
    DEF IInv, TypeOK, Verdict, Report, Tokens
  <2>2. v.token = links[v.report.account] /\ w.token = links[w.report.account]
    BY DEF IInv, VerdictsOwned
  <2> QED BY <2>1, <2>2 DEF IInv, TokensOwned
<1> QED BY <1>1, InductiveInvariant, PTL

\* The status a client receives is true of the ledger.
THEOREM AnswersAreTruthful == Spec => []AnswersTruthful
<1>1. IInv => AnswersTruthful
  BY DEF IInv, AnswersOwned, AnswersTruthful
<1> QED BY <1>1, InductiveInvariant, PTL

\* No two committed rows disagree on when an account was first seen.
THEOREM FirstSeenIsSettled == Spec => []FirstSeenSettled
<1>1. IInv => FirstSeenSettled
  <2> SUFFICES ASSUME IInv, NEW g \in history, NEW h \in history,
                      g.token = h.token, g.account = h.account
               PROVE  g.firstSeen = h.firstSeen
    BY DEF FirstSeenSettled
  <2>1. g.verdict \in Requests
    BY DEF IInv, TypeOK, HistoryRow, VerdictIds
  <2> QED BY <2>1 DEF IInv, SeenAgree
<1> QED BY <1>1, InductiveInvariant, PTL
-----------------------------------------------------------------------------
(* VerdictLedger implements SerialLedger: a commit is the abstract Accept, *)
(* a revocation the abstract Revoke, and every other statement of a        *)
(* transaction a stutter.  SInv adds to IInv what a transaction read and   *)
(* has not published yet: the baseline and the first-seen times of its     *)
(* account.                                                                *)


\* A token under which a verdict is stored has a latest one.
LatestExists == \A v \in verdicts : LatestOf(v.token) # {}

\* The baseline an open transaction read is still the latest of its token.
BaselinesCurrent ==
    \A r \in Requests : pc[r] \in Linked \ {"snapshot"} =>
        IF baseline[r] = NoVerdict THEN LatestOf(token[r]) = {}
        ELSE \E v \in LatestOf(token[r]) : v.id = baseline[r]

\* A stored baseline names a stored verdict.
BaselinesStored ==
    \A v \in verdicts :
        v.baseline # NoVerdict => \E w \in verdicts : w.id = v.baseline

\* A pending row carries its own report's time, unless its account was already
\* seen under its token.
PendingFirsts ==
    \A r \in Requests : \A h \in rows[r] \cup draft[r] :
        \/ h.firstSeen = report[r].at
        \/ \E g \in history : g.token = h.token /\ g.account = h.account

SInv == IInv /\ LatestExists /\ BaselinesCurrent /\ BaselinesStored /\ PendingFirsts
-----------------------------------------------------------------------------
LEMMA InitSInv == Init => SInv
<1> SUFFICES ASSUME Init PROVE SInv
  OBVIOUS
<1>1. IInv
  BY InitIInv
<1>2. LatestExists /\ BaselinesCurrent /\ BaselinesStored /\ PendingFirsts
  BY DEF Init, LatestExists, BaselinesCurrent, BaselinesStored, PendingFirsts,
         Linked
<1> QED BY <1>1, <1>2 DEF SInv

\* A step that leaves the tables alone only has to keep what its own
\* transaction read.
LEMMA ReadingStep ==
    ASSUME SInv, IInv', NEW r \in Requests, UNCHANGED <<tables, report>>,
           \A o \in Requests \ {r} :
               /\ pc'[o] = pc[o] /\ token'[o] = token[o]
               /\ baseline'[o] = baseline[o]
               /\ rows'[o] = rows[o] /\ draft'[o] = draft[o],
           pc'[r] \in Linked \ {"snapshot"} =>
               IF baseline'[r] = NoVerdict THEN LatestOf(token'[r]) = {}
               ELSE \E v \in LatestOf(token'[r]) : v.id = baseline'[r],
           \A h \in rows'[r] \cup draft'[r] :
               \/ h.firstSeen = report[r].at
               \/ \E g \in history : g.token = h.token /\ g.account = h.account
    PROVE  SInv'
<1> USE DEF SInv, tables
<1>1. LatestExists' /\ BaselinesStored'
  BY DEF LatestExists, BaselinesStored, LatestOf
<1>2. BaselinesCurrent'
  BY DEF BaselinesCurrent, LatestOf
<1>3. PendingFirsts'
  BY DEF PendingFirsts
<1> QED BY <1>1, <1>2, <1>3

LEMMA BeginSInv == ASSUME SInv, NEW r \in Requests, Begin(r) PROVE SInv'
<1>1. IInv'
  BY BeginIInv DEF SInv
<1> QED BY <1>1, ReadingStep
        DEF SInv, IInv, TypeOK, Begin, tables, Linked, PendingFirsts

LEMMA LinkSInv ==
    ASSUME SInv, NEW r \in Requests, GetOrCreateShareLink(r) PROVE SInv'
<1>1. IInv'
  BY LinkIInv DEF SInv
<1>2. rows[r] \cup draft[r] = {}
  BY DEF SInv, IInv, PendingRows, GetOrCreateShareLink, Inserted
<1> QED BY <1>1, <1>2, ReadingStep
        DEF SInv, IInv, TypeOK, GetOrCreateShareLink, tables, Linked

LEMMA SnapshotSInv ==
    ASSUME SInv, NEW r \in Requests, PreviousAccountsSnapshot(r) PROVE SInv'
<1>1. IInv'
  BY SnapshotIInv DEF SInv
<1>2. IF baseline'[r] = NoVerdict THEN LatestOf(token'[r]) = {}
      ELSE \E v \in LatestOf(token'[r]) : v.id = baseline'[r]
  <2>1. token' = token /\ baseline \in [Requests -> VerdictIds \cup {NoVerdict}]
    BY DEF SInv, IInv, TypeOK, PreviousAccountsSnapshot
  <2>2. CASE LatestOf(token[r]) = {}
    BY <2>1, <2>2 DEF PreviousAccountsSnapshot
  <2>3. CASE LatestOf(token[r]) # {}
    <3>1. PICK v \in LatestOf(token[r]) :
             baseline' = [baseline EXCEPT ![r] = v.id]
      BY <2>3 DEF PreviousAccountsSnapshot
    <3>2. v.id \in Requests
      BY DEF LatestOf, SInv, IInv, TypeOK, Verdict, VerdictIds
    <3> QED BY <2>1, <3>1, <3>2, NullsAssumption
  <2> QED BY <2>2, <2>3
<1> QED BY <1>1, <1>2, ReadingStep
        DEF SInv, IInv, TypeOK, PreviousAccountsSnapshot, tables, Linked,
            PendingFirsts

LEMMA InsertSInv ==
    ASSUME SInv, NEW r \in Requests, InsertVerdict(r) PROVE SInv'
<1>1. IInv'
  BY InsertIInv DEF SInv
<1> QED BY <1>1, ReadingStep
        DEF SInv, IInv, TypeOK, InsertVerdict, tables, Linked, PendingFirsts,
            BaselinesCurrent

LEMMA RollBackSInv ==
    ASSUME SInv, NEW r \in Requests, pc[r] \in Active,
           NEW code \in {"duplicate", "refused", "fault"},
           code = "duplicate" =>
               \E v \in verdicts : v.report.scan = report[r].scan,
           RollBack(r, code)
    PROVE  SInv'
<1>1. IInv'
  BY RollBackIInv DEF SInv
<1> QED BY <1>1, ReadingStep DEF SInv, IInv, TypeOK, RollBack, tables, Linked

LEMMA LookUpSInv ==
    ASSUME SInv, NEW r \in Requests, LookUpFirstSeen(r) PROVE SInv'
<1>1. IInv'
  BY LookUpIInv DEF SInv
<1>2. PICK x \in todo[r] : draft'[r] =
              {[verdict |-> r, token |-> token[r], account |-> x,
                status |-> IF x \in report[r].scanned THEN "scanned"
                           ELSE "listed_unreachable",
                firstSeen |-> FirstSeen(r, x),
                observed |-> report[r].at]}
  BY DEF LookUpFirstSeen, SInv, IInv, TypeOK
<1>3. \/ FirstSeen(r, x) = report[r].at
      \/ \E g \in history : g.token = token[r] /\ g.account = x
  <2>1. \A h \in rows[r] : h.account # x
    BY DEF SInv, IInv, PendingRows, LookUpFirstSeen, Inserted, RowOf
  <2>2. CASE ~\E g \in history : g.token = token[r] /\ g.account = x
    <3>1. {g \in history \cup rows[r] : g.token = token[r] /\ g.account = x} = {}
      BY <2>1, <2>2
    <3>2. PriorFirstSeen(r, x) = NoTime
      BY <3>1 DEF PriorFirstSeen, MinTime
    <3> QED BY <3>2 DEF FirstSeen
  <2> QED BY <2>2
<1>4. \A h \in rows'[r] \cup draft'[r] :
         \/ h.firstSeen = report[r].at
         \/ \E g \in history : g.token = h.token /\ g.account = h.account
  <2>1. rows' = rows
    BY DEF LookUpFirstSeen
  <2>2. \A h \in draft'[r] : /\ h.firstSeen = FirstSeen(r, x)
                             /\ h.token = token[r] /\ h.account = x
    BY <1>2
  <2> QED BY <1>3, <2>1, <2>2 DEF SInv, PendingFirsts
<1> QED BY <1>1, <1>4, ReadingStep
        DEF SInv, IInv, TypeOK, LookUpFirstSeen, tables, Linked,
            BaselinesCurrent

LEMMA RecordSInv ==
    ASSUME SInv, NEW r \in Requests, InsertAccountHistory(r) PROVE SInv'
<1>1. IInv'
  BY RecordIInv DEF SInv
<1>2. rows'[r] \cup draft'[r] = rows[r] \cup draft[r]
  BY DEF SInv, IInv, TypeOK, InsertAccountHistory
<1> QED BY <1>1, <1>2, ReadingStep
        DEF SInv, IInv, TypeOK, InsertAccountHistory, tables, Linked,
            PendingFirsts, BaselinesCurrent

\* The ledger as a commit finds it: the token it publishes is its account's.
LEMMA TokenOfAccount ==
    ASSUME SInv, NEW r \in Requests, pc[r] \in Linked
    PROVE  /\ report[r].account \in Accounts
           /\ token[r] \in Tokens /\ token[r] # NoToken
           /\ \A v \in verdicts :
                 v.token = token[r] <=> v.report.account = report[r].account
           /\ \A b \in Accounts \ {report[r].account} : links[b] # token[r]
           /\ links[report[r].account] = NoToken =>
                 \A v \in verdicts : v.token # token[r]
<1> USE DEF SInv, IInv
<1> DEFINE a == report[r].account
<1>1. a \in Accounts
  BY ReportsAssumption DEF TypeOK, Report
<1>2. token[r] = IF links[a] = NoToken THEN r ELSE links[a]
  BY DEF TokensOwned
<1>3. token[r] \in Tokens /\ token[r] # NoToken
  BY <1>1, <1>2, NullsAssumption DEF TypeOK, Tokens
<1>4. report[token[r]].account = a
  BY <1>1, <1>2 DEF TokensOwned
<1>5. \A b \in Accounts : links[b] = token[r] => b = a /\ links[a] # NoToken
  BY <1>2, <1>3, <1>4 DEF TokensOwned, Linked
<1>6. \A v \in verdicts : /\ v.report.account \in Accounts
                          /\ v.token = links[v.report.account]
                          /\ v.token # NoToken
  BY ReportsAssumption, NullsAssumption
  DEF TypeOK, VerdictsOwned, Verdict, Report, Tokens
<1> QED BY <1>1, <1>2, <1>3, <1>5, <1>6

LEMMA CommitSInv == ASSUME SInv, NEW r \in Requests, Commit(r) PROVE SInv'
<1> USE DEF SInv
<1> DEFINE row == VerdictRow(r)
<1>1. IInv'
  BY CommitIInv
<1>2. /\ row.id = r /\ row.token = token[r] /\ row.report = report[r]
      /\ row.baseline = baseline[r]
  BY DEF VerdictRow
<1>3. /\ verdicts' = verdicts \cup {row} /\ history' = history \cup rows[r]
      /\ pc[r] = "commit" /\ draft[r] = {}
      /\ UNCHANGED <<report, token, baseline, draft>>
      /\ pc' = [pc EXCEPT ![r] = "done"] /\ rows' = [rows EXCEPT ![r] = {}]
  BY DEF Commit, Publish, IInv, PendingRows
<1> HIDE DEF row
<1>4. report[r].at \in Nat /\ \A v \in verdicts : v.report.at \in Nat
  BY ReportsAssumption DEF IInv, TypeOK, Verdict, Report
<1>5. \A t : t # token[r] => LatestOf(t)' = LatestOf(t)
  BY <1>2, <1>3 DEF LatestOf
<1>6. LatestExists'
  <2> SUFFICES ASSUME NEW v \in verdicts' PROVE LatestOf(v.token)' # {}
    BY DEF LatestExists
  <2>1. CASE v.token # token[r]
    BY <1>2, <1>3, <1>5, <2>1 DEF LatestExists
  <2>2. CASE v.token = token[r]
    <3>1. CASE \A w \in verdicts : w.token = token[r] => w.report.at <= report[r].at
      <4>1. row \in LatestOf(token[r])'
        BY <1>2, <1>3, <1>4, <3>1 DEF LatestOf
      <4> QED BY <1>3, <2>2, <4>1 DEF LatestOf
    <3>2. CASE ~\A w \in verdicts : w.token = token[r] => w.report.at <= report[r].at
      <4>1. PICK w \in verdicts : w.token = token[r] /\ ~(w.report.at <= report[r].at)
        BY <3>2
      <4>2. PICK l \in LatestOf(token[r]) : TRUE
        BY <4>1 DEF LatestExists
      <4>3. l \in verdicts /\ l.token = token[r] /\ w.report.at <= l.report.at
        BY <4>1, <4>2 DEF LatestOf
      <4>4. report[r].at <= l.report.at
        BY <1>4, <4>1, <4>3
      <4>5. l \in LatestOf(token[r])'
        BY <1>2, <1>3, <4>2, <4>3, <4>4 DEF LatestOf
      <4> QED BY <1>3, <2>2, <4>5 DEF LatestOf
    <3> QED BY <3>1, <3>2
  <2> QED BY <2>1, <2>2
<1>7. BaselinesCurrent'
  <2> SUFFICES ASSUME NEW o \in Requests, pc'[o] \in Linked \ {"snapshot"}
               PROVE  IF baseline[o] = NoVerdict THEN LatestOf(token[o])' = {}
                      ELSE \E v \in LatestOf(token[o])' : v.id = baseline[o]
    BY <1>3 DEF BaselinesCurrent
  <2>1. o # r /\ pc[o] \in Linked \ {"snapshot"}
    BY <1>3 DEF IInv, TypeOK, Linked
  <2>2. token[o] # token[r]
    BY <1>3, <2>1, TokensDistinct DEF IInv, Linked
  <2> QED BY <1>3, <1>5, <2>1, <2>2 DEF BaselinesCurrent
<1>8. BaselinesStored'
  <2>1. baseline[r] # NoVerdict => \E w \in verdicts : w.id = baseline[r]
    BY <1>3 DEF BaselinesCurrent, LatestOf, Linked
  <2> QED BY <1>2, <1>3, <2>1 DEF BaselinesStored
<1>9. PendingFirsts'
  <2> SUFFICES ASSUME NEW o \in Requests, NEW h \in rows'[o] \cup draft'[o]
               PROVE  \/ h.firstSeen = report'[o].at
                      \/ \E g \in history' : g.token = h.token /\ g.account = h.account
    BY DEF PendingFirsts
  <2>1. h \in rows[o] \cup draft[o]
    BY <1>3 DEF IInv, TypeOK
  <2> QED BY <1>3, <2>1 DEF PendingFirsts
<1> QED BY <1>1, <1>6, <1>7, <1>8, <1>9

LEMMA IdleSInv ==
    ASSUME SInv, IInv',
           UNCHANGED <<links, verdicts, history, pc, report, token, baseline,
                       todo, draft, rows, answer>>
    PROVE  SInv'
BY DEF SInv, LatestExists, LatestOf, BaselinesCurrent, BaselinesStored,
       PendingFirsts

LEMMA NextSInv == SInv /\ [Next]_vars => SInv'
<1> SUFFICES ASSUME SInv, [Next]_vars PROVE SInv'
  OBVIOUS
<1>1. ASSUME NEW r \in Requests, Begin(r) PROVE SInv'
  BY <1>1, BeginSInv
<1>2. ASSUME NEW r \in Requests, Proceed(r) PROVE SInv'
  <2>1. CASE GetOrCreateShareLink(r)
    BY <2>1, LinkSInv
  <2>2. CASE PreviousAccountsSnapshot(r)
    BY <2>2, SnapshotSInv
  <2>3. CASE InsertVerdict(r)
    BY <2>3, InsertSInv
  <2>4. CASE InsertDuplicate(r)
    BY <2>4, RollBackSInv DEF InsertDuplicate, Active, Linked
  <2>5. CASE InsertRefused(r)
    BY <2>5, RollBackSInv DEF InsertRefused, Active, Linked
  <2>6. CASE LookUpFirstSeen(r)
    BY <2>6, LookUpSInv
  <2>7. CASE InsertAccountHistory(r)
    BY <2>7, RecordSInv
  <2>8. CASE Commit(r)
    BY <2>8, CommitSInv
  <2> QED BY <1>2, <2>1, <2>2, <2>3, <2>4, <2>5, <2>6, <2>7, <2>8 DEF Proceed
<1>3. ASSUME NEW r \in Requests, Fail(r) PROVE SInv'
  BY <1>3, RollBackSInv DEF Fail
<1>4. ASSUME NEW a \in Accounts, Revoke(a) PROVE SInv'
  BY <1>4, RevokeIInv, IdleSInv DEF Revoke, SInv
<1>5. CASE Quiescent \/ UNCHANGED vars
  BY <1>5, StutterIInv, IdleSInv DEF Quiescent, vars, SInv
<1> QED BY <1>1, <1>2, <1>3, <1>4, <1>5 DEF Next
-----------------------------------------------------------------------------
LEMMA VerdictById ==
    ASSUME IInv, NEW v \in verdicts
    PROVE  VerdictOf(v.id) = v
BY DEF IInv, VerdictsOwned, VerdictOf

\* The verdict a commit adds is compared with a latest one before it.
LEMMA BaselineAccepted ==
    ASSUME SInv, NEW r \in Requests, pc[r] = "commit"
    PROVE  (IF baseline[r] = NoVerdict THEN NoVerdict
            ELSE VerdictOf(baseline[r]).report)
              \in Serial!Baselines(report[r].account)
<1> USE DEF SInv
<1> DEFINE a == report[r].account
           acc == {[report |-> v.report, baseline |-> BaselineReport(v)] :
                      v \in verdicts}
           prior == {e.report : e \in {f \in acc : f.report.account = a}}
<1>1. prior = {v.report : v \in {w \in verdicts : w.report.account = a}}
  <2>1. \A v \in verdicts : v.report.account = a => v.report \in prior
    <3> TAKE v \in verdicts
    <3> HAVE v.report.account = a
    <3> DEFINE e == [report |-> v.report, baseline |-> BaselineReport(v)]
    <3>1. e \in acc /\ e.report = v.report
      OBVIOUS
    <3> QED BY <3>1
  <2>2. \A e \in acc : \E v \in verdicts : e.report = v.report
    OBVIOUS
  <2> HIDE DEF acc
  <2>3. \A rep \in prior : \E v \in verdicts :
           rep = v.report /\ v.report.account = a
    BY <2>2
  <2> HIDE DEF prior
  <2> QED BY <2>1, <2>3
<1>2. prior = {v.report : v \in {w \in verdicts : w.token = token[r]}}
  BY <1>1, TokenOfAccount DEF Linked
<1>3. Serial!Baselines(a) =
         IF prior = {} THEN {NoVerdict}
         ELSE {rep \in prior : \A other \in prior : other.at <= rep.at}
  BY DEF Serial!Baselines
<1> HIDE DEF prior, acc
<1>4. CASE baseline[r] = NoVerdict
  <2>1. LatestOf(token[r]) = {}
    BY <1>4 DEF BaselinesCurrent, Linked
  <2>2. prior = {}
    BY <1>2, <2>1 DEF LatestExists
  <2> QED BY <1>3, <1>4, <2>2
<1>5. CASE baseline[r] # NoVerdict
  <2>1. PICK v \in LatestOf(token[r]) : v.id = baseline[r]
    BY <1>5 DEF BaselinesCurrent, Linked
  <2>2. VerdictOf(baseline[r]) = v
    BY <2>1, VerdictById DEF LatestOf
  <2>3. v.report \in prior /\ \A other \in prior : other.at <= v.report.at
    BY <1>2 DEF LatestOf
  <2> QED BY <1>3, <1>5, <2>2, <2>3
<1> QED BY <1>4, <1>5

\* What a commit adds to the accepted reports.
LEMMA CommitAddsReport ==
    ASSUME SInv, NEW r \in Requests, Commit(r)
    PROVE  {[report |-> v.report, baseline |-> BaselineReport(v)] :
               v \in verdicts}' =
           {[report |-> v.report, baseline |-> BaselineReport(v)] :
               v \in verdicts} \cup
           {[report |-> report[r],
             baseline |-> IF baseline[r] = NoVerdict THEN NoVerdict
                          ELSE VerdictOf(baseline[r]).report]}
<1> USE DEF SInv
<1>1. PICK row : row = VerdictRow(r)
  OBVIOUS
<1>2. row.id = r /\ row.report = report[r] /\ row.baseline = baseline[r]
  BY <1>1 DEF VerdictRow
<1>3. verdicts' = verdicts \cup {row}
  BY <1>1 DEF Commit, Publish
<1>4. IInv'
  BY CommitIInv
<1>5. \A v \in verdicts : VerdictOf(v.id) = v /\ VerdictOf(v.id)' = v
  <2> TAKE v \in verdicts
  <2>1. VerdictOf(v.id) = v
    BY VerdictById
  <2>2. VerdictOf(v.id)' = v
    BY <1>3, <1>4 DEF IInv, VerdictsOwned, VerdictOf
  <2> QED BY <2>1, <2>2
<1>6. \A v \in verdicts : BaselineReport(v)' = BaselineReport(v)
  BY <1>5 DEF BaselinesStored, BaselineReport
<1>7. baseline[r] # NoVerdict => \E w \in verdicts : w.id = baseline[r]
  BY DEF Commit, BaselinesCurrent, LatestOf, Linked
<1>8. BaselineReport(row)' = IF baseline[r] = NoVerdict THEN NoVerdict
                             ELSE VerdictOf(baseline[r]).report
  <2>1. CASE baseline[r] = NoVerdict
    BY <1>2, <2>1 DEF BaselineReport
  <2>2. CASE baseline[r] # NoVerdict
    <3>1. PICK w \in verdicts : w.id = baseline[r]
      BY <1>7, <2>2
    <3>2. BaselineReport(row)' = VerdictOf(row.baseline)'.report
      BY <1>2, <2>2 DEF BaselineReport
    <3>3. VerdictOf(row.baseline)' = w /\ VerdictOf(baseline[r]) = w
      BY <1>2, <1>5, <3>1
    <3> QED BY <2>2, <3>2, <3>3
  <2> QED BY <2>1, <2>2
<1> QED BY <1>2, <1>3, <1>6, <1>8

\* SELECT MIN over rows H that agree, under one token.
Times(H, t, x) == {h.firstSeen : h \in {g \in H : g.token = t /\ g.account = x}}

LEMMA AgreedTime ==
    ASSUME NEW H, NEW t, NEW x, NEW h \in H, h.token = t, h.account = x,
           h.firstSeen \in Nat,
           \A g \in H : g.token = t /\ g.account = x => g.firstSeen = h.firstSeen
    PROVE  MinTime(Times(H, t, x)) = h.firstSeen
<1>1. h.firstSeen \in Times(H, t, x)
  BY DEF Times
<1>2. \A n \in Times(H, t, x) : n = h.firstSeen
  BY DEF Times
<1>3. MinTime(Times(H, t, x)) \in Times(H, t, x)
  BY <1>1, <1>2, MinOfAgreeing
<1> QED BY <1>2, <1>3

LEMMA NoTimes ==
    ASSUME NEW H, NEW t, NEW x, \A h \in H : ~(h.token = t /\ h.account = x)
    PROVE  MinTime(Times(H, t, x)) = NoTime
<1>1. Times(H, t, x) = {}
  BY DEF Times
<1> QED BY <1>1 DEF MinTime

LEMMA HistoryAgrees ==
    ASSUME IInv, NEW g \in history, NEW h \in history,
           g.token = h.token, g.account = h.account
    PROVE  g.firstSeen = h.firstSeen /\ h.firstSeen \in Nat
<1>1. h.verdict \in Requests /\ h.firstSeen \in Nat
  BY DEF IInv, TypeOK, HistoryRow, VerdictIds
<1> QED BY <1>1 DEF IInv, SeenAgree

\* A commit gives every account it lists its first-seen time, and changes no
\* time that was set.
LEMMA CommitSettlesTimes ==
    ASSUME SInv, NEW r \in Requests, Commit(r), NEW b \in Accounts, NEW x \in Accounts
    PROVE  SeenTime(b, x)' =
               IF /\ b = report[r].account
                  /\ x \in report[r].listed
                  /\ SeenTime(b, x) = NoTime
               THEN report[r].at ELSE SeenTime(b, x)
<1> USE DEF SInv
<1> DEFINE a == report[r].account
<1>1. /\ pc[r] = "commit" /\ todo[r] = {}
      /\ links' = [links EXCEPT ![a] = token[r]]
      /\ history' = history \cup rows[r]
      /\ SInv'
  BY CommitSInv DEF Commit, Publish, IInv, PendingRows
<1>2. /\ a \in Accounts /\ token[r] \in Tokens /\ token[r] # NoToken
      /\ \A c \in Accounts \ {a} : links[c] # token[r]
      /\ links[a] = NoToken => \A v \in verdicts : v.token # token[r]
  BY <1>1, TokenOfAccount DEF Linked
<1>3. links'[a] = token[r] /\ \A c \in Accounts \ {a} : links'[c] = links[c]
  BY <1>1, <1>2 DEF IInv, TypeOK
<1>4. \A h \in rows[r] : h.token = token[r] /\ h.account \in report[r].listed
  BY DEF IInv, PendingRows, RowOf
<1>5. \A h \in history : h.token # NoToken /\ \E v \in verdicts : v.token = h.token
  BY NullsAssumption DEF IInv, TypeOK, HistoryRow, Tokens, CommittedRows
<1>6. /\ SeenTime(b, x) = MinTime(Times(history, links[b], x))
      /\ SeenTime(b, x)' = MinTime(Times(history', links'[b], x))
  BY DEF SeenTime, Times
<1>7. \A g, h \in history' : g.token = h.token /\ g.account = h.account =>
          g.firstSeen = h.firstSeen /\ h.firstSeen \in Nat
  <2> TAKE g, h \in history'
  <2>1. h.verdict \in Requests /\ h.firstSeen \in Nat
    BY <1>1 DEF IInv, TypeOK, HistoryRow, VerdictIds
  <2> QED BY <1>1, <2>1 DEF IInv, SeenAgree
<1>8. CASE b # a
  <2>1. \A h \in rows[r] : h.token # links'[b]
    BY <1>2, <1>3, <1>4, <1>8
  <2>2. Times(history', links'[b], x) = Times(history, links[b], x)
    BY <1>1, <1>3, <1>8, <2>1 DEF Times
  <2> QED BY <1>6, <1>8, <2>2
<1>9. CASE b = a
  <2>1. links[a] # NoToken => links[a] = token[r]
    BY <1>1, <1>2 DEF IInv, TokensOwned, Linked
  <2>2. \A h \in history : h.token = links[a] <=> h.token = token[r]
    BY <1>2, <1>5, <2>1
  <2>3. ASSUME NEW h \in history', h.token = token[r], h.account = x
        PROVE  SeenTime(b, x)' = h.firstSeen
    <3>1. /\ \A g \in history' : g.token = token[r] /\ g.account = x =>
                g.firstSeen = h.firstSeen
          /\ h.firstSeen \in Nat
      BY <1>7, <2>3
    <3> QED BY <1>3, <1>6, <1>9, <2>3, <3>1, AgreedTime
  <2>4. CASE \E h \in history : h.token = links[a] /\ h.account = x
    <3>1. PICK h \in history : h.token = links[a] /\ h.account = x
      BY <2>4
    <3>2. h.firstSeen \in Nat /\ \A g \in history :
             g.token = links[a] /\ g.account = x => g.firstSeen = h.firstSeen
      BY <3>1, HistoryAgrees
    <3>3. SeenTime(b, x) = h.firstSeen
      BY <1>6, <1>9, <3>1, <3>2, AgreedTime
    <3>4. SeenTime(b, x)' = h.firstSeen
      BY <1>1, <2>2, <2>3, <3>1
    <3> QED BY <3>2, <3>3, <3>4, NullsAssumption
  <2>5. CASE ~\E h \in history : h.token = links[a] /\ h.account = x
    <3>1. SeenTime(b, x) = NoTime
      BY <1>6, <1>9, <2>5, NoTimes
    <3>2. CASE x \in report[r].listed
      <4>1. PICK h \in rows[r] : h.account = x
        BY <1>1, <3>2 DEF IInv, PendingRows, Inserted
      <4>2. h.firstSeen = report[r].at
        BY <1>4, <2>2, <2>5, <4>1 DEF PendingFirsts
      <4>3. SeenTime(b, x)' = h.firstSeen
        BY <1>1, <1>4, <2>3, <4>1
      <4> QED BY <1>9, <3>1, <3>2, <4>2, <4>3
    <3>3. CASE x \notin report[r].listed
      <4>1. \A h \in history' : ~(h.token = links'[b] /\ h.account = x)
        BY <1>1, <1>3, <1>4, <1>9, <2>2, <2>5, <3>3
      <4> QED BY <1>6, <3>1, <3>3, <4>1, NoTimes
    <3> QED BY <3>2, <3>3
  <2> QED BY <2>4, <2>5
<1> QED BY <1>8, <1>9
-----------------------------------------------------------------------------
\* The refinement, step by step.
LEMMA CommitAccepts ==
    ASSUME SInv, NEW r \in Requests, Commit(r),
           NEW rep, rep = report[r]
    PROVE  Serial!Accept(rep)
<1> USE DEF SInv
<1> DEFINE a == rep.account
           acc == {[report |-> v.report, baseline |-> BaselineReport(v)] :
                      v \in verdicts}
           seen == [b \in Accounts |-> [x \in Accounts |-> SeenTime(b, x)]]
           base == IF baseline[r] = NoVerdict THEN NoVerdict
                   ELSE VerdictOf(baseline[r]).report
<1>1. /\ pc[r] = "commit"
      /\ links' = [links EXCEPT ![a] = token[r]]
      /\ UNCHANGED revoked
  BY DEF Commit, Publish
<1>2. \A e \in acc : e.report.scan # rep.scan
  <2>1. \A v \in verdicts : v.report.scan # rep.scan
    BY <1>1 DEF IInv, VerdictsOwned, Inserted
  <2> QED BY <2>1
<1>3. \E b \in Serial!Baselines(a) :
         acc' = acc \cup {[report |-> rep, baseline |-> b]}
  <2>1. base \in Serial!Baselines(a)
    BY <1>1, BaselineAccepted
  <2>2. acc' = acc \cup {[report |-> rep, baseline |-> base]}
    BY CommitAddsReport
  <2> QED BY <2>1, <2>2
<1>4. \/ /\ links[a] # NoToken
         /\ UNCHANGED links
      \/ /\ links[a] = NoToken
         /\ \E t \in Tokens : /\ \A b \in Accounts : links[b] # t
                              /\ links' = [links EXCEPT ![a] = t]
  <2>1. /\ a \in Accounts /\ token[r] \in Tokens /\ token[r] # NoToken
        /\ \A b \in Accounts \ {a} : links[b] # token[r]
    BY <1>1, TokenOfAccount DEF Linked
  <2>2. links[a] # NoToken => token[r] = links[a]
    BY <1>1 DEF IInv, TokensOwned, Linked
  <2> QED BY <1>1, <2>1, <2>2 DEF IInv, TypeOK
<1>5. seen' = [seen EXCEPT ![a] =
         [x \in Accounts |->
             IF x \in rep.listed /\ @[x] = NoTime
             THEN rep.at ELSE @[x]]]
  <2>1. \A b, x \in Accounts : SeenTime(b, x)' =
           IF b = a /\ x \in rep.listed /\ SeenTime(b, x) = NoTime
           THEN rep.at ELSE SeenTime(b, x)
    BY CommitSettlesTimes
  <2>2. a \in Accounts
    BY <1>1, TokenOfAccount DEF Linked
  <2> DEFINE new(b) == [x \in Accounts |-> SeenTime(b, x)']
  <2>3. seen' = [b \in Accounts |-> new(b)]
    OBVIOUS
  <2>4. \A b \in Accounts \ {a} : new(b) = seen[b]
    BY <2>1
  <2>5. new(a) = [x \in Accounts |->
                    IF x \in rep.listed /\ seen[a][x] = NoTime
                    THEN rep.at ELSE seen[a][x]]
    BY <2>1, <2>2
  <2>6. seen = [b \in Accounts |-> seen[b]]
    OBVIOUS
  <2> HIDE DEF new, seen
  <2> QED BY <2>2, <2>3, <2>4, <2>5, <2>6
<1> QED BY <1>1, <1>2, <1>3, <1>4, <1>5 DEF Serial!Accept

\* A step that commits no verdict and revokes no link is not seen.
LEMMA QuietStep == ASSUME UNCHANGED tables PROVE UNCHANGED Serial!vars
BY DEF tables, Serial!vars, SeenTime, BaselineReport, VerdictOf

LEMMA InitRefines == Init => Serial!Init
<1> SUFFICES ASSUME Init PROVE Serial!Init
  OBVIOUS
<1>1. \A a, x \in Accounts : SeenTime(a, x) = NoTime
  BY DEF Init, SeenTime, MinTime
<1> QED BY <1>1 DEF Init, Serial!Init

LEMMA NextRefines == SInv /\ [Next]_vars => [Serial!Next]_(Serial!vars)
<1> SUFFICES ASSUME SInv, [Next]_vars PROVE [Serial!Next]_(Serial!vars)
  OBVIOUS
<1>1. ASSUME NEW r \in Requests, Commit(r) PROVE Serial!Next
  <2>1. PICK rep \in Reports : rep = report[r]
    BY DEF SInv, IInv, TypeOK
  <2>2. Serial!Accept(rep)
    BY <1>1, <2>1, CommitAccepts
  <2> QED BY <2>2 DEF Serial!Next
<1>2. ASSUME NEW a \in Accounts, Revoke(a) PROVE Serial!Next
  <2>1. Serial!Revoke(a)
    BY <1>2 DEF Revoke, Serial!Revoke, SeenTime, BaselineReport, VerdictOf
  <2> QED BY <2>1 DEF Serial!Next
<1>3. ASSUME NEW r \in Requests,
             Begin(r) \/ (Proceed(r) /\ ~Commit(r)) \/ Fail(r)
      PROVE  UNCHANGED tables
  BY <1>3 DEF Begin, Proceed, GetOrCreateShareLink, PreviousAccountsSnapshot,
              InsertVerdict, InsertDuplicate, InsertRefused, RollBack,
              LookUpFirstSeen, InsertAccountHistory, Fail
<1>4. CASE Quiescent \/ UNCHANGED vars
  BY <1>4, QuietStep DEF Quiescent, vars, tables
<1> QED BY <1>1, <1>2, <1>3, <1>4, QuietStep DEF Next

\* However requests interleave, fail and retry, the tables of internal/store
\* are those of a ledger that took the stored reports one at a time, whole.
THEOREM LedgerIsSerial == Spec => Serializable
<1>1. Spec => []SInv
  BY InitSInv, NextSInv, PTL DEF Spec
<1> QED BY <1>1, InitRefines, NextRefines, PTL DEF Spec, Serializable, Serial!Spec
=============================================================================
